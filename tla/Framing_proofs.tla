--------------------------- MODULE Framing_proofs ---------------------------
(***************************************************************************)
(* For every value of the constants: the reassembly buffer is never        *)
(* overrun, and pieces of two records never end up in one record handed    *)
(* over.  The second has two arguments, one per kind of link.              *)
(***************************************************************************)
EXTENDS Framing, TLAPS

-----------------------------------------------------------------------------
(* The sender.                                                              *)

\* Every fragment of a record but the last is full and the last is not empty: the pieces
\* that FragmentCount promises are there, and no more.
LEMMA CountCovers ==
  ASSUME NEW len \in Nat \ {0}, NEW cap \in Nat \ {0}
  PROVE  /\ FragmentCount(len, cap) \in Nat \ {0}
         /\ (FragmentCount(len, cap) - 1) * cap < len
         /\ len <= FragmentCount(len, cap) * cap
<1> DEFINE c == FragmentCount(len, cap)
<1>1. c \in Nat /\ c * cap <= len + cap - 1 /\ len + cap - 1 < (c + 1) * cap
  BY SMT DEF FragmentCount
<1>2. (c + 1) * cap = c * cap + cap /\ (c - 1) * cap = c * cap - cap
  BY <1>1, SMT
<1>3. (c - 1) * cap < len /\ len <= c * cap
  BY <1>1, <1>2, SMT
<1>4. c # 0
  BY <1>3, SMT
<1> QED BY <1>1, <1>3, <1>4

\* A record cut into fragments is a sequence of well-formed fragments of that record, the
\* first of which has index 0.
LEMMA FragmentsType ==
  ASSUME NEW rec \in 1 .. MaxRecords, NEW len \in Nat \ {0}, NEW cap \in Nat \ {0},
         messageId \in 0 .. IdMod - 1
  PROVE  /\ FragmentsOf(rec, len, cap) \in Seq(Fragment)
         /\ \A i \in DOMAIN FragmentsOf(rec, len, cap) :
              /\ FragmentsOf(rec, len, cap)[i].id = messageId
              /\ FragmentsOf(rec, len, cap)[i].piece.rec = rec
              /\ FragmentsOf(rec, len, cap)[i].index = i - 1
<1> DEFINE c == FragmentCount(len, cap)
           chunk(i) == IF len - (i - 1) * cap > cap THEN cap ELSE len - (i - 1) * cap
           frag(i) == [id |-> messageId, index |-> i - 1, count |-> c,
                       piece |-> [rec |-> rec, len |-> chunk(i)]]
<1>1. c \in Nat /\ (c - 1) * cap < len
  BY CountCovers
<1>2. \A i \in 1 .. c : chunk(i) \in Nat
  <2> SUFFICES ASSUME NEW i \in 1 .. c PROVE chunk(i) \in Nat
    OBVIOUS
  <2>1. (i - 1) * cap <= (c - 1) * cap
    BY <1>1, SMT
  <2>2. (i - 1) * cap \in Int /\ (c - 1) * cap \in Int
    BY <1>1, SMT
  <2> QED BY <1>1, <2>1, <2>2, SMT
<1> HIDE DEF c
<1>3. \A i \in 1 .. c : frag(i) \in Fragment
  BY <1>1, <1>2 DEF Fragment, Piece
<1>4. FragmentsOf(rec, len, cap) = [i \in 1 .. c |-> frag(i)]
  BY DEF FragmentsOf, c
<1>5. [i \in 1 .. c |-> frag(i)] \in Seq(Fragment)
  BY <1>1, <1>3
<1> QED BY <1>4, <1>5

LEMMA FirstFits ==
  ASSUME NEW rec, NEW len \in 1 .. MaxRecord, NEW cap \in Capacities
  PROVE  ~ NeverFits(FragmentsOf(rec, len, cap)[1])
<1> DEFINE c == FragmentCount(len, cap)
           first == IF len > cap THEN cap ELSE len
<1>1. len \in Nat \ {0} /\ cap \in Nat \ {0} /\ MaxRecord \in Nat
  BY FramingAssumption
<1>2. c \in Nat \ {0} /\ (c - 1) * cap < len
  BY <1>1, CountCovers
<1> HIDE DEF c
<1>3. FragmentsOf(rec, len, cap)[1] =
        [id |-> messageId, index |-> 0, count |-> c, piece |-> [rec |-> rec, len |-> first]]
  <2>1. len - (1 - 1) * cap = len
    BY <1>1, SMT
  <2>2. 1 \in 1 .. c /\ 1 - 1 = 0
    BY <1>2
  <2> QED BY <2>1, <2>2 DEF FragmentsOf, c
<1>4. first \in Nat /\ first <= cap /\ first <= len
  BY <1>1
<1> HIDE DEF first
<1>5. (c - 1) * first <= (c - 1) * cap
  BY <1>1, <1>2, <1>4, SMT
<1>6. (c - 1) * first < MaxRecord /\ first <= MaxRecord
  <2>1. (c - 1) * first \in Int /\ (c - 1) * cap \in Int
    BY <1>1, <1>2, <1>4, SMT
  <2> QED BY <1>1, <1>2, <1>4, <1>5, <2>1
<1>7. (c - 1) * first \in Int
  BY <1>2, <1>4, SMT
<1> QED BY <1>1, <1>3, <1>4, <1>6, <1>7 DEF NeverFits

\* The check a receiver makes on a first fragment never refuses a record the sender may
\* send, also when the fragment capacity does not divide the length of a record near the
\* maximum.
THEOREM FirstFragmentFits ==
  ASSUME NEW rec \in 1 .. MaxRecords, NEW len \in 1 .. MaxRecord, NEW cap \in Capacities
  PROVE  ~ NeverFits(FragmentsOf(rec, len, cap)[1])
BY FirstFits

-----------------------------------------------------------------------------
(* The receiver.                                                            *)

\* A receiver that holds nothing is in order.
LEMMA IdleOK == ReassemblyOK(Idle)
BY FramingAssumption DEF ReassemblyOK, Reassembly, Idle, Piece

\* Whatever fragment arrives, the reassembly stays within its buffer.
LEMMA FedOK ==
  ASSUME NEW s, ReassemblyOK(s), NEW f \in Fragment, now \in 0 .. TimeMod - 1
  PROVE  ReassemblyOK(Fed(s, f))
<1> DEFINE j == Joined(s, f)
           a == Added(s, f)
<1>1. CASE ~ Accepts(s, f) \/ a.next = a.count
  BY <1>1, IdleOK DEF Fed
<1>2. CASE Accepts(s, f) /\ a.next # a.count
  <2>1. f.piece \in Piece /\ f.id \in 0 .. IdMod - 1 /\ f.count \in Nat /\ f.index \in Nat
    BY DEF Fragment
  <2>2. f.piece.len \in Nat
    BY <2>1 DEF Piece
  <2>3. /\ j \in Reassembly
        /\ Len(j.pieces) = j.next
        /\ j.inProgress
    <3>1. CASE StartsNew(s, f)
      BY <3>1, <2>1, <2>2, FramingAssumption DEF Joined, Started, Reassembly
    <3>2. CASE ~ StartsNew(s, f)
      BY <3>2 DEF Joined, StartsNew, ReassemblyOK
    <3> QED BY <3>1, <3>2
  <2>4. /\ f.index < f.count /\ f.count = j.count /\ f.index = j.next
        /\ j.len + f.piece.len <= MaxRecord
    BY <1>2 DEF Accepts
  <2>5. a = [inProgress |-> TRUE, id |-> j.id, count |-> j.count, next |-> j.next + 1,
             capacity |-> j.capacity, len |-> j.len + f.piece.len,
             startedAt |-> j.startedAt, pieces |-> Append(j.pieces, f.piece)]
    BY DEF Added
  <2> HIDE DEF j, a
  <2>6. j.len + f.piece.len \in 0 .. MaxRecord /\ j.next + 1 \in Nat
    <3>1. j.len \in 0 .. MaxRecord /\ j.next \in Nat
      BY <2>3 DEF Reassembly
    <3> QED BY <2>2, <2>4, <3>1, FramingAssumption
  <2>7. Append(j.pieces, f.piece) \in Seq(Piece) /\ Len(Append(j.pieces, f.piece)) = j.next + 1
    BY <2>1, <2>3 DEF Reassembly
  <2>8. a \in Reassembly
    BY <2>3, <2>5, <2>6, <2>7 DEF Reassembly
  <2>9. /\ Len(a.pieces) = a.next /\ a.inProgress /\ a.next > 0 /\ a.next < a.count
    BY <1>2, <2>1, <2>3, <2>4, <2>5, <2>7 DEF Reassembly
  <2> QED BY <1>2, <2>8, <2>9 DEF Fed, ReassemblyOK, a
<1> QED BY <1>1, <1>2

-----------------------------------------------------------------------------
(* Type correctness.                                                        *)

\* The reassembly buffer is never overrun, whatever the link does.
THEOREM FramingTypeOK == Spec => []TypeOK
<1>1. Init => TypeOK
  BY IdleOK, FramingAssumption DEF Init, TypeOK
<1>2. TypeOK /\ [Next]_vars => TypeOK'
  <2> SUFFICES ASSUME TypeOK, [Next]_vars PROVE TypeOK'
    OBVIOUS
  <2> USE FramingAssumption
  <2>1. CASE SendRecord
    <3>1. PICK len \in 1 .. MaxRecord, cap \in Capacities :
            wire' = wire \o FragmentsOf(nextRec, len, cap)
      BY <2>1 DEF SendRecord
    <3>2. FragmentsOf(nextRec, len, cap) \in Seq(Fragment)
      <4>1. nextRec \in 1 .. MaxRecords
        BY <2>1 DEF SendRecord, TypeOK
      <4>2. len \in Nat \ {0} /\ cap \in Nat \ {0}
        OBVIOUS
      <4> QED BY <4>1, <4>2, FragmentsType DEF TypeOK
    <3>3. wire' \in Seq(Fragment)
      BY <3>1, <3>2 DEF TypeOK
    <3>4. messageId' \in 0 .. IdMod - 1
      BY <2>1 DEF SendRecord, TypeOK
    <3> QED BY <2>1, <3>3, <3>4 DEF SendRecord, TypeOK
  <2>2. CASE Receive
    <3>1. Head(wire) \in Fragment /\ Tail(wire) \in Seq(Fragment)
      BY <2>2 DEF Receive, TypeOK
    <3>2. ReassemblyOK(r')
      BY <2>2, <3>1, FedOK DEF Receive, TypeOK
    <3>3. delivered' \in Seq(Seq(Piece))
      <4>1. CASE delivered' = delivered
        BY <4>1 DEF TypeOK
      <4>2. CASE delivered' = Append(delivered, Added(r, Head(wire)).pieces)
        <5>1. Head(wire).piece \in Piece
          BY <3>1 DEF Fragment
        <5>2. Joined(r, Head(wire)).pieces \in Seq(Piece)
          BY DEF Joined, Started, TypeOK, ReassemblyOK, Reassembly
        <5>3. Added(r, Head(wire)).pieces \in Seq(Piece)
          <6>1. CASE StartsNew(r, Head(wire))
            BY <6>1, <5>1 DEF Added, Joined, Started
          <6>2. CASE ~ StartsNew(r, Head(wire))
            BY <6>2, <5>1 DEF Added, Joined, TypeOK, ReassemblyOK, Reassembly
          <6> QED BY <6>1, <6>2
        <5> QED BY <4>2, <5>3 DEF TypeOK
      <4> QED BY <2>2, <4>1, <4>2 DEF Receive
    <3> QED BY <2>2, <3>1, <3>2, <3>3 DEF Receive, TypeOK
  <2>3. CASE CheckTimeout
    <3>1. /\ r.pieces \in Seq(Piece) /\ Len(r.pieces) > 0
      BY <2>3 DEF CheckTimeout, Expired, TypeOK, ReassemblyOK, Reassembly
    <3>2. r.pieces[1] \in Piece
      BY <3>1
    <3>3. r.pieces[1].rec \in 1 .. MaxRecords
      BY <3>2 DEF Piece
    <3>4. ReassemblyOK(r')
      BY <2>3, IdleOK DEF CheckTimeout
    <3>5. spoiled' \subseteq 1 .. MaxRecords + 1
      <4>1. spoiled' = spoiled \cup {r.pieces[1].rec}
        BY <2>3 DEF CheckTimeout
      <4>2. spoiled \subseteq 1 .. MaxRecords + 1
        BY DEF TypeOK
      <4>3. r.pieces[1].rec \in 1 .. MaxRecords + 1
        BY <3>3
      <4> QED BY <4>1, <4>2, <4>3, Zenon
    <3> QED BY <2>3, <3>4, <3>5 DEF CheckTimeout, TypeOK
  <2>4. CASE Tick
    BY <2>4 DEF Tick, TypeOK
  <2>5. CASE Lose
    <3>1. Head(wire) \in Fragment /\ Tail(wire) \in Seq(Fragment)
      BY <2>5 DEF Lose, TypeOK
    <3>2. Head(wire).piece.rec \in 1 .. MaxRecords
      BY <3>1 DEF Fragment, Piece
    <3>3. spoiled' \subseteq 1 .. MaxRecords + 1
      <4>1. spoiled' = spoiled \cup {Head(wire).piece.rec}
        BY <2>5 DEF Lose
      <4>2. spoiled \subseteq 1 .. MaxRecords + 1
        BY DEF TypeOK
      <4>3. Head(wire).piece.rec \in 1 .. MaxRecords + 1
        BY <3>2
      <4> QED BY <4>1, <4>2, <4>3, Zenon
    <3> QED BY <2>5, <3>1, <3>3 DEF Lose, TypeOK
  <2>6. ASSUME LinkBreaks, messageId' \in 0 .. IdMod - 1 PROVE TypeOK'
    <3>1. WireRecs \subseteq 1 .. MaxRecords
      <4>1. \A i \in DOMAIN wire : wire[i] \in Fragment
        BY DEF TypeOK
      <4>2. \A i \in DOMAIN wire : wire[i].piece.rec \in 1 .. MaxRecords
        BY <4>1 DEF Fragment, Piece
      <4> QED BY <4>2 DEF WireRecs
    <3>2. InProgressRecs \subseteq 1 .. MaxRecords
      <4>1. r.pieces \in Seq(Piece)
        BY DEF TypeOK, ReassemblyOK, Reassembly
      <4>2. \A i \in DOMAIN r.pieces : r.pieces[i] \in Piece
        BY <4>1
      <4>3. \A i \in DOMAIN r.pieces : r.pieces[i].rec \in 1 .. MaxRecords
        BY <4>2 DEF Piece
      <4> QED BY <4>3 DEF InProgressRecs
    <3>3. spoiled' \subseteq 1 .. MaxRecords + 1
      BY <2>6, <3>1, <3>2 DEF LinkBreaks, TypeOK
    <3>4. ReassemblyOK(r')
      BY <2>6, IdleOK DEF LinkBreaks, TypeOK
    <3> QED BY <2>6, <3>3, <3>4 DEF LinkBreaks, TypeOK
  <2>7. CASE Reconnect \/ Restart
    BY <2>6, <2>7 DEF Reconnect, Restart, TypeOK
  <2>8. CASE UNCHANGED vars
    BY <2>8 DEF vars, TypeOK
  <2> QED BY <2>1, <2>2, <2>3, <2>4, <2>5, <2>6, <2>7, <2>8 DEF Next
<1> QED BY <1>1, <1>2, PTL DEF Spec

-----------------------------------------------------------------------------
(* What an accepted fragment does to the pieces.                            *)

OneRecord(ps) == \A i \in DOMAIN ps : ps[i].rec = ps[1].rec

\* A fragment of the same record, or one that starts a record, keeps the pieces of one record.
LEMMA AddedOneRecord ==
  ASSUME NEW f, r.pieces \in Seq(Piece), OneRecord(r.pieces), f.piece \in Piece,
         StartsNew(r, f) \/ r.pieces = << >> \/ f.piece.rec = r.pieces[1].rec
  PROVE  /\ OneRecord(Added(r, f).pieces)
         /\ Added(r, f).pieces[1].rec = f.piece.rec
<1>1. CASE StartsNew(r, f)
  <2>1. Added(r, f).pieces = Append(<< >>, f.piece)
    BY <1>1 DEF Added, Joined, Started
  <2>2. Added(r, f).pieces = << f.piece >>
    BY <2>1
  <2> QED BY <2>2 DEF OneRecord
<1>2. CASE ~ StartsNew(r, f)
  <2>1. Added(r, f).pieces = Append(r.pieces, f.piece)
    BY <1>2 DEF Added, Joined
  <2>2. \A i \in 1 .. Len(r.pieces) : Append(r.pieces, f.piece)[i] = r.pieces[i]
    OBVIOUS
  <2>3. /\ DOMAIN Append(r.pieces, f.piece) = 1 .. Len(r.pieces) + 1
        /\ Append(r.pieces, f.piece)[Len(r.pieces) + 1] = f.piece
    OBVIOUS
  <2>4. CASE r.pieces = << >>
    BY <2>1, <2>3, <2>4 DEF OneRecord
  <2>5. CASE r.pieces # << >>
    <3>1. 1 \in 1 .. Len(r.pieces)
      BY <2>5
    <3>2. f.piece.rec = r.pieces[1].rec
      BY <1>2, <2>5
    <3>3. Append(r.pieces, f.piece)[1] = r.pieces[1]
      BY <2>2, <3>1
    <3>4. \A i \in 1 .. Len(r.pieces) : r.pieces[i].rec = r.pieces[1].rec
      BY DEF OneRecord
    <3>5. \A i \in 1 .. Len(r.pieces) + 1 :
            Append(r.pieces, f.piece)[i].rec = r.pieces[1].rec
      BY <2>2, <2>3, <3>2, <3>4
    <3> QED BY <2>1, <2>3, <3>2, <3>3, <3>5 DEF OneRecord
  <2> QED BY <2>4, <2>5
<1> QED BY <1>1, <1>2

\* One more record handed over.
LEMMA DeliveredNeverMixed ==
  ASSUME TypeOK, NeverMixed, NEW ps \in Seq(Piece), OneRecord(ps),
         delivered' = Append(delivered, ps)
  PROVE  NeverMixed'
<1>1. /\ DOMAIN delivered' = 1 .. Len(delivered) + 1
      /\ delivered'[Len(delivered) + 1] = ps
      /\ \A d \in DOMAIN delivered : delivered'[d] = delivered[d]
      /\ DOMAIN delivered = 1 .. Len(delivered)
  BY DEF TypeOK
<1>2. \A d \in 1 .. Len(delivered) + 1 :
        d \in DOMAIN delivered \/ d = Len(delivered) + 1
  BY <1>1 DEF TypeOK
<1> QED BY <1>1, <1>2 DEF NeverMixed, OneRecord

-----------------------------------------------------------------------------
(* A link that loses no single fragment.                                    *)

\* On the link, a fragment either starts a record or follows a fragment of its own record;
\* the first one either starts a record or goes on with the record in progress.
Contiguous ==
  /\ OneRecord(r.pieces)
  /\ \A i \in 2 .. Len(wire) :
       wire[i].index = 0 \/ wire[i].piece.rec = wire[i - 1].piece.rec
  /\ r.inProgress /\ wire # << >> =>
       wire[1].index = 0 \/ wire[1].piece.rec = r.pieces[1].rec

\* Without loss, the pieces of a record handed over all come from one record, although
\* message ids repeat, the link breaks in the middle of a record and the sender restarts
\* under a receiver that is never reset.
THEOREM LosslessNeverMixed == ASSUME ~ Lossy PROVE Spec => []NeverMixed
<1>1. Init => Contiguous /\ NeverMixed
  BY DEF Init, Contiguous, NeverMixed, OneRecord, Idle
<1>2. TypeOK /\ Contiguous /\ NeverMixed /\ [Next]_vars => Contiguous' /\ NeverMixed'
  <2> SUFFICES ASSUME TypeOK, Contiguous, NeverMixed, [Next]_vars
               PROVE  Contiguous' /\ NeverMixed'
    OBVIOUS
  <2>0. r.pieces \in Seq(Piece) /\ wire \in Seq(Fragment) /\ delivered \in Seq(Seq(Piece))
    BY DEF TypeOK, ReassemblyOK, Reassembly
  <2>1. CASE SendRecord
    <3>1. PICK len \in 1 .. MaxRecord, cap \in Capacities :
            wire' = wire \o FragmentsOf(nextRec, len, cap)
      BY <2>1 DEF SendRecord
    <3> DEFINE fs == FragmentsOf(nextRec, len, cap)
    <3>2. /\ fs \in Seq(Fragment)
          /\ \A i \in DOMAIN fs : fs[i].piece.rec = nextRec /\ fs[i].index = i - 1
      <4>1. nextRec \in 1 .. MaxRecords
        BY <2>1 DEF SendRecord, TypeOK
      <4>2. len \in Nat \ {0} /\ cap \in Nat \ {0}
        BY FramingAssumption
      <4> QED BY <4>1, <4>2, FragmentsType DEF TypeOK
    <3> HIDE DEF fs
    <3>3. /\ Len(wire') = Len(wire) + Len(fs)
          /\ \A i \in 1 .. Len(wire) : wire'[i] = wire[i]
          /\ \A i \in 1 .. Len(fs) : wire'[Len(wire) + i] = fs[i]
      BY <2>0, <3>1, <3>2 DEF fs
    <3>4. \A i \in 2 .. Len(wire') :
            wire'[i].index = 0 \/ wire'[i].piece.rec = wire'[i - 1].piece.rec
      <4> SUFFICES ASSUME NEW i \in 2 .. Len(wire')
                   PROVE wire'[i].index = 0 \/ wire'[i].piece.rec = wire'[i - 1].piece.rec
        OBVIOUS
      <4>1. CASE i <= Len(wire)
        <5>1. i \in 2 .. Len(wire) /\ i \in 1 .. Len(wire) /\ i - 1 \in 1 .. Len(wire)
          BY <4>1, <2>0
        <5> QED BY <5>1, <3>3 DEF Contiguous
      <4>2. CASE i > Len(wire)
        <5> DEFINE k == i - Len(wire)
        <5>0. /\ Len(wire) \in Nat /\ Len(fs) \in Nat /\ DOMAIN fs = 1 .. Len(fs)
              /\ i \in 2 .. Len(wire) + Len(fs)
          BY <2>0, <3>2, <3>3
        <5>1. k \in 1 .. Len(fs) /\ i = Len(wire) + k
          BY <4>2, <5>0
        <5> HIDE DEF k
        <5>2. wire'[i] = fs[k] /\ fs[k].index = k - 1 /\ fs[k].piece.rec = nextRec
          BY <5>0, <5>1, <3>2, <3>3
        <5>3. CASE k = 1
          BY <5>2, <5>3
        <5>4. CASE k # 1
          <6>1. k - 1 \in 1 .. Len(fs) /\ i - 1 = Len(wire) + (k - 1)
            BY <5>0, <5>1, <5>4
          <6>2. wire'[i - 1] = fs[k - 1]
            BY <6>1, <3>3
          <6>3. fs[k - 1].piece.rec = nextRec
            BY <5>0, <6>1, <3>2
          <6> QED BY <5>2, <6>2, <6>3
        <5> QED BY <5>3, <5>4
      <4> QED BY <4>1, <4>2, <2>0
    <3>5. r.inProgress /\ wire' # << >> =>
            wire'[1].index = 0 \/ wire'[1].piece.rec = r.pieces[1].rec
      <4>1. CASE wire = << >>
        <5>1. Len(wire) = 0
          BY <4>1
        <5>2. wire' # << >> => 1 \in 1 .. Len(fs)
          BY <5>1, <3>2, <2>0, <3>1 DEF fs
        <5> QED BY <5>1, <5>2, <3>2, <3>3
      <4>2. CASE wire # << >>
        <5>1. 1 \in 1 .. Len(wire)
          BY <4>2, <2>0
        <5> QED BY <4>2, <5>1, <3>3 DEF Contiguous
      <4> QED BY <4>1, <4>2
    <3>6. UNCHANGED <<r, delivered>>
      BY <2>1 DEF SendRecord
    <3> QED BY <3>4, <3>5, <3>6 DEF Contiguous, NeverMixed
  <2>2. CASE Receive
    <3> DEFINE f == Head(wire)
    <3>1. /\ wire # << >> /\ f \in Fragment /\ f = wire[1] /\ f.piece \in Piece
          /\ wire' = Tail(wire) /\ r' = Fed(r, f)
      <4>1. wire # << >> /\ wire' = Tail(wire) /\ r' = Fed(r, f)
        BY <2>2 DEF Receive
      <4>2. f \in Fragment /\ f = wire[1]
        BY <2>0, <4>1
      <4> HIDE DEF f
      <4>3. f.piece \in Piece
        BY <4>2 DEF Fragment
      <4> QED BY <4>1, <4>2, <4>3
    <3>2. /\ Len(wire') = Len(wire) - 1
          /\ \A i \in 1 .. Len(wire') : wire'[i] = wire[i + 1]
      BY <2>0, <3>1
    <3> HIDE DEF f
    <3>3. \A i \in 2 .. Len(wire') :
            wire'[i].index = 0 \/ wire'[i].piece.rec = wire'[i - 1].piece.rec
      <4> SUFFICES ASSUME NEW i \in 2 .. Len(wire')
                   PROVE wire'[i].index = 0 \/ wire'[i].piece.rec = wire'[i - 1].piece.rec
        OBVIOUS
      <4>1. i + 1 \in 2 .. Len(wire) /\ i \in 1 .. Len(wire') /\ i - 1 \in 1 .. Len(wire')
        BY <2>0, <3>1, <3>2
      <4>2. wire[i + 1].index = 0 \/ wire[i + 1].piece.rec = wire[(i + 1) - 1].piece.rec
        BY <4>1 DEF Contiguous
      <4> QED BY <4>1, <4>2, <3>2
    <3>4. Accepts(r, f) => /\ OneRecord(Added(r, f).pieces)
                           /\ Added(r, f).pieces[1].rec = f.piece.rec
      <4> SUFFICES ASSUME Accepts(r, f)
                   PROVE  StartsNew(r, f) \/ r.pieces = << >> \/ f.piece.rec = r.pieces[1].rec
        BY <2>0, <3>1, AddedOneRecord DEF Contiguous
      <4>1. CASE StartsNew(r, f)
        BY <4>1
      <4>2. CASE ~ StartsNew(r, f)
        <5>1. r.inProgress /\ f.index = r.next /\ r.next > 0
          BY <4>2 DEF Accepts, Joined, StartsNew, TypeOK, ReassemblyOK
        <5>2. f.index # 0
          BY <5>1 DEF TypeOK, ReassemblyOK, Reassembly
        <5> QED BY <3>1, <5>1, <5>2 DEF Contiguous
      <4> QED BY <4>1, <4>2
    <3>5. Accepts(r, f) => Added(r, f).pieces \in Seq(Piece)
      <4>1. Joined(r, f).pieces \in Seq(Piece)
        BY <2>0 DEF Joined, Started
      <4>2. Added(r, f).pieces = Append(Joined(r, f).pieces, f.piece)
        BY DEF Added
      <4> QED BY <3>1, <4>1, <4>2
    <3>6. OneRecord(r'.pieces)
      <4>1. OneRecord(Idle.pieces)
        BY DEF OneRecord, Idle
      <4> QED BY <3>1, <3>4, <4>1 DEF Fed
    <3>7. r'.inProgress /\ wire' # << >> =>
            wire'[1].index = 0 \/ wire'[1].piece.rec = r'.pieces[1].rec
      <4> SUFFICES ASSUME r'.inProgress, wire' # << >>
                   PROVE  wire'[1].index = 0 \/ wire'[1].piece.rec = r'.pieces[1].rec
        OBVIOUS
      <4>1. r' = Added(r, f) /\ r'.pieces[1].rec = f.piece.rec
        BY <3>1, <3>4 DEF Fed, Idle
      <4>2. 2 \in 2 .. Len(wire) /\ 1 \in 1 .. Len(wire')
        BY <2>0, <3>1, <3>2
      <4>3. wire[2].index = 0 \/ wire[2].piece.rec = wire[1].piece.rec
        <5>1. wire[2].index = 0 \/ wire[2].piece.rec = wire[2 - 1].piece.rec
          BY <4>2 DEF Contiguous
        <5> QED BY <5>1
      <4>4. wire'[1] = wire[2]
        <5>1. wire'[1] = wire[1 + 1]
          BY <3>2, <4>2
        <5> QED BY <5>1
      <4> QED BY <4>1, <4>3, <4>4, <3>1
    <3>8. NeverMixed'
      <4>1. CASE delivered' = delivered
        BY <4>1 DEF NeverMixed
      <4>2. CASE delivered' # delivered
        <5>1. Accepts(r, f) /\ delivered' = Append(delivered, Added(r, f).pieces)
          BY <2>2, <4>2 DEF Receive, f
        <5> QED BY <5>1, <3>4, <3>5, DeliveredNeverMixed
      <4> QED BY <4>1, <4>2
    <3> QED BY <3>3, <3>6, <3>7, <3>8 DEF Contiguous
  <2>3. CASE CheckTimeout
    BY <2>3 DEF CheckTimeout, Contiguous, NeverMixed, OneRecord, Idle
  <2>4. CASE Tick
    BY <2>4 DEF Tick, Contiguous, NeverMixed
  <2>5. CASE Lose
    BY <2>5 DEF Lose
  <2>6. CASE Reconnect \/ Restart
    <3>1. wire' = << >> /\ delivered' = delivered /\ OneRecord(r'.pieces)
      BY <2>6 DEF Reconnect, Restart, LinkBreaks, Contiguous, OneRecord, Idle
    <3> QED BY <3>1 DEF Contiguous, NeverMixed
  <2>7. CASE UNCHANGED vars
    BY <2>7 DEF vars, Contiguous, NeverMixed
  <2> QED BY <2>1, <2>2, <2>3, <2>4, <2>5, <2>6, <2>7 DEF Next
<1> QED BY <1>1, <1>2, FramingTypeOK, PTL DEF Spec

-----------------------------------------------------------------------------
(* A link that loses fragments.                                             *)

\* As long as the message ids have not wrapped, the id of a fragment tells its record.
IdsTell ==
  /\ OneRecord(r.pieces)
  /\ nextRec <= IdMod => messageId = nextRec - 1
  /\ \A i \in DOMAIN wire : wire[i].id = wire[i].piece.rec - 1
  /\ r.inProgress => r.id = r.pieces[1].rec - 1

LEMMA LossyInvariant ==
  ASSUME Lossy, MaxRecords <= IdMod PROVE Spec => [](IdsTell /\ NeverMixed)
<1>1. Init => IdsTell /\ NeverMixed
  BY DEF Init, IdsTell, NeverMixed, OneRecord, Idle
<1>2. TypeOK /\ IdsTell /\ NeverMixed /\ [Next]_vars => IdsTell' /\ NeverMixed'
  <2> SUFFICES ASSUME TypeOK, IdsTell, NeverMixed, [Next]_vars
               PROVE  IdsTell' /\ NeverMixed'
    OBVIOUS
  <2>0. r.pieces \in Seq(Piece) /\ wire \in Seq(Fragment) /\ delivered \in Seq(Seq(Piece))
    BY DEF TypeOK, ReassemblyOK, Reassembly
  <2>1. CASE SendRecord
    <3>1. PICK len \in 1 .. MaxRecord, cap \in Capacities :
            wire' = wire \o FragmentsOf(nextRec, len, cap)
      BY <2>1 DEF SendRecord
    <3> DEFINE fs == FragmentsOf(nextRec, len, cap)
    <3>2. nextRec \in 1 .. MaxRecords
      BY <2>1 DEF SendRecord, TypeOK
    <3>3. messageId = nextRec - 1
      BY <3>2, FramingAssumption DEF IdsTell
    <3>4. /\ fs \in Seq(Fragment)
          /\ \A i \in DOMAIN fs : fs[i].piece.rec = nextRec /\ fs[i].id = nextRec - 1
      <4>1. len \in Nat \ {0} /\ cap \in Nat \ {0}
        BY FramingAssumption
      <4>2. messageId \in 0 .. IdMod - 1
        BY DEF TypeOK
      <4>3. /\ fs \in Seq(Fragment)
            /\ \A i \in DOMAIN fs : fs[i].piece.rec = nextRec /\ fs[i].id = messageId
        BY <4>1, <4>2, <3>2, FragmentsType
      <4> QED BY <4>3, <3>3
    <3> HIDE DEF fs
    <3>5. \A i \in DOMAIN wire' : wire'[i].id = wire'[i].piece.rec - 1
      <4>1. /\ DOMAIN wire' = 1 .. Len(wire) + Len(fs)
            /\ \A i \in 1 .. Len(wire) : wire'[i] = wire[i]
            /\ \A i \in 1 .. Len(fs) : wire'[Len(wire) + i] = fs[i]
            /\ DOMAIN wire = 1 .. Len(wire) /\ DOMAIN fs = 1 .. Len(fs)
            /\ Len(wire) \in Nat /\ Len(fs) \in Nat
        BY <2>0, <3>1, <3>4 DEF fs
      <4> SUFFICES ASSUME NEW i \in 1 .. Len(wire) + Len(fs)
                   PROVE wire'[i].id = wire'[i].piece.rec - 1
        BY <4>1
      <4>2. CASE i \in 1 .. Len(wire)
        BY <4>1, <4>2 DEF IdsTell
      <4>3. CASE i \notin 1 .. Len(wire)
        <5> DEFINE k == i - Len(wire)
        <5>1. k \in 1 .. Len(fs) /\ i = Len(wire) + k
          BY <4>1, <4>3
        <5> HIDE DEF k
        <5>2. wire'[i] = fs[k]
          BY <5>1, <4>1
        <5> QED BY <5>1, <5>2, <3>4, <4>1
      <4> QED BY <4>2, <4>3
    <3>6. nextRec' <= IdMod => messageId' = nextRec' - 1
      <4>1. messageId' = (messageId + 1) % IdMod /\ nextRec' = nextRec + 1
        BY <2>1 DEF SendRecord
      <4> SUFFICES ASSUME nextRec < IdMod PROVE messageId' = nextRec
        BY <4>1, <3>2, FramingAssumption
      <4>2. messageId + 1 = nextRec
        BY <3>2, <3>3, FramingAssumption
      <4>3. nextRec % IdMod = nextRec
        BY <3>2, FramingAssumption
      <4> QED BY <4>1, <4>2, <4>3
    <3>7. UNCHANGED <<r, delivered>>
      BY <2>1 DEF SendRecord
    <3> QED BY <3>5, <3>6, <3>7 DEF IdsTell, NeverMixed
  <2>2. CASE Receive
    <3> DEFINE f == Head(wire)
    <3>1. /\ wire # << >> /\ f \in Fragment /\ f = wire[1] /\ f.piece \in Piece
          /\ wire' = Tail(wire) /\ r' = Fed(r, f) /\ f.id = f.piece.rec - 1
      <4>1. wire # << >> /\ wire' = Tail(wire) /\ r' = Fed(r, f)
        BY <2>2 DEF Receive
      <4>2. f \in Fragment /\ f = wire[1] /\ 1 \in DOMAIN wire
        BY <2>0, <4>1
      <4> HIDE DEF f
      <4>3. f.piece \in Piece
        BY <4>2 DEF Fragment
      <4>4. f.id = f.piece.rec - 1
        BY <4>2 DEF IdsTell
      <4> QED BY <4>1, <4>2, <4>3, <4>4
    <3> HIDE DEF f
    <3>2. \A i \in DOMAIN wire' : wire'[i].id = wire'[i].piece.rec - 1
      <4>1. \A i \in DOMAIN wire' : wire'[i] = wire[i + 1] /\ i + 1 \in DOMAIN wire
        BY <2>0, <3>1
      <4> QED BY <4>1 DEF IdsTell
    <3>3. f.piece.rec \in Nat
      BY <3>1 DEF Piece
    <3>4. StartsNew(r, f) \/ f.piece.rec = r.pieces[1].rec
      <4> SUFFICES ASSUME ~ StartsNew(r, f) PROVE f.piece.rec = r.pieces[1].rec
        OBVIOUS
      <4>1. r.inProgress /\ f.id = r.id
        BY DEF StartsNew
      <4>2. Len(r.pieces) > 0
        BY <4>1 DEF TypeOK, ReassemblyOK
      <4>3. r.pieces[1] \in Piece
        BY <2>0, <4>2
      <4>4. r.pieces[1].rec \in Nat
        BY <4>3 DEF Piece
      <4> QED BY <3>1, <3>3, <4>1, <4>4 DEF IdsTell
    <3>5. OneRecord(Added(r, f).pieces) /\ Added(r, f).pieces[1].rec = f.piece.rec
      BY <2>0, <3>1, <3>4, AddedOneRecord DEF IdsTell
    <3>6. Added(r, f).pieces \in Seq(Piece)
      <4>1. Joined(r, f).pieces \in Seq(Piece)
        BY <2>0 DEF Joined, Started
      <4>2. Added(r, f).pieces = Append(Joined(r, f).pieces, f.piece)
        BY DEF Added
      <4> QED BY <3>1, <4>1, <4>2
    <3>7. OneRecord(r'.pieces) /\ (r'.inProgress => r'.id = r'.pieces[1].rec - 1)
      <4>1. Added(r, f).id = f.id
        BY DEF Added, Joined, Started, StartsNew
      <4>2. OneRecord(Idle.pieces) /\ ~ Idle.inProgress
        BY DEF OneRecord, Idle
      <4> QED BY <3>1, <3>5, <4>1, <4>2 DEF Fed
    <3>8. NeverMixed'
      <4>1. CASE delivered' = delivered
        BY <4>1 DEF NeverMixed
      <4>2. CASE delivered' # delivered
        <5>1. delivered' = Append(delivered, Added(r, f).pieces)
          BY <2>2, <4>2 DEF Receive, f
        <5> QED BY <5>1, <3>5, <3>6, DeliveredNeverMixed
      <4> QED BY <4>1, <4>2
    <3>9. UNCHANGED <<messageId, nextRec>>
      BY <2>2 DEF Receive
    <3> QED BY <3>2, <3>7, <3>8, <3>9 DEF IdsTell
  <2>3. CASE CheckTimeout
    BY <2>3 DEF CheckTimeout, IdsTell, NeverMixed, OneRecord, Idle
  <2>4. CASE Tick
    BY <2>4 DEF Tick, IdsTell, NeverMixed
  <2>5. CASE Lose
    <3>1. \A i \in DOMAIN wire' : wire'[i] = wire[i + 1] /\ i + 1 \in DOMAIN wire
      BY <2>0, <2>5 DEF Lose
    <3> QED BY <2>5, <3>1 DEF Lose, IdsTell, NeverMixed
  <2>6. CASE Reconnect
    BY <2>6 DEF Reconnect, LinkBreaks, IdsTell, NeverMixed, OneRecord, Idle
  <2>7. CASE Restart
    BY <2>7 DEF Restart
  <2>8. CASE UNCHANGED vars
    BY <2>8 DEF vars, IdsTell, NeverMixed
  <2> QED BY <2>1, <2>2, <2>3, <2>4, <2>5, <2>6, <2>7, <2>8 DEF Next
<1> QED BY <1>1, <1>2, FramingTypeOK, PTL DEF Spec

\* With fragments lost at any place, the pieces of a record handed over all come from one
\* record, as long as no message id is used twice while the sender runs.
THEOREM LossyNeverMixed ==
  ASSUME Lossy, MaxRecords <= IdMod PROVE Spec => []NeverMixed
<1> QED BY LossyInvariant, PTL

-----------------------------------------------------------------------------
(* The timeout.                                                             *)

\* The clock has run on from the start of the record in progress by its age, round its end
\* at most once.
ClockRuns ==
  r.inProgress => now = r.startedAt + age \/ now = r.startedAt + age - TimeMod

LEMMA AgeIsClock ==
  ASSUME NEW M \in Nat \ {0}, NEW a \in 0 .. M - 1
  PROVE  a % M = a /\ (a - M) % M = a
OBVIOUS

\* A fragment that starts a record starts its clock; one that is rejected ends the record.
LEMMA FedClock ==
  ASSUME NEW s, NEW f
  PROVE  LET s2 == Fed(s, f)
         IN  s2.inProgress => IF StartsNew(s, f) THEN s2.startedAt = now
                                                 ELSE s.inProgress /\ s2.startedAt = s.startedAt
BY DEF Fed, Added, Joined, Started, Idle, StartsNew

\* The reassembly is given up at its true age, across the wrap of the clock, and never
\* outgrows its buffer: ReassemblyHolds, for every timeout shorter than the clock's range.
THEOREM ReassemblyIsBounded == Spec => []ReassemblyHolds
<1>1. Init => ClockRuns
  BY DEF Init, Idle, ClockRuns
<1>2. TypeOK /\ ClockRuns /\ [Next]_vars => ClockRuns'
  <2> SUFFICES ASSUME TypeOK, ClockRuns, [Next]_vars PROVE ClockRuns'
    OBVIOUS
  <2>1. CASE Receive
    <3>1. r' = Fed(r, Head(wire)) /\ now' = now
          /\ age' = IF StartsNew(r, Head(wire)) THEN 0 ELSE age
      BY <2>1 DEF Receive
    <3>2. now \in Nat
      BY FramingAssumption DEF TypeOK
    <3>3. CASE StartsNew(r, Head(wire))
      BY <3>1, <3>2, <3>3, FedClock DEF ClockRuns
    <3>4. CASE ~ StartsNew(r, Head(wire))
      BY <3>1, <3>4, FedClock DEF ClockRuns
    <3> QED BY <3>3, <3>4
  <2>2. CASE Tick
    <3>1. /\ now \in 0 .. TimeMod - 1 /\ r.startedAt \in 0 .. TimeMod - 1 /\ age \in Nat
          /\ TimeMod \in Nat \ {0} /\ age < TimeMod - 1
      BY <2>2, FramingAssumption DEF Tick, TypeOK, ReassemblyOK, Reassembly
    <3>2. r' = r /\ age' = age + 1 /\ now' = (now + 1) % TimeMod /\ r.inProgress
      BY <2>2 DEF Tick
    <3>3. now' = IF now = TimeMod - 1 THEN 0 ELSE now + 1
      BY <3>1, <3>2
    <3>4. now' = r.startedAt + (age + 1) \/ now' = r.startedAt + (age + 1) - TimeMod
      <4>1. now = r.startedAt + age \/ now = r.startedAt + age - TimeMod
        BY <3>2 DEF ClockRuns
      <4> DEFINE since == r.startedAt
      <4>2. since \in 0 .. TimeMod - 1 /\ (now = since + age \/ now = since + age - TimeMod)
        BY <3>1, <4>1
      <4> HIDE DEF since
      <4>3. now' = since + (age + 1) \/ now' = since + (age + 1) - TimeMod
        BY <3>1, <3>3, <4>2
      <4> QED BY <4>3 DEF since
    <3> QED BY <3>2, <3>4 DEF ClockRuns
  <2>3. CASE CheckTimeout
    BY <2>3 DEF CheckTimeout, ClockRuns, Idle
  <2>4. CASE SendRecord \/ Lose \/ UNCHANGED vars
    BY <2>4 DEF SendRecord, Lose, vars, ClockRuns
  <2>5. CASE Reconnect \/ Restart
    <3>1. (r' = r \/ ~ r'.inProgress) /\ UNCHANGED <<now, age>>
      BY <2>5 DEF Reconnect, Restart, LinkBreaks, Idle
    <3> QED BY <3>1 DEF ClockRuns
  <2> QED BY <2>1, <2>2, <2>3, <2>4, <2>5 DEF Next
<1>3. TypeOK /\ ClockRuns => ReassemblyHolds
  <2> SUFFICES ASSUME TypeOK, ClockRuns, r.inProgress PROVE Expired <=> age > Timeout
    BY DEF ReassemblyHolds, TimeoutIsTrue
  <2>1. /\ now \in 0 .. TimeMod - 1 /\ r.startedAt \in 0 .. TimeMod - 1
        /\ age \in 0 .. TimeMod - 1 /\ TimeMod \in Nat \ {0}
    BY FramingAssumption DEF TypeOK, ReassemblyOK, Reassembly
  <2>2. now - r.startedAt = age \/ now - r.startedAt = age - TimeMod
    BY <2>1 DEF ClockRuns
  <2>3. (now - r.startedAt) % TimeMod = age
    BY <2>1, <2>2, AgeIsClock
  <2> QED BY <2>3 DEF Expired
<1> QED BY <1>1, <1>2, <1>3, FramingTypeOK, PTL DEF Spec


-----------------------------------------------------------------------------
(* A record nothing happened to.                                            *)

Chunk(len, cap, i) == IF len - (i - 1) * cap > cap THEN cap ELSE len - (i - 1) * cap

\* The fragment i of record n.
Cut(n, id, len, cap, i) ==
  [id |-> id, index |-> i - 1, count |-> FragmentCount(len, cap),
   piece |-> [rec |-> n, len |-> Chunk(len, cap, i)]]

\* Behind the first k fragments of w, those of record n follow from number i + 1 on.
Lies(w, k, n, id, len, cap, i) ==
  \A j \in i + 1 .. FragmentCount(len, cap) :
    k + (j - i) <= Len(w) /\ w[k + (j - i)] = Cut(n, id, len, cap, j)

\* Record n is on the link as a whole.
Waits(w, n) ==
  \E k \in Nat, id \in 0 .. IdMod - 1, len \in 1 .. MaxRecord, cap \in Capacities :
    Lies(w, k, n, id, len, cap, 0)

\* Record n is being reassembled, and its next fragments arrive next.
Arrives(w, s, n) ==
  /\ s.inProgress /\ s.pieces[1].rec = n
  /\ \E len \in 1 .. MaxRecord, cap \in Capacities :
       /\ s.count = FragmentCount(len, cap) /\ s.capacity = cap /\ s.len = s.next * cap
       /\ Lies(w, 0, n, s.id, len, cap, s.next)

Delivered(ds, n) == \E d \in DOMAIN ds : ds[d][1].rec = n

IntactInv ==
  \A n \in 1 .. nextRec - 1 :
    n \in spoiled \/ Delivered(delivered, n) \/ Waits(wire, n) \/ Arrives(wire, r, n)

\* The fragment that starts an unspoiled record is not taken for one of the record in progress.
StartsClear ==
  r.inProgress /\ wire # << >> /\ wire[1].index = 0 =>
    wire[1].id # r.id \/ wire[1].piece.rec \in spoiled

LEMMA CountIs ==
  ASSUME NEW len \in 1 .. MaxRecord, NEW cap \in Capacities
  PROVE  FragmentCount(len, cap) \in Nat \ {0}
<1>1. len \in Nat \ {0} /\ cap \in Nat \ {0}
  BY FramingAssumption
<1> QED BY <1>1, CountCovers

LEMMA ChunkIs ==
  ASSUME NEW len \in 1 .. MaxRecord, NEW cap \in Capacities,
         NEW i \in 1 .. FragmentCount(len, cap)
  PROVE  /\ FragmentCount(len, cap) \in Nat \ {0}
         /\ Chunk(len, cap, i) \in Nat \ {0} /\ Chunk(len, cap, i) <= cap
         /\ (i - 1) * cap \in Nat /\ i * cap = (i - 1) * cap + cap
         /\ (i - 1) * cap + Chunk(len, cap, i) <= MaxRecord
         /\ i < FragmentCount(len, cap) => Chunk(len, cap, i) = cap
<1> DEFINE c == FragmentCount(len, cap)
<1>1. len \in Nat \ {0} /\ cap \in Nat \ {0} /\ len <= MaxRecord /\ MaxRecord \in Nat
  BY FramingAssumption
<1>2. c \in Nat \ {0} /\ (c - 1) * cap < len
  BY <1>1, CountCovers
<1> HIDE DEF c
<1>3. i \in 1 .. c
  BY DEF c
<1>4. (i - 1) * cap <= (c - 1) * cap /\ (i - 1) * cap \in Nat /\ i * cap = (i - 1) * cap + cap
  BY <1>1, <1>2, <1>3, SMT
<1>5. (c - 1) * cap \in Nat
  BY <1>1, <1>2, SMT
<1>6. ASSUME i < c PROVE (i - 1) * cap + cap <= (c - 1) * cap
  <2>1. i * cap <= (c - 1) * cap
    BY <1>1, <1>2, <1>3, <1>6, SMT
  <2> QED BY <1>4, <2>1
<1>7. i < c => len - (i - 1) * cap > cap
  BY <1>1, <1>2, <1>4, <1>5, <1>6
<1>8. (i - 1) * cap < len
  BY <1>1, <1>2, <1>4, <1>5
<1> DEFINE p == (i - 1) * cap
<1>9. p \in Nat /\ p < len /\ (i < c => len - p > cap)
  BY <1>4, <1>7, <1>8
<1>10. Chunk(len, cap, i) = IF len - p > cap THEN cap ELSE len - p
  BY DEF Chunk
<1> HIDE DEF p
<1>11. /\ Chunk(len, cap, i) \in Nat \ {0} /\ Chunk(len, cap, i) <= cap
       /\ p + Chunk(len, cap, i) <= MaxRecord
       /\ i < c => Chunk(len, cap, i) = cap
  BY <1>1, <1>9, <1>10
<1> QED BY <1>2, <1>4, <1>11 DEF c, p

\* The first fragment goes: one of a record before this one, or one of this record.
LEMMA LiesLater ==
  ASSUME NEW w \in Seq(Fragment), w # << >>, NEW n, NEW id,
         NEW len \in 1 .. MaxRecord, NEW cap \in Capacities,
         NEW k \in Nat \ {0}, Lies(w, k, n, id, len, cap, 0)
  PROVE  k - 1 \in Nat /\ Lies(Tail(w), k - 1, n, id, len, cap, 0)
<1> DEFINE c == FragmentCount(len, cap)
<1>1. c \in Nat
  BY CountIs
<1>2. /\ Len(w) \in Nat \ {0} /\ Len(Tail(w)) = Len(w) - 1
      /\ \A m \in 1 .. Len(w) - 1 : Tail(w)[m] = w[m + 1]
  OBVIOUS
<1>3. ASSUME NEW j \in 0 + 1 .. c
      PROVE  /\ (k - 1) + (j - 0) <= Len(Tail(w))
             /\ Tail(w)[(k - 1) + (j - 0)] = Cut(n, id, len, cap, j)
  <2>1. k + (j - 0) <= Len(w) /\ w[k + (j - 0)] = Cut(n, id, len, cap, j)
    BY DEF Lies
  <2>2. (k - 1) + (j - 0) \in 1 .. Len(w) - 1 /\ ((k - 1) + (j - 0)) + 1 = k + (j - 0)
    BY <1>1, <1>2, <2>1
  <2> QED BY <1>2, <2>1, <2>2
<1> QED BY <1>3 DEF Lies

LEMMA LiesNow ==
  ASSUME NEW w \in Seq(Fragment), w # << >>, NEW n, NEW id,
         NEW len \in 1 .. MaxRecord, NEW cap \in Capacities,
         NEW i \in Nat, i < FragmentCount(len, cap), Lies(w, 0, n, id, len, cap, i)
  PROVE  /\ Head(w) = Cut(n, id, len, cap, i + 1)
         /\ Lies(Tail(w), 0, n, id, len, cap, i + 1)
<1> DEFINE c == FragmentCount(len, cap)
<1>1. c \in Nat
  BY CountIs
<1>2. /\ Len(w) \in Nat \ {0} /\ Len(Tail(w)) = Len(w) - 1 /\ Head(w) = w[1]
      /\ \A m \in 1 .. Len(w) - 1 : Tail(w)[m] = w[m + 1]
  OBVIOUS
<1>3. Head(w) = Cut(n, id, len, cap, i + 1)
  <2>1. i + 1 \in i + 1 .. c /\ 0 + ((i + 1) - i) = 1
    BY <1>1
  <2>2. w[0 + ((i + 1) - i)] = Cut(n, id, len, cap, i + 1)
    BY <2>1 DEF Lies
  <2> QED BY <1>2, <2>1, <2>2
<1>4. ASSUME NEW j \in (i + 1) + 1 .. c
      PROVE  /\ 0 + (j - (i + 1)) <= Len(Tail(w))
             /\ Tail(w)[0 + (j - (i + 1))] = Cut(n, id, len, cap, j)
  <2>1. j \in i + 1 .. c
    BY <1>1
  <2>2. 0 + (j - i) <= Len(w) /\ w[0 + (j - i)] = Cut(n, id, len, cap, j)
    BY <2>1 DEF Lies
  <2>3. 0 + (j - (i + 1)) \in 1 .. Len(w) - 1 /\ (0 + (j - (i + 1))) + 1 = 0 + (j - i)
    BY <1>1, <1>2, <2>2
  <2> QED BY <1>2, <2>2, <2>3
<1> QED BY <1>3, <1>4 DEF Lies

\* More fragments are sent.
LEMMA LiesInMore ==
  ASSUME NEW w \in Seq(Fragment), NEW v \in Seq(Fragment), NEW n, NEW id,
         NEW len \in 1 .. MaxRecord, NEW cap \in Capacities
  PROVE  /\ \A k, i \in Nat : Lies(w, k, n, id, len, cap, i) => Lies(w \o v, k, n, id, len, cap, i)
         /\ Lies(v, 0, n, id, len, cap, 0) => Lies(w \o v, Len(w), n, id, len, cap, 0)
<1> DEFINE c == FragmentCount(len, cap)
<1>1. c \in Nat
  BY CountIs
<1>2. /\ Len(w) \in Nat /\ Len(v) \in Nat /\ Len(w \o v) = Len(w) + Len(v)
      /\ \A m \in 1 .. Len(w) : (w \o v)[m] = w[m]
      /\ \A m \in 1 .. Len(v) : (w \o v)[Len(w) + m] = v[m]
  OBVIOUS
<1> DEFINE u == w \o v
<1> HIDE DEF u, c
<1>3. /\ Len(u) = Len(w) + Len(v)
      /\ \A m \in 1 .. Len(w) : u[m] = w[m]
      /\ \A m \in 1 .. Len(v) : u[Len(w) + m] = v[m]
  BY <1>2 DEF u
<1>4. ASSUME NEW k \in Nat, NEW i \in Nat, Lies(w, k, n, id, len, cap, i)
      PROVE  Lies(u, k, n, id, len, cap, i)
  <2> SUFFICES ASSUME NEW j \in i + 1 .. c
               PROVE  k + (j - i) <= Len(u) /\ u[k + (j - i)] = Cut(n, id, len, cap, j)
    BY DEF Lies, c
  <2>1. k + (j - i) <= Len(w) /\ w[k + (j - i)] = Cut(n, id, len, cap, j)
    BY <1>4 DEF Lies, c
  <2>2. k + (j - i) \in 1 .. Len(w)
    BY <1>1, <1>2, <2>1
  <2> QED BY <1>2, <1>3, <2>1, <2>2
<1>5. ASSUME Lies(v, 0, n, id, len, cap, 0) PROVE Lies(u, Len(w), n, id, len, cap, 0)
  <2> SUFFICES ASSUME NEW j \in 0 + 1 .. c
               PROVE  Len(w) + (j - 0) <= Len(u) /\ u[Len(w) + (j - 0)] = Cut(n, id, len, cap, j)
    BY DEF Lies, c
  <2>1. 0 + (j - 0) <= Len(v) /\ v[0 + (j - 0)] = Cut(n, id, len, cap, j)
    BY <1>5 DEF Lies, c
  <2>2. j \in 1 .. Len(v) /\ 0 + (j - 0) = j /\ j - 0 = j
    BY <1>1, <1>2, <2>1
  <2> QED BY <1>2, <1>3, <2>1, <2>2
<1> QED BY <1>4, <1>5 DEF u

\* What is cut is what is sent.
LEMMA FragmentsLie ==
  ASSUME NEW n, NEW len \in 1 .. MaxRecord, NEW cap \in Capacities
  PROVE  Lies(FragmentsOf(n, len, cap), 0, n, messageId, len, cap, 0)
<1> DEFINE c == FragmentCount(len, cap)
           fs == FragmentsOf(n, len, cap)
<1>1. c \in Nat
  BY CountIs
<1>2. fs = [i \in 1 .. c |-> Cut(n, messageId, len, cap, i)]
  BY DEF FragmentsOf, Cut, Chunk
<1> HIDE DEF c, fs
<1>3. Len(fs) = c /\ \A j \in 1 .. c : fs[j] = Cut(n, messageId, len, cap, j)
  BY <1>1, <1>2
<1>4. ASSUME NEW j \in 0 + 1 .. c
      PROVE  0 + (j - 0) <= Len(fs) /\ fs[0 + (j - 0)] = Cut(n, messageId, len, cap, j)
  <2>1. j \in 1 .. c /\ 0 + (j - 0) = j
    BY <1>1
  <2> QED BY <1>1, <1>3, <2>1
<1> QED BY <1>4 DEF Lies, c, fs

\* The fragment f is taken as the first of c fragments of record n.
Begins(s, f, n, id, c) ==
  /\ Accepts(s, f)
  /\ Added(s, f).inProgress /\ Added(s, f).id = id
  /\ Added(s, f).count = c /\ Added(s, f).next = 1
  /\ Added(s, f).capacity = f.piece.len /\ Added(s, f).len = f.piece.len
  /\ Added(s, f).pieces = << f.piece >> /\ f.piece.rec = n

\* The first fragment of a record is taken, unless it is taken for one of the record before.
LEMMA FirstTaken ==
  ASSUME NEW s, NEW n, NEW id, NEW len \in 1 .. MaxRecord, NEW cap \in Capacities,
         NEW f, f = Cut(n, id, len, cap, 1), StartsNew(s, f)
  PROVE  Begins(s, f, n, id, FragmentCount(len, cap))
<1>1. FragmentCount(len, cap) \in Nat \ {0}
  BY CountIs
<1>2. 1 \in 1 .. FragmentCount(len, cap)
  BY <1>1
<1>3. /\ f.id = id /\ f.index = 0 /\ f.count = FragmentCount(len, cap)
      /\ f.piece.rec = n /\ f.piece.len = Chunk(len, cap, 1)
  BY DEF Cut
<1>4. f.piece.len \in Nat /\ f.piece.len <= MaxRecord
  <2>1. (1 - 1) * cap \in Nat /\ Chunk(len, cap, 1) \in Nat /\ (1 - 1) * cap + Chunk(len, cap, 1) <= MaxRecord
    BY <1>2, ChunkIs
  <2> QED BY <1>3, <2>1, FramingAssumption
<1>5. ~ NeverFits(f)
  <2>1. FragmentsOf(n, len, cap)[1] = Cut(n, messageId, len, cap, 1)
    <3>1. FragmentsOf(n, len, cap) = [i \in 1 .. FragmentCount(len, cap) |-> Cut(n, messageId, len, cap, i)]
      BY DEF FragmentsOf, Cut, Chunk
    <3> QED BY <1>2, <3>1
  <2>2. /\ FragmentsOf(n, len, cap)[1].count = f.count
        /\ FragmentsOf(n, len, cap)[1].piece.len = f.piece.len
    BY <1>3, <2>1 DEF Cut
  <2>3. ~ NeverFits(FragmentsOf(n, len, cap)[1])
    BY FirstFits
  <2> QED BY <2>2, <2>3 DEF NeverFits
<1>6. Joined(s, f) = [inProgress |-> TRUE, id |-> id, count |-> f.count, next |-> 0,
                      capacity |-> f.piece.len, len |-> 0, startedAt |-> now, pieces |-> << >>]
  BY <1>3 DEF Joined, Started
<1>7. Accepts(s, f)
  <2>1. f.index < f.count
    BY <1>1, <1>3
  <2>2. 0 + f.piece.len <= MaxRecord /\ f.piece.len <= f.piece.len
    BY <1>4
  <2> QED BY <1>3, <1>5, <1>6, <2>1, <2>2 DEF Accepts
<1> DEFINE j == Joined(s, f)
<1>8. /\ j.inProgress /\ j.id = id /\ j.count = f.count /\ j.next = 0
      /\ j.capacity = f.piece.len /\ j.len = 0 /\ j.pieces = << >>
  BY <1>6
<1> HIDE DEF j
<1>9. Added(s, f) = [inProgress |-> TRUE, id |-> j.id, count |-> j.count, next |-> j.next + 1,
                     capacity |-> j.capacity, len |-> j.len + f.piece.len,
                     startedAt |-> j.startedAt, pieces |-> Append(j.pieces, f.piece)]
  BY DEF Added, j
<1>10. 0 + f.piece.len = f.piece.len /\ Append(<< >>, f.piece) = << f.piece >>
  BY <1>4
<1> QED BY <1>3, <1>7, <1>8, <1>9, <1>10 DEF Begins

\* So is the next fragment of the record in progress.
LEMMA NextTaken ==
  ASSUME NEW s, ReassemblyOK(s), s.inProgress,
         NEW n, NEW len \in 1 .. MaxRecord, NEW cap \in Capacities,
         s.count = FragmentCount(len, cap), s.capacity = cap, s.len = s.next * cap,
         NEW f, f = Cut(n, s.id, len, cap, s.next + 1)
  PROVE  /\ Accepts(s, f)
         /\ Added(s, f).inProgress /\ Added(s, f).id = s.id
         /\ Added(s, f).count = s.count /\ Added(s, f).next = s.next + 1
         /\ Added(s, f).capacity = cap
         /\ s.next + 1 < s.count => Added(s, f).len = (s.next + 1) * cap
         /\ Added(s, f).pieces[1] = s.pieces[1]
<1> DEFINE i == s.next + 1
<1>1. /\ s.next \in Nat /\ s.count \in Nat /\ s.next < s.count /\ s.next > 0
      /\ s.pieces \in Seq(Piece) /\ Len(s.pieces) = s.next
  BY DEF ReassemblyOK, Reassembly
<1>2. i \in 1 .. FragmentCount(len, cap) /\ i - 1 = s.next
  BY <1>1
<1>3. /\ f.id = s.id /\ f.index = s.next /\ f.count = s.count
      /\ f.piece.len = Chunk(len, cap, i)
  BY <1>2 DEF Cut
<1>4. /\ Chunk(len, cap, i) \in Nat /\ Chunk(len, cap, i) <= cap
      /\ (i - 1) * cap \in Nat /\ i * cap = (i - 1) * cap + cap
      /\ (i - 1) * cap + Chunk(len, cap, i) <= MaxRecord
      /\ i < FragmentCount(len, cap) => Chunk(len, cap, i) = cap
  BY <1>2, ChunkIs
<1>5. ~ StartsNew(s, f) /\ Joined(s, f) = s
  BY <1>3 DEF StartsNew, Joined
<1>6. s.len + f.piece.len <= MaxRecord
  BY <1>2, <1>3, <1>4
<1>7. Accepts(s, f)
  BY <1>1, <1>3, <1>4, <1>5, <1>6 DEF Accepts
<1>8. Added(s, f) = [inProgress |-> TRUE, id |-> s.id, count |-> s.count, next |-> i,
                     capacity |-> cap, len |-> s.len + f.piece.len, startedAt |-> s.startedAt,
                     pieces |-> Append(s.pieces, f.piece)]
  BY <1>5 DEF Added
<1>9. Append(s.pieces, f.piece)[1] = s.pieces[1]
  BY <1>1
<1>10. i < s.count => s.len + f.piece.len = i * cap
  BY <1>2, <1>3, <1>4
<1> QED BY <1>7, <1>8, <1>9, <1>10

\* One fragment more on its way, received: a record that waits goes on.
LEMMA WaitsOn ==
  ASSUME NEW w \in Seq(Fragment), NEW s, ReassemblyOK(s), NEW n, w # << >>,
         \/ Waits(w, n) /\ (w[1].index = 0 /\ w[1].piece.rec = n => StartsNew(s, w[1]))
         \/ Arrives(w, s, n)
  PROVE  \/ Waits(Tail(w), n)
         \/ Arrives(Tail(w), Fed(s, Head(w)), n)
         \/ /\ Accepts(s, Head(w)) /\ Added(s, Head(w)).next = Head(w).count
            /\ Added(s, Head(w)).pieces[1].rec = n
<1> DEFINE f == Head(w)
<1>1. f = w[1]
  OBVIOUS
<1>2. CASE Waits(w, n) /\ (w[1].index = 0 /\ w[1].piece.rec = n => StartsNew(s, w[1]))
  <2>1. PICK k \in Nat, id \in 0 .. IdMod - 1, len \in 1 .. MaxRecord, cap \in Capacities :
          Lies(w, k, n, id, len, cap, 0)
    BY <1>2 DEF Waits
  <2>2. FragmentCount(len, cap) \in Nat \ {0}
    BY CountIs
  <2>3. CASE k # 0
    <3>1. k - 1 \in Nat /\ Lies(Tail(w), k - 1, n, id, len, cap, 0)
      BY <1>2, <2>1, <2>3, LiesLater
    <3> QED BY <3>1 DEF Waits
  <2>4. CASE k = 0
    <3>1. /\ Head(w) = Cut(n, id, len, cap, 0 + 1)
          /\ Lies(Tail(w), 0, n, id, len, cap, 0 + 1)
      <4>1. 0 \in Nat /\ 0 < FragmentCount(len, cap) /\ Lies(w, 0, n, id, len, cap, 0)
        BY <2>1, <2>2, <2>4
      <4> QED BY <4>1, LiesNow
    <3>2. f = Cut(n, id, len, cap, 1)
      BY <3>1
    <3>3. f.index = 0 /\ f.piece.rec = n /\ f.count = FragmentCount(len, cap)
          /\ f.piece.len = Chunk(len, cap, 1)
      BY <3>2 DEF Cut
    <3> HIDE DEF f
    <3>4. StartsNew(s, f)
      BY <1>1, <1>2, <3>3
    <3>5. /\ Accepts(s, f)
          /\ Added(s, f).inProgress /\ Added(s, f).id = id
          /\ Added(s, f).count = FragmentCount(len, cap) /\ Added(s, f).next = 1
          /\ Added(s, f).capacity = f.piece.len /\ Added(s, f).len = f.piece.len
          /\ Added(s, f).pieces = << f.piece >> /\ f.piece.rec = n
      <4>1. Begins(s, f, n, id, FragmentCount(len, cap))
        BY <3>2, <3>4, FirstTaken
      <4> QED BY <4>1 DEF Begins
    <3>6. Added(s, f).pieces[1].rec = n
      BY <3>5
    <3>7. CASE FragmentCount(len, cap) = 1
      BY <3>3, <3>5, <3>6, <3>7 DEF f
    <3>8. CASE FragmentCount(len, cap) # 1
      <4>1. 1 \in 1 .. FragmentCount(len, cap) /\ 1 < FragmentCount(len, cap)
        BY <2>2, <3>8
      <4>2. Chunk(len, cap, 1) = cap /\ 1 * cap = (1 - 1) * cap + cap /\ (1 - 1) * cap \in Nat
        BY <4>1, ChunkIs
      <4>3. 1 * cap = cap
        BY FramingAssumption
      <4>4. Fed(s, f) = Added(s, f)
        BY <3>5, <3>8 DEF Fed
      <4>5. Lies(Tail(w), 0, n, Added(s, f).id, len, cap, Added(s, f).next)
        BY <3>1, <3>5
      <4>6. Added(s, f).capacity = cap /\ Added(s, f).len = Added(s, f).next * cap
        BY <3>3, <3>5, <4>2, <4>3
      <4>7. Arrives(Tail(w), Fed(s, f), n)
        BY <3>5, <3>6, <4>4, <4>5, <4>6 DEF Arrives
      <4> QED BY <4>7 DEF f
    <3> QED BY <3>7, <3>8
  <2> QED BY <2>3, <2>4
<1>3. CASE Arrives(w, s, n)
  <2>1. s.inProgress /\ s.pieces[1].rec = n
    BY <1>3 DEF Arrives
  <2>2. PICK len \in 1 .. MaxRecord, cap \in Capacities :
          /\ s.count = FragmentCount(len, cap) /\ s.capacity = cap /\ s.len = s.next * cap
          /\ Lies(w, 0, n, s.id, len, cap, s.next)
    BY <1>3 DEF Arrives
  <2>3. s.next \in Nat /\ s.next < FragmentCount(len, cap) /\ FragmentCount(len, cap) \in Nat
    BY <2>1, <2>2 DEF ReassemblyOK, Reassembly
  <2>4. /\ Head(w) = Cut(n, s.id, len, cap, s.next + 1)
        /\ Lies(Tail(w), 0, n, s.id, len, cap, s.next + 1)
    BY <2>2, <2>3, LiesNow
  <2>5. f.count = FragmentCount(len, cap)
    BY <2>4 DEF Cut
  <2>6. f = Cut(n, s.id, len, cap, s.next + 1)
    BY <2>4
  <2> HIDE DEF f
  <2>7. /\ Accepts(s, f)
        /\ Added(s, f).inProgress /\ Added(s, f).id = s.id
        /\ Added(s, f).count = s.count /\ Added(s, f).next = s.next + 1
        /\ Added(s, f).capacity = cap
        /\ s.next + 1 < s.count => Added(s, f).len = (s.next + 1) * cap
        /\ Added(s, f).pieces[1] = s.pieces[1]
    BY <2>1, <2>2, <2>6, NextTaken
  <2>8. CASE s.next + 1 = s.count
    BY <2>1, <2>2, <2>5, <2>7, <2>8 DEF f
  <2>9. CASE s.next + 1 # s.count
    <3>1. s.next + 1 < s.count
      BY <2>2, <2>3, <2>9
    <3>2. Fed(s, f) = Added(s, f)
      BY <2>7, <2>9 DEF Fed
    <3>3. Added(s, f).len = Added(s, f).next * cap
      BY <2>7, <3>1
    <3>4. Lies(Tail(w), 0, n, Added(s, f).id, len, cap, Added(s, f).next)
      BY <2>4, <2>7
    <3>5. Added(s, f).pieces[1].rec = n /\ Added(s, f).count = FragmentCount(len, cap)
      BY <2>1, <2>2, <2>7
    <3>6. Arrives(Tail(w), Fed(s, f), n)
      BY <2>7, <3>2, <3>3, <3>4, <3>5 DEF Arrives
    <3> QED BY <3>6 DEF f
  <2> QED BY <2>8, <2>9
<1> QED BY <1>2, <1>3

\* A record that is still to come is one on the link or the one in progress.
LEMMA WaitsSomewhere ==
  ASSUME NEW w \in Seq(Fragment), NEW s, ReassemblyOK(s), NEW n
  PROVE  /\ Waits(w, n) => \E i \in DOMAIN w : w[i].piece.rec = n
         /\ Arrives(w, s, n) => /\ w # << >> /\ w[1].piece.rec = n
                                /\ 1 \in DOMAIN s.pieces /\ s.pieces[1].rec = n
<1>1. ASSUME Waits(w, n) PROVE \E i \in DOMAIN w : w[i].piece.rec = n
  <2>1. PICK k \in Nat, id \in 0 .. IdMod - 1, len \in 1 .. MaxRecord, cap \in Capacities :
          Lies(w, k, n, id, len, cap, 0)
    BY <1>1 DEF Waits
  <2>2. FragmentCount(len, cap) \in Nat \ {0}
    BY CountIs
  <2>3. 1 \in 0 + 1 .. FragmentCount(len, cap)
    BY <2>2
  <2>4. k + (1 - 0) <= Len(w) /\ w[k + (1 - 0)] = Cut(n, id, len, cap, 1)
    BY <2>1, <2>3 DEF Lies
  <2>5. k + (1 - 0) \in DOMAIN w
    BY <2>4
  <2>6. w[k + (1 - 0)].piece.rec = n
    BY <2>4 DEF Cut
  <2> QED BY <2>5, <2>6
<1>2. ASSUME Arrives(w, s, n)
      PROVE  w # << >> /\ w[1].piece.rec = n /\ 1 \in DOMAIN s.pieces /\ s.pieces[1].rec = n
  <2>1. s.inProgress /\ s.pieces[1].rec = n
    BY <1>2 DEF Arrives
  <2>2. PICK len \in 1 .. MaxRecord, cap \in Capacities :
          s.count = FragmentCount(len, cap) /\ Lies(w, 0, n, s.id, len, cap, s.next)
    BY <1>2 DEF Arrives
  <2>3. /\ s.next \in Nat /\ s.next < FragmentCount(len, cap) /\ FragmentCount(len, cap) \in Nat
        /\ s.pieces \in Seq(Piece) /\ Len(s.pieces) > 0
    BY <2>1, <2>2 DEF ReassemblyOK, Reassembly
  <2>4. s.next + 1 \in s.next + 1 .. FragmentCount(len, cap) /\ 0 + ((s.next + 1) - s.next) = 1
    BY <2>3
  <2>5. 1 <= Len(w) /\ w[1] = Cut(n, s.id, len, cap, s.next + 1)
    BY <2>2, <2>4 DEF Lies
  <2>6. w[1].piece.rec = n
    BY <2>5 DEF Cut
  <2>7. w # << >>
    BY <2>5
  <2> QED BY <2>1, <2>3, <2>6, <2>7
<1> QED BY <1>1, <1>2

LEMMA DeliveredMore ==
  ASSUME NEW ds \in Seq(Seq(Piece)), NEW ps \in Seq(Piece)
  PROVE  /\ \A n : Delivered(ds, n) => Delivered(Append(ds, ps), n)
         /\ Delivered(Append(ds, ps), ps[1].rec)
<1>1. /\ DOMAIN Append(ds, ps) = 1 .. Len(ds) + 1 /\ DOMAIN ds = 1 .. Len(ds) /\ Len(ds) \in Nat
      /\ \A d \in 1 .. Len(ds) : Append(ds, ps)[d] = ds[d]
      /\ Append(ds, ps)[Len(ds) + 1] = ps
  OBVIOUS
<1> DEFINE u == Append(ds, ps)
<1> HIDE DEF u
<1>2. \A d \in 1 .. Len(ds) : d \in DOMAIN u /\ u[d] = ds[d]
  BY <1>1 DEF u
<1>3. Len(ds) + 1 \in DOMAIN u /\ u[Len(ds) + 1] = ps
  BY <1>1 DEF u
<1> QED BY <1>1, <1>2, <1>3 DEF Delivered, u

\* What the completed record consists of.
LEMMA AddedPieces ==
  ASSUME NEW s, ReassemblyOK(s), NEW f \in Fragment
  PROVE  Added(s, f).pieces \in Seq(Piece)
<1>1. f.piece \in Piece
  BY DEF Fragment
<1>2. Joined(s, f).pieces \in Seq(Piece)
  BY DEF Joined, Started, ReassemblyOK, Reassembly
<1>3. Added(s, f).pieces = Append(Joined(s, f).pieces, f.piece)
  BY DEF Added
<1> QED BY <1>1, <1>2, <1>3

LEMMA IntactStep == TypeOK /\ StartsClear /\ IntactInv /\ [Next]_vars => IntactInv'
<1> SUFFICES ASSUME TypeOK, StartsClear, IntactInv, [Next]_vars PROVE IntactInv'
  OBVIOUS
<1>1. /\ wire \in Seq(Fragment) /\ ReassemblyOK(r) /\ nextRec \in Nat
      /\ delivered \in Seq(Seq(Piece)) /\ messageId \in 0 .. IdMod - 1
  BY DEF TypeOK
<1>2. CASE SendRecord
  <2>1. PICK len \in 1 .. MaxRecord, cap \in Capacities :
          wire' = wire \o FragmentsOf(nextRec, len, cap)
    BY <1>2 DEF SendRecord
  <2> DEFINE fs == FragmentsOf(nextRec, len, cap)
  <2>2. fs \in Seq(Fragment)
    <3>1. nextRec \in 1 .. MaxRecords
      BY <1>2 DEF SendRecord, TypeOK
    <3>2. len \in Nat \ {0} /\ cap \in Nat \ {0}
      BY FramingAssumption
    <3> QED BY <1>1, <3>1, <3>2, FragmentsType
  <2>3. Lies(fs, 0, nextRec, messageId, len, cap, 0)
    BY FragmentsLie
  <2> HIDE DEF fs
  <2>4. wire' = wire \o fs
    BY <2>1 DEF fs
  <2>5. Waits(wire', nextRec)
    <3>1. Lies(wire \o fs, Len(wire), nextRec, messageId, len, cap, 0) /\ Len(wire) \in Nat
      BY <1>1, <2>2, <2>3, LiesInMore
    <3> QED BY <1>1, <2>4, <3>1 DEF Waits
  <2>6. ASSUME NEW n, Waits(wire, n) PROVE Waits(wire', n)
    <3>1. PICK k \in Nat, id \in 0 .. IdMod - 1, l \in 1 .. MaxRecord, a \in Capacities :
            Lies(wire, k, n, id, l, a, 0)
      BY <2>6 DEF Waits
    <3>2. Lies(wire', k, n, id, l, a, 0)
      BY <1>1, <2>2, <2>4, <3>1, LiesInMore
    <3> QED BY <3>2 DEF Waits
  <2>7. ASSUME NEW n, Arrives(wire, r, n) PROVE Arrives(wire', r, n)
    <3>1. PICK l \in 1 .. MaxRecord, a \in Capacities :
            /\ r.count = FragmentCount(l, a) /\ r.capacity = a /\ r.len = r.next * a
            /\ Lies(wire, 0, n, r.id, l, a, r.next)
      BY <2>7 DEF Arrives
    <3>2. r.next \in Nat
      BY <1>1 DEF ReassemblyOK, Reassembly
    <3>3. Lies(wire', 0, n, r.id, l, a, r.next)
      BY <1>1, <2>2, <2>4, <3>1, <3>2, LiesInMore
    <3> QED BY <2>7, <3>1, <3>3 DEF Arrives
  <2>8. /\ nextRec' = nextRec + 1 /\ r' = r /\ spoiled' = spoiled /\ delivered' = delivered
    BY <1>2 DEF SendRecord
  <2> SUFFICES ASSUME NEW n \in 1 .. nextRec
               PROVE  \/ n \in spoiled \/ Delivered(delivered, n)
                      \/ Waits(wire', n) \/ Arrives(wire', r, n)
    BY <1>1, <2>8 DEF IntactInv
  <2>9. n = nextRec \/ n \in 1 .. nextRec - 1
    BY <1>1
  <2> QED BY <2>5, <2>6, <2>7, <2>9 DEF IntactInv
<1>3. CASE Receive
  <2> DEFINE f == Head(wire)
  <2>1. /\ wire # << >> /\ wire' = Tail(wire) /\ r' = Fed(r, f)
        /\ nextRec' = nextRec /\ spoiled' = spoiled
        /\ delivered' = IF Accepts(r, f) /\ Added(r, f).next = f.count
                        THEN Append(delivered, Added(r, f).pieces)
                        ELSE delivered
    BY <1>3 DEF Receive
  <2>2. f \in Fragment /\ f = wire[1]
    BY <1>1, <2>1
  <2>3. Added(r, f).pieces \in Seq(Piece)
    BY <1>1, <2>2, AddedPieces
  <2> SUFFICES ASSUME NEW n \in 1 .. nextRec - 1, n \notin spoiled
               PROVE  Delivered(delivered', n) \/ Waits(wire', n) \/ Arrives(wire', r', n)
    BY <2>1 DEF IntactInv
  <2>4. CASE Delivered(delivered, n)
    BY <1>1, <2>1, <2>3, <2>4, DeliveredMore
  <2>5. CASE ~ Delivered(delivered, n)
    <3>1. Waits(wire, n) \/ Arrives(wire, r, n)
      BY <2>5 DEF IntactInv
    <3>2. wire[1].index = 0 /\ wire[1].piece.rec = n => StartsNew(r, wire[1])
      BY <2>1 DEF StartsClear, StartsNew
    <3>3. \/ Waits(Tail(wire), n)
          \/ Arrives(Tail(wire), Fed(r, f), n)
          \/ /\ Accepts(r, f) /\ Added(r, f).next = f.count
             /\ Added(r, f).pieces[1].rec = n
      BY <1>1, <2>1, <3>1, <3>2, WaitsOn
    <3> HIDE DEF f
    <3> QED BY <1>1, <2>1, <2>3, <3>3, DeliveredMore
  <2> QED BY <2>4, <2>5
<1>4. CASE CheckTimeout
  <2>1. /\ spoiled' = spoiled \cup {r.pieces[1].rec} /\ wire' = wire
        /\ nextRec' = nextRec /\ delivered' = delivered
    BY <1>4 DEF CheckTimeout
  <2> SUFFICES ASSUME NEW n \in 1 .. nextRec - 1, n \notin spoiled'
               PROVE  Delivered(delivered, n) \/ Waits(wire, n)
    BY <2>1 DEF IntactInv
  <2> QED BY <2>1 DEF IntactInv, Arrives
<1>5. CASE Tick
  BY <1>5 DEF Tick, IntactInv
<1>6. CASE Lose
  <2>1. /\ wire # << >> /\ wire' = Tail(wire) /\ r' = r /\ delivered' = delivered
        /\ nextRec' = nextRec /\ spoiled' = spoiled \cup {Head(wire).piece.rec}
    BY <1>6 DEF Lose
  <2>2. Head(wire) = wire[1]
    BY <1>1, <2>1
  <2> SUFFICES ASSUME NEW n \in 1 .. nextRec - 1, n \notin spoiled', ~ Delivered(delivered, n)
               PROVE  Waits(wire', n)
    BY <2>1 DEF IntactInv
  <2>3. ~ Arrives(wire, r, n)
    BY <1>1, <2>1, <2>2, WaitsSomewhere
  <2>4. PICK k \in Nat, id \in 0 .. IdMod - 1, len \in 1 .. MaxRecord, cap \in Capacities :
          Lies(wire, k, n, id, len, cap, 0)
    BY <2>1, <2>3 DEF IntactInv, Waits
  <2>5. k # 0
    <3>1. FragmentCount(len, cap) \in Nat \ {0}
      BY CountIs
    <3>2. ASSUME k = 0 PROVE FALSE
      <4>1. Head(wire) = Cut(n, id, len, cap, 0 + 1)
        <5>1. 0 \in Nat /\ 0 < FragmentCount(len, cap) /\ Lies(wire, 0, n, id, len, cap, 0)
          BY <2>4, <3>1, <3>2
        <5> QED BY <1>1, <2>1, <5>1, LiesNow
      <4>2. Head(wire).piece.rec = n
        BY <4>1 DEF Cut
      <4> QED BY <2>1, <4>2
    <3> QED BY <3>2
  <2>6. k - 1 \in Nat /\ Lies(Tail(wire), k - 1, n, id, len, cap, 0)
    BY <1>1, <2>1, <2>4, <2>5, LiesLater
  <2> QED BY <2>1, <2>6 DEF Waits
<1>7. CASE Reconnect \/ Restart
  <2>1. /\ nextRec' = nextRec /\ delivered' = delivered
        /\ spoiled \subseteq spoiled' /\ WireRecs \subseteq spoiled' /\ InProgressRecs \subseteq spoiled'
    BY <1>7 DEF Reconnect, Restart, LinkBreaks
  <2> SUFFICES ASSUME NEW n \in 1 .. nextRec - 1, n \notin spoiled'
               PROVE  Delivered(delivered, n)
    BY <2>1 DEF IntactInv
  <2>2. n \notin spoiled /\ n \notin WireRecs /\ n \notin InProgressRecs
    BY <2>1
  <2>3. ~ Waits(wire, n)
    BY <1>1, <2>2, WaitsSomewhere DEF WireRecs
  <2>4. ~ Arrives(wire, r, n)
    BY <1>1, <2>2, WaitsSomewhere DEF InProgressRecs
  <2> QED BY <2>2, <2>3, <2>4 DEF IntactInv
<1>8. CASE UNCHANGED vars
  BY <1>8 DEF vars, IntactInv
<1> QED BY <1>2, <1>3, <1>4, <1>5, <1>6, <1>7, <1>8 DEF Next

LEMMA IntactHere == TypeOK /\ IntactInv => IntactDelivered
<1> SUFFICES ASSUME TypeOK, IntactInv, wire = << >>, NEW n \in 1 .. nextRec - 1, n \notin spoiled
             PROVE  Delivered(delivered, n)
  BY DEF IntactDelivered, Delivered
<1>1. wire \in Seq(Fragment) /\ ReassemblyOK(r) /\ DOMAIN wire = {}
  BY DEF TypeOK
<1>2. ~ Waits(wire, n) /\ ~ Arrives(wire, r, n)
  BY <1>1, WaitsSomewhere
<1> QED BY <1>2 DEF IntactInv

\* Without loss: behind a fragment that is not its record's last comes another of that record,
\* and what a receiver that was not reset still holds does not pass for the next record.
Whole ==
  /\ \A i \in 1 .. Len(wire) - 1 :
       wire[i].index + 1 # wire[i].count => wire[i + 1].index # 0
  /\ wire # << >> => wire[Len(wire)].index + 1 = wire[Len(wire)].count
  /\ wire = << >> /\ r.inProgress => r.id # messageId \/ nextRec \in spoiled

LEMMA WholeStep ==
  ASSUME ~ Lossy
  PROVE  TypeOK /\ Whole /\ StartsClear /\ [Next]_vars => Whole' /\ StartsClear'
<1> SUFFICES ASSUME TypeOK, Whole, StartsClear, [Next]_vars PROVE Whole' /\ StartsClear'
  OBVIOUS
<1>0. wire \in Seq(Fragment) /\ ReassemblyOK(r) /\ messageId \in 0 .. IdMod - 1
  BY DEF TypeOK
<1>1. CASE SendRecord
  <2>1. PICK len \in 1 .. MaxRecord, cap \in Capacities :
          wire' = wire \o FragmentsOf(nextRec, len, cap)
    BY <1>1 DEF SendRecord
  <2> DEFINE fs == FragmentsOf(nextRec, len, cap)
             c == FragmentCount(len, cap)
  <2>2. c \in Nat \ {0} /\ nextRec \in 1 .. MaxRecords
    BY <1>1, CountIs DEF SendRecord, TypeOK
  <2>3. fs = [i \in 1 .. c |-> Cut(nextRec, messageId, len, cap, i)]
    BY DEF FragmentsOf, Cut, Chunk
  <2>4. /\ fs \in Seq(Fragment) /\ Len(fs) = c
        /\ \A i \in 1 .. c : /\ fs[i].index = i - 1 /\ fs[i].count = c
                             /\ fs[i].id = messageId /\ fs[i].piece.rec = nextRec
    <3>1. fs \in Seq(Fragment)
      <4>1. len \in Nat \ {0} /\ cap \in Nat \ {0}
        BY FramingAssumption
      <4> QED BY <1>0, <2>2, <4>1, FragmentsType
    <3>2. Len(fs) = c /\ \A i \in 1 .. c : fs[i] = Cut(nextRec, messageId, len, cap, i)
      BY <2>2, <2>3
    <3>3. \A i \in 1 .. c : /\ Cut(nextRec, messageId, len, cap, i).index = i - 1
                            /\ Cut(nextRec, messageId, len, cap, i).count = c
                            /\ Cut(nextRec, messageId, len, cap, i).id = messageId
                            /\ Cut(nextRec, messageId, len, cap, i).piece.rec = nextRec
      BY DEF Cut
    <3> QED BY <3>1, <3>2, <3>3
  <2> HIDE DEF fs, c
  <2>5. /\ Len(wire') = Len(wire) + c /\ Len(wire) \in Nat /\ wire' # << >>
        /\ \A i \in 1 .. Len(wire) : wire'[i] = wire[i]
        /\ \A i \in 1 .. c : wire'[Len(wire) + i] = fs[i]
    <3>1. /\ Len(wire \o fs) = Len(wire) + Len(fs) /\ Len(wire) \in Nat
          /\ \A i \in 1 .. Len(wire) : (wire \o fs)[i] = wire[i]
          /\ \A i \in 1 .. Len(fs) : (wire \o fs)[Len(wire) + i] = fs[i]
      <4>1. fs \in Seq(Fragment)
        BY <2>4
      <4> QED BY <1>0, <4>1
    <3>2. wire' = wire \o fs
      BY <2>1 DEF fs
    <3>3. Len(wire') # 0
      BY <2>2, <2>4, <3>1, <3>2
    <3> QED BY <2>4, <3>1, <3>2, <3>3
  <2>6. r' = r /\ spoiled' = spoiled
    BY <1>1 DEF SendRecord
  <2>7. ASSUME NEW i \in 1 .. Len(wire') - 1, wire'[i].index + 1 # wire'[i].count
        PROVE  wire'[i + 1].index # 0
    <3>1. CASE i < Len(wire)
      <4>1. i \in 1 .. Len(wire) - 1 /\ i + 1 \in 1 .. Len(wire) /\ i \in 1 .. Len(wire)
        BY <2>2, <2>5, <3>1
      <4> QED BY <2>5, <2>7, <4>1 DEF Whole
    <3>2. CASE i = Len(wire)
      <4>1. i \in 1 .. Len(wire) /\ wire # << >>
        BY <3>2, <2>5
      <4> QED BY <2>5, <2>7, <3>2, <4>1 DEF Whole
    <3>3. CASE i > Len(wire)
      <4> DEFINE k == i - Len(wire)
      <4>1. k \in 1 .. c /\ k + 1 \in 1 .. c /\ i = Len(wire) + k /\ i + 1 = Len(wire) + (k + 1)
        BY <2>2, <2>5, <3>3
      <4> HIDE DEF k
      <4>2. wire'[i + 1].index = (k + 1) - 1
        BY <2>4, <2>5, <4>1
      <4> QED BY <4>1, <4>2
    <3> QED BY <2>5, <3>1, <3>2, <3>3
  <2>8. wire'[Len(wire')].index + 1 = wire'[Len(wire')].count
    <3>1. c \in 1 .. c
      BY <2>2
    <3>2. wire'[Len(wire')].index = c - 1 /\ wire'[Len(wire')].count = c
      BY <2>4, <2>5, <3>1
    <3> QED BY <2>2, <3>2
  <2>9. StartsClear'
    <3> SUFFICES ASSUME r.inProgress, wire'[1].index = 0
                 PROVE  wire'[1].id # r.id \/ wire'[1].piece.rec \in spoiled
      BY <2>6 DEF StartsClear
    <3>1. CASE wire # << >>
      <4>1. 1 \in 1 .. Len(wire)
        BY <1>0, <3>1
      <4> QED BY <2>5, <3>1, <4>1 DEF StartsClear
    <3>2. CASE wire = << >>
      <4>1. Len(wire) = 0 /\ 1 \in 1 .. c /\ Len(wire) + 1 = 1
        BY <3>2, <2>2
      <4>2. wire'[1].id = messageId /\ wire'[1].piece.rec = nextRec
        BY <2>4, <2>5, <4>1
      <4> QED BY <3>2, <4>2 DEF Whole
    <3> QED BY <3>1, <3>2
  <2> QED BY <2>5, <2>7, <2>8, <2>9 DEF Whole
<1>2. CASE Receive
  <2> DEFINE f == Head(wire)
  <2>1. /\ wire # << >> /\ wire' = Tail(wire) /\ r' = Fed(r, f)
        /\ spoiled' = spoiled /\ messageId' = messageId /\ nextRec' = nextRec
    BY <1>2 DEF Receive
  <2>2. /\ f \in Fragment /\ f = wire[1] /\ Len(wire) \in Nat \ {0}
        /\ Len(wire') = Len(wire) - 1
        /\ \A i \in 1 .. Len(wire) - 1 : wire'[i] = wire[i + 1]
        /\ (wire' = << >> <=> Len(wire) = 1)
    <3>1. f \in Fragment /\ f = wire[1] /\ Len(wire) \in Nat \ {0}
      BY <1>0, <2>1
    <3>2. /\ Tail(wire) \in Seq(Fragment) /\ Len(Tail(wire)) = Len(wire) - 1
          /\ \A i \in 1 .. Len(wire) - 1 : Tail(wire)[i] = wire[i + 1]
      BY <1>0, <2>1
    <3>3. Tail(wire) = << >> <=> Len(Tail(wire)) = 0
      BY <3>2
    <3> QED BY <2>1, <3>1, <3>2, <3>3
  <2> HIDE DEF f
  <2>3. ASSUME NEW i \in 1 .. Len(wire') - 1, wire'[i].index + 1 # wire'[i].count
        PROVE  wire'[i + 1].index # 0
    <3>1. i \in 1 .. Len(wire) - 1 /\ i + 1 \in 1 .. Len(wire) - 1
      BY <2>2
    <3> QED BY <2>2, <2>3, <3>1 DEF Whole
  <2>4. wire' # << >> => wire'[Len(wire')].index + 1 = wire'[Len(wire')].count
    <3> SUFFICES ASSUME wire' # << >>
                 PROVE  wire'[Len(wire')].index + 1 = wire'[Len(wire')].count
      OBVIOUS
    <3>1. Len(wire') \in 1 .. Len(wire) - 1 /\ Len(wire') + 1 = Len(wire)
      BY <2>2
    <3>2. wire'[Len(wire')] = wire[Len(wire)]
      BY <2>2, <3>1
    <3> QED BY <2>1, <3>2 DEF Whole
  <2>5. ASSUME r'.inProgress PROVE wire' # << >> /\ wire'[1].index # 0
    <3>1. /\ Accepts(r, f) /\ Added(r, f).next # Added(r, f).count
      BY <2>1, <2>5 DEF Fed, Idle
    <3>2. /\ Added(r, f).next = Joined(r, f).next + 1 /\ Added(r, f).count = Joined(r, f).count
          /\ f.index = Joined(r, f).next /\ f.count = Joined(r, f).count
      BY <3>1 DEF Added, Accepts
    <3>3. wire[1].index + 1 # wire[1].count
      BY <2>2, <3>1, <3>2
    <3>4. Len(wire) # 1
      BY <2>1, <3>3 DEF Whole
    <3>5. 1 \in 1 .. Len(wire) - 1
      BY <2>2, <3>4
    <3>6. wire[1 + 1].index # 0
      BY <3>3, <3>5 DEF Whole
    <3> QED BY <2>2, <3>4, <3>5, <3>6
  <2> QED BY <2>3, <2>4, <2>5 DEF Whole, StartsClear
<1>3. CASE CheckTimeout
  BY <1>3 DEF CheckTimeout, Whole, StartsClear, Idle
<1>4. CASE Tick
  BY <1>4 DEF Tick, Whole, StartsClear
<1>5. CASE Lose
  BY <1>5 DEF Lose
<1>6. CASE Reconnect \/ Restart
  <2>1. /\ wire' = << >> /\ nextRec' = nextRec
        /\ spoiled' = spoiled \cup WireRecs \cup InProgressRecs
                        \cup (IF r'.inProgress /\ r'.id = messageId' THEN {nextRec} ELSE {})
    BY <1>6 DEF Reconnect, Restart, LinkBreaks
  <2>2. Len(wire') = 0
    BY <2>1
  <2> QED BY <2>1, <2>2 DEF Whole, StartsClear
<1>7. CASE UNCHANGED vars
  BY <1>7 DEF vars, Whole, StartsClear
<1> QED BY <1>1, <1>2, <1>3, <1>4, <1>5, <1>6, <1>7 DEF Next

\* IntactDelivered, without loss: a rejection or a timeout never costs another record than the
\* one at hand, although ids repeat and a receiver keeps the rest of a record over a broken
\* link (feb_reassembly_feed, feb_reassembly_reset).
THEOREM LosslessIntact == ASSUME ~ Lossy PROVE Spec => []IntactDelivered
<1>1. Init => Whole /\ StartsClear /\ IntactInv
  BY DEF Init, Whole, StartsClear, IntactInv, Idle
<1> QED BY <1>1, WholeStep, IntactStep, IntactHere, FramingTypeOK, PTL DEF Spec

\* With loss: on the link records come in their order and every fragment of a record but the
\* first has an index other than 0; none starts the record in progress again.
Ordered ==
  /\ \A i, j \in 1 .. Len(wire) :
       i < j => wire[i].piece.rec < wire[j].piece.rec \/ wire[j].index # 0
  /\ \A i \in 1 .. Len(wire) : wire[i].piece.rec < nextRec
  /\ r.inProgress => /\ r.pieces[1].rec < nextRec
                     /\ \A i \in 1 .. Len(wire) :
                          r.pieces[1].rec < wire[i].piece.rec \/ wire[i].index # 0

LEMMA OrderedStep ==
  ASSUME Lossy
  PROVE  TypeOK /\ IdsTell /\ Ordered /\ [Next]_vars => Ordered'
<1> SUFFICES ASSUME TypeOK, IdsTell, Ordered, [Next]_vars PROVE Ordered'
  OBVIOUS
<1>0. wire \in Seq(Fragment) /\ ReassemblyOK(r) /\ nextRec \in Nat
  BY DEF TypeOK
<1>1. CASE SendRecord
  <2>1. PICK len \in 1 .. MaxRecord, cap \in Capacities :
          wire' = wire \o FragmentsOf(nextRec, len, cap)
    BY <1>1 DEF SendRecord
  <2> DEFINE fs == FragmentsOf(nextRec, len, cap)
  <2>2. /\ fs \in Seq(Fragment)
        /\ \A i \in 1 .. Len(fs) : fs[i].index = i - 1 /\ fs[i].piece.rec = nextRec
    <3>1. nextRec \in 1 .. MaxRecords /\ messageId \in 0 .. IdMod - 1
      BY <1>1 DEF SendRecord, TypeOK
    <3>2. len \in Nat \ {0} /\ cap \in Nat \ {0}
      BY FramingAssumption
    <3>3. /\ fs \in Seq(Fragment)
          /\ \A i \in DOMAIN fs : fs[i].index = i - 1 /\ fs[i].piece.rec = nextRec
      BY <3>1, <3>2, FragmentsType
    <3> HIDE DEF fs
    <3> QED BY <3>3
  <2> HIDE DEF fs
  <2>3. /\ Len(wire') = Len(wire) + Len(fs) /\ Len(wire) \in Nat /\ Len(fs) \in Nat
        /\ \A i \in 1 .. Len(wire) : wire'[i] = wire[i]
        /\ \A i \in 1 .. Len(fs) : wire'[Len(wire) + i] = fs[i]
    BY <1>0, <2>1, <2>2 DEF fs
  <2>4. \A i \in 1 .. Len(wire') :
          \/ i \in 1 .. Len(wire) /\ wire'[i] = wire[i]
          \/ /\ i > Len(wire) /\ wire'[i].piece.rec = nextRec
             /\ wire'[i].index = (i - Len(wire)) - 1
    <3> SUFFICES ASSUME NEW i \in 1 .. Len(wire'), i \notin 1 .. Len(wire)
                 PROVE  /\ i > Len(wire) /\ wire'[i].piece.rec = nextRec
                        /\ wire'[i].index = (i - Len(wire)) - 1
      BY <2>3
    <3> DEFINE k == i - Len(wire)
    <3>1. k \in 1 .. Len(fs) /\ i = Len(wire) + k /\ i > Len(wire)
      BY <2>3
    <3>2. fs[k].index = k - 1 /\ fs[k].piece.rec = nextRec
      BY <2>2, <3>1
    <3> HIDE DEF k
    <3>3. wire'[i] = fs[k]
      BY <2>3, <3>1
    <3> QED BY <3>1, <3>2, <3>3 DEF k
  <2>5. nextRec' = nextRec + 1 /\ r' = r
    BY <1>1 DEF SendRecord
  <2>6. \A i \in 1 .. Len(wire) : wire[i].piece.rec \in Nat
    <3>1. \A i \in 1 .. Len(wire) : wire[i] \in Fragment
      BY <1>0
    <3> QED BY <3>1 DEF Fragment, Piece
  <2>7. r.inProgress => r.pieces[1].rec \in Nat
    <3>1. r.inProgress => r.pieces[1] \in Piece
      BY <1>0 DEF ReassemblyOK, Reassembly
    <3> QED BY <3>1 DEF Piece
  <2>8. ASSUME NEW i \in 1 .. Len(wire'), NEW j \in 1 .. Len(wire'), i < j
        PROVE  wire'[i].piece.rec < wire'[j].piece.rec \/ wire'[j].index # 0
    <3>1. CASE j \in 1 .. Len(wire) /\ wire'[j] = wire[j]
      <4>1. i \in 1 .. Len(wire) /\ wire'[i] = wire[i]
        BY <2>3, <2>8, <3>1
      <4> QED BY <2>8, <3>1, <4>1 DEF Ordered
    <3>2. CASE /\ j > Len(wire) /\ wire'[j].piece.rec = nextRec
               /\ wire'[j].index = (j - Len(wire)) - 1
      <4>1. CASE i \in 1 .. Len(wire) /\ wire'[i] = wire[i]
        BY <3>2, <4>1 DEF Ordered
      <4>2. CASE i > Len(wire)
        BY <2>3, <2>8, <3>2, <4>2
      <4> QED BY <2>4, <4>1, <4>2
    <3> QED BY <2>4, <3>1, <3>2
  <2>9. \A i \in 1 .. Len(wire') : wire'[i].piece.rec < nextRec'
    <3>1. \A i \in 1 .. Len(wire) : wire[i].piece.rec < nextRec + 1
      BY <1>0, <2>6 DEF Ordered
    <3> QED BY <1>0, <2>4, <2>5, <3>1
  <2>10. ASSUME r.inProgress
         PROVE  /\ r.pieces[1].rec < nextRec + 1
                /\ \A i \in 1 .. Len(wire') :
                     r.pieces[1].rec < wire'[i].piece.rec \/ wire'[i].index # 0
    <3>1. r.pieces[1].rec < nextRec
      BY <2>10 DEF Ordered
    <3>2. r.pieces[1].rec < nextRec + 1
      BY <1>0, <2>7, <2>10, <3>1
    <3>3. ASSUME NEW i \in 1 .. Len(wire')
          PROVE  r.pieces[1].rec < wire'[i].piece.rec \/ wire'[i].index # 0
      <4>1. CASE i \in 1 .. Len(wire) /\ wire'[i] = wire[i]
        BY <2>10, <4>1 DEF Ordered
      <4>2. CASE wire'[i].piece.rec = nextRec
        BY <3>1, <4>2
      <4> QED BY <2>4, <4>1, <4>2
    <3> QED BY <3>2, <3>3
  <2> QED BY <2>5, <2>8, <2>9, <2>10 DEF Ordered
<1>2. ASSUME wire # << >>, wire' = Tail(wire)
      PROVE  /\ \A i \in 1 .. Len(wire') : i + 1 \in 1 .. Len(wire) /\ wire'[i] = wire[i + 1]
             /\ \A i, j \in 1 .. Len(wire') :
                  i < j => wire'[i].piece.rec < wire'[j].piece.rec \/ wire'[j].index # 0
             /\ \A i \in 1 .. Len(wire') : wire'[i].piece.rec < nextRec
  <2>1. \A i \in 1 .. Len(wire') : i + 1 \in 1 .. Len(wire) /\ wire'[i] = wire[i + 1]
    BY <1>0, <1>2
  <2>2. \A i, j \in 1 .. Len(wire') : i < j => i + 1 < j + 1
    BY <1>0, <1>2
  <2> QED BY <2>1, <2>2 DEF Ordered
<1>3. CASE Receive
  <2> DEFINE f == Head(wire)
  <2>1. /\ wire # << >> /\ wire' = Tail(wire) /\ r' = Fed(r, f) /\ nextRec' = nextRec
    BY <1>3 DEF Receive
  <2>2. f \in Fragment /\ f = wire[1] /\ 1 \in 1 .. Len(wire)
    BY <1>0, <2>1
  <2> HIDE DEF f
  <2>3. ASSUME r'.inProgress PROVE r'.pieces[1].rec = f.piece.rec
    <3>1. r' = Added(r, f)
      BY <2>1, <2>3 DEF Fed, Idle
    <3>2. f.piece \in Piece /\ f.piece.rec \in Nat /\ f.id = f.piece.rec - 1
      BY <2>2 DEF Fragment, Piece, IdsTell
    <3>3. StartsNew(r, f) \/ f.piece.rec = r.pieces[1].rec
      <4> SUFFICES ASSUME ~ StartsNew(r, f) PROVE f.piece.rec = r.pieces[1].rec
        OBVIOUS
      <4>1. r.inProgress /\ f.id = r.id
        BY DEF StartsNew
      <4>2. r.pieces[1] \in Piece
        BY <1>0, <4>1 DEF ReassemblyOK, Reassembly
      <4>3. r.pieces[1].rec \in Nat
        BY <4>2 DEF Piece
      <4> QED BY <3>2, <4>1, <4>3 DEF IdsTell
    <3>4. r.pieces \in Seq(Piece) /\ OneRecord(r.pieces)
      BY <1>0 DEF ReassemblyOK, Reassembly, IdsTell
    <3> QED BY <3>1, <3>2, <3>3, <3>4, AddedOneRecord
  <2>4. ASSUME r'.inProgress
        PROVE  /\ f.piece.rec < nextRec
               /\ \A i \in 1 .. Len(wire') : f.piece.rec < wire'[i].piece.rec \/ wire'[i].index # 0
    <3>1. \A i \in 1 .. Len(wire') : i + 1 \in 1 .. Len(wire) /\ wire'[i] = wire[i + 1] /\ 1 < i + 1
      BY <1>0, <1>2, <2>1
    <3> QED BY <2>2, <3>1 DEF Ordered
  <2> QED BY <1>2, <2>1, <2>3, <2>4 DEF Ordered
<1>4. CASE CheckTimeout
  BY <1>4 DEF CheckTimeout, Ordered, Idle
<1>5. CASE Tick
  BY <1>5 DEF Tick, Ordered
<1>6. CASE Lose
  <2>1. wire # << >> /\ wire' = Tail(wire) /\ r' = r /\ nextRec' = nextRec
    BY <1>6 DEF Lose
  <2> QED BY <1>2, <2>1 DEF Ordered
<1>7. CASE Reconnect
  <2>1. wire' = << >> /\ nextRec' = nextRec /\ (r' = r \/ r' = Idle)
    BY <1>7 DEF Reconnect, LinkBreaks
  <2>2. Len(wire') = 0
    BY <2>1
  <2> QED BY <2>1, <2>2 DEF Ordered, Idle
<1>8. CASE Restart
  BY <1>8 DEF Restart
<1>9. CASE UNCHANGED vars
  BY <1>9 DEF vars, Ordered
<1> QED BY <1>1, <1>3, <1>4, <1>5, <1>6, <1>7, <1>8, <1>9 DEF Next

LEMMA OrderedClear == TypeOK /\ IdsTell /\ Ordered => StartsClear
<1> SUFFICES ASSUME TypeOK, IdsTell, Ordered, r.inProgress, wire # << >>, wire[1].index = 0
             PROVE  wire[1].id # r.id
  BY DEF StartsClear
<1>1. 1 \in 1 .. Len(wire) /\ 1 \in DOMAIN wire /\ wire[1] \in Fragment
  BY DEF TypeOK
<1>2. r.pieces[1] \in Piece
  BY DEF TypeOK, ReassemblyOK, Reassembly
<1>3. wire[1].piece.rec \in Nat /\ r.pieces[1].rec \in Nat
  BY <1>1, <1>2 DEF Fragment, Piece
<1>4. r.pieces[1].rec < wire[1].piece.rec
  BY <1>1 DEF Ordered
<1> QED BY <1>1, <1>3, <1>4 DEF IdsTell

\* IntactDelivered, with fragments lost at any place: whatever was lost before, a record
\* nothing happened to is handed over, as long as no message id is used twice.
THEOREM LossyIntact ==
  ASSUME Lossy, MaxRecords <= IdMod PROVE Spec => []IntactDelivered
<1>1. Init => Ordered /\ IntactInv
  BY DEF Init, Ordered, IntactInv, Idle
<1> QED BY <1>1, LossyInvariant, OrderedStep, OrderedClear, IntactStep, IntactHere, FramingTypeOK,
           PTL DEF Spec
=============================================================================
