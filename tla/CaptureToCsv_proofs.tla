------------------------- MODULE CaptureToCsv_proofs -------------------------
(***************************************************************************)
(* Proofs about the filters of both sides, for every number of addresses,  *)
(* every size of the tables and every history of faults.                   *)
(***************************************************************************)
EXTENDS CaptureToCsv, SequenceTheorems, FiniteSetTheorems, NaturalsInduction, WellFoundedInduction, TLAPS

(* What the table holds was logged; a pass and the count of failures do    *)
(* not matter.                                                             *)
TableIsLogged == \A i \in DOMAIN table : table[i] \in logged

FilterInv == TableIsLogged /\ FilteredIsLogged /\ filtered \subseteq Record

LEMMA FilterInit == Init => FilterInv
BY DEF Init, BoardInit, None, FilterInv, TableIsLogged, FilteredIsLogged

(* A sighting that is filtered repeats the record of its slot.             *)
LEMMA FilterStep ==
    ASSUME FilterInv, NEW seen \in Record, Filter(seen)
    PROVE  FilterInv'
<1>1. Existing(seen.address) /\ Repeats(seen, table[FindSlot(seen.address)], Distance)
  BY DEF Filter, ShouldLog
<1>2. table[FindSlot(seen.address)] \in logged
  BY <1>1 DEF Existing, FilterInv, TableIsLogged
<1>3. TableIsLogged'
  BY DEF Filter, FilterInv, TableIsLogged
<1>4. FilteredIsLogged'
  BY <1>1, <1>2 DEF Filter, FilterInv, FilteredIsLogged
<1>5. filtered' \subseteq Record
  BY DEF Filter, FilterInv
<1> QED BY <1>3, <1>4, <1>5 DEF FilterInv

LEMMA LogStep ==
    ASSUME FilterInv, NEW seen \in Record, Log(seen)
    PROVE  FilterInv'
<1>1. TableIsLogged'
  <2>1. \A i \in DOMAIN table' : table'[i] = seen \/ (i \in DOMAIN table /\ table'[i] = table[i])
    BY DEF Log, Remembered, With
  <2> QED BY <2>1 DEF Log, FilterInv, TableIsLogged
<1>2. FilteredIsLogged'
  BY DEF Log, FilterInv, FilteredIsLogged
<1>3. filtered' = filtered
  BY DEF Log
<1> QED BY <1>1, <1>2, <1>3 DEF FilterInv

LEMMA BoardStep == ASSUME FilterInv, BoardNext PROVE FilterInv'
<1>1. CASE \E seen \in Record : Filter(seen)
  BY <1>1, FilterStep
<1>2. CASE \E seen \in Record : Log(seen)
  BY <1>2, LogStep
<1>3. CASE \E seen \in Record : AppendFails(seen)
  BY <1>3 DEF AppendFails, AfterFailure, FilterInv, TableIsLogged, FilteredIsLogged
<1>4. CASE BeginPass \/ DiscardPass \/ LeaveLoop \/ Start \/ Stop \/ \E place \in Places : EnterLoop(place)
  BY <1>4 DEF BeginPass, DiscardPass, LeaveLoop, Start, Stop, EnterLoop, history,
              FilterInv, TableIsLogged, FilteredIsLogged
<1> QED BY <1>1, <1>2, <1>3, <1>4 DEF BoardNext

LEMMA FilterNext == FilterInv /\ [Next]_vars => FilterInv'
<1> SUFFICES ASSUME FilterInv, [Next]_vars PROVE FilterInv'
  OBVIOUS
<1>1. CASE Board
  BY <1>1, BoardStep DEF Board
<1>2. CASE Restart
  BY <1>2 DEF Restart, Reboot, None, FilterInv, TableIsLogged, FilteredIsLogged
<1>3. CASE Flipper \/ Disconnect \/ Drain \/ (\E n \in 1..MaxBatch : Deliver(n)) \/ UNCHANGED vars
  BY <1>3 DEF Flipper, Disconnect, Drain, Deliver, vars, boardVars, history,
              FilterInv, TableIsLogged, FilteredIsLogged
<1> QED BY <1>1, <1>2, <1>3 DEF Next

(* Nothing is filtered that is not in the log: FilteredIsLogged, for every *)
(* table, however small, and every order of passes, appends that fail,     *)
(* evictions and restarts of the board.                                    *)
THEOREM NothingFilteredIsLost == Spec => []FilteredIsLogged
<1>1. FilterInv => FilteredIsLogged
  BY DEF FilterInv
<1> QED BY FilterInit, FilterNext, <1>1, PTL DEF Spec

-----------------------------------------------------------------------------
(* Types.                                                                  *)

LEMMA NoneIsEmpty == DOMAIN None = {} /\ Range(None) = {}
BY DEF None, Range

\* What With puts into a function.
LEMMA WithTypes ==
    ASSUME NEW f, NEW K, NEW V, NEW key \in K, NEW value \in V,
           DOMAIN f \subseteq K, Range(f) \subseteq V
    PROVE  /\ DOMAIN With(f, key, value) = DOMAIN f \cup {key}
           /\ DOMAIN With(f, key, value) \subseteq K
           /\ Range(With(f, key, value)) \subseteq V
           /\ Range(With(f, key, value)) \subseteq Range(f) \cup {value}
BY DEF With, Range

(* What the export relies on: the queue it is fed from has records, and    *)
(* its own state is well formed.                                           *)
QueueTypeOK == pending \in Seq(Record) /\ logged \subseteq Record /\ sent \in Nat
Types       == QueueTypeOK /\ ExportTypeOK

(* The table has one entry of an address.                                  *)
EntriesDiffer ==
    \A i, j \in DOMAIN known : known[i].address = known[j].address => i = j

(* The last row of an entry's address, in this session, is the entry.      *)
IsLastRow(entry, all, from) ==
    \E k \in from..Len(all) :
        /\ all[k] = entry
        /\ \A l \in k+1 .. Len(all) : all[l].address # entry.address
Backed == ~failed => \A i \in DOMAIN known : IsLastRow(known[i], rows, first)

(* The count of rows since a sync is no less than the rows at risk.        *)
Counted == /\ Len(rows) - safe <= unsynced
           /\ ~opened => safe = Len(rows)

ExportInv == Types /\ EntriesDiffer /\ Backed /\ Counted

LEMMA ExportInitially == Init => ExportInv
<1> SUFFICES ASSUME Init PROVE ExportInv
  OBVIOUS
<1>1. <<>> \in Seq(Record) /\ Len(<<>>) = 0
  OBVIOUS
<1>2. QueueTypeOK
  BY <1>1 DEF Init, BoardInit, QueueTypeOK
<1>3. ExportTypeOK
  <2>1. 0 \in 0..ExportSlots-1 /\ 0 \in 0..SyncEvery-1 /\ 0 \in 0..0 /\ 1 \in 1..0+1
    BY ExportAssumption
  <2> QED BY <1>1, <2>1, NoneIsEmpty DEF Init, ExportInit, ExportTypeOK
<1>4. EntriesDiffer /\ Backed
  BY NoneIsEmpty DEF Init, ExportInit, EntriesDiffer, Backed
<1>5. Counted
  BY <1>1 DEF Init, ExportInit, Counted
<1> QED BY <1>2, <1>3, <1>4, <1>5 DEF ExportInv, Types

-----------------------------------------------------------------------------
(* The table.                                                              *)

(* When a record is taken, it is an entry, and every other entry stays and *)
(* has another address.                                                    *)
LEMMA TakenKeeps ==
    ASSUME ExportTypeOK, EntriesDiffer, NEW record \in Record, Taken(record)
    PROVE  /\ DOMAIN known' \subseteq 0..ExportSlots-1 /\ Range(known') \subseteq Record
           /\ cursor' \in 0..ExportSlots-1 /\ evicted' \in BOOLEAN
           /\ EntriesDiffer'
           /\ \A i \in DOMAIN known' :
                 \/ known'[i] = record
                 \/ /\ i \in DOMAIN known /\ known'[i] = known[i]
                    /\ known[i].address # record.address
<1>1. CASE Held(record) # {}
  <2>1. PICK h \in Held(record) : TRUE
    BY <1>1
  <2>2. Held(record) = {h} /\ h \in DOMAIN known /\ known[h].address = record.address
    BY <2>1 DEF Held, EntriesDiffer
  <2>3. h \in 0..ExportSlots-1
    BY <2>2 DEF ExportTypeOK
  <2>4. Min(Held(record)) = h
    BY <2>2, <2>3, ExportAssumption DEF Min
  <2>5. known' = [known EXCEPT ![h] = record]
    BY <1>1, <2>4 DEF Taken, Updated
  <2>6. DOMAIN known' = DOMAIN known /\ known'[h] = record
        /\ \A i \in DOMAIN known : i # h => known'[i] = known[i] /\ known[i].address # record.address
    BY <2>2, <2>5 DEF EntriesDiffer
  <2>7. Range(known') \subseteq Record
    BY <2>6 DEF Range, ExportTypeOK
  <2>8. cursor' \in 0..ExportSlots-1 /\ evicted' \in BOOLEAN
    BY <1>1 DEF Taken, ExportTypeOK
  <2>9. EntriesDiffer'
    BY <2>2, <2>6 DEF EntriesDiffer
  <2> QED BY <2>2, <2>6, <2>7, <2>8, <2>9 DEF ExportTypeOK
<1>2. CASE Held(record) = {}
  <2>1. known' = With(known, cursor, record)
    BY <1>2 DEF Taken, Updated
  <2>2. cursor \in 0..ExportSlots-1 /\ DOMAIN known \subseteq 0..ExportSlots-1 /\ Range(known) \subseteq Record
    BY DEF ExportTypeOK
  <2>3. \A i \in DOMAIN known : known[i].address # record.address
    BY <1>2 DEF Held
  <2>4. DOMAIN known' = DOMAIN known \cup {cursor} /\ known'[cursor] = record
        /\ \A i \in DOMAIN known : i # cursor => known'[i] = known[i]
    BY <2>1 DEF With
  <2>5. DOMAIN known' \subseteq 0..ExportSlots-1
    BY <2>2, <2>4
  <2>6. Range(known') \subseteq Record
    BY <2>2, <2>4 DEF Range
  <2>7. cursor' \in 0..ExportSlots-1
    <3>1. (cursor + 1) % ExportSlots \in 0..ExportSlots-1
      BY <2>2, ExportAssumption
    <3> QED BY <1>2, <3>1 DEF Taken, NextPlace
  <2>8. evicted' \in BOOLEAN
    BY DEF Taken, ExportTypeOK
  <2>9. EntriesDiffer'
    BY <2>3, <2>4 DEF EntriesDiffer
  <2> QED BY <2>3, <2>4, <2>5, <2>6, <2>7, <2>8, <2>9
<1> QED BY <1>1, <1>2

-----------------------------------------------------------------------------
(* The Flipper's steps.                                                    *)

LEMMA HeadAndTail ==
    ASSUME ExportTypeOK, batch # <<>>
    PROVE  Head(batch) \in Record /\ Tail(batch) \in Seq(Record)
BY DEF ExportTypeOK

LEMMA EmptyTypes ==
    /\ 0 \in 0..ExportSlots-1 /\ 0 \in 0..SyncEvery-1
    /\ SyncEvery \in Nat \ {0} /\ <<>> \in Seq(Record)
BY ExportAssumption

LEMMA WithholdKeeps == ASSUME ExportInv, Withhold, UNCHANGED <<boardVars, sent>> PROVE ExportInv'
<1>1. batch' \in Seq(Record)
  BY HeadAndTail DEF Withhold, ExportInv, Types
<1>2. ExportTypeOK'
  BY <1>1 DEF Withhold, ExportInv, Types, ExportTypeOK
<1> QED BY <1>2 DEF Withhold, ExportInv, Types, QueueTypeOK, EntriesDiffer, Backed, Counted, boardVars, history

(* A row is appended: it is the last of its address, and no other entry's. *)
LEMMA RowKeeps ==
    ASSUME NEW all \in Seq(Record), NEW from \in 1..Len(all)+1, NEW record \in Record
    PROVE  /\ Append(all, record) \in Seq(Record)
           /\ Len(Append(all, record)) = Len(all) + 1
           /\ IsLastRow(record, Append(all, record), from)
           /\ \A entry \in Record : IsLastRow(entry, all, from) /\ entry.address # record.address
                                      => IsLastRow(entry, Append(all, record), from)
<1> DEFINE more == Append(all, record)
<1>1. more \in Seq(Record) /\ Len(more) = Len(all) + 1 /\ more[Len(all) + 1] = record
      /\ \A k \in 1..Len(all) : more[k] = all[k]
  OBVIOUS
<1> HIDE DEF more
<1>2. IsLastRow(record, more, from)
  BY <1>1 DEF IsLastRow
<1>3. ASSUME NEW entry \in Record, IsLastRow(entry, all, from), entry.address # record.address
      PROVE  IsLastRow(entry, more, from)
  <2>1. PICK k \in from..Len(all) : all[k] = entry /\ \A l \in k+1 .. Len(all) : all[l].address # entry.address
    BY <1>3 DEF IsLastRow
  <2>2. k \in from..Len(more) /\ more[k] = entry
    BY <1>1, <2>1
  <2>3. ASSUME NEW l \in k+1 .. Len(more) PROVE more[l].address # entry.address
    <3>1. CASE l = Len(all) + 1
      BY <1>1, <1>3, <3>1
    <3>2. CASE l # Len(all) + 1
      BY SMTT(20), <1>1, <2>1, <3>2
    <3> QED BY <3>1, <3>2
  <2> QED BY <2>2, <2>3 DEF IsLastRow
<1> QED BY <1>1, <1>2, <1>3 DEF more

LEMMA WriteKeeps == ASSUME ExportInv, Write, UNCHANGED <<boardVars, sent>> PROVE ExportInv'
<1> DEFINE record == Head(batch)
<1>1. ExportTypeOK /\ EntriesDiffer /\ Counted /\ QueueTypeOK
  BY DEF ExportInv, Types
<1>2. record \in Record /\ batch' \in Seq(Record)
  BY <1>1, HeadAndTail DEF Write
<1>3. Taken(record)
  BY DEF Write
<1> HIDE DEF record
<1>4. rows' = Append(rows, record)
  BY DEF Write, record
<1>5. rows \in Seq(Record) /\ first \in 1..Len(rows)+1 /\ safe \in 0..Len(rows) /\ Len(rows) \in Nat
  BY <1>1 DEF ExportTypeOK
<1>6. rows' \in Seq(Record) /\ Len(rows') = Len(rows) + 1 /\ first' = first
  BY <1>2, <1>4, <1>5, RowKeeps DEF Write
<1>7. unsynced' \in 0..SyncEvery-1 /\ safe' \in 0..Len(rows') /\ Len(rows') - safe' <= unsynced'
  <2>1. unsynced \in 0..SyncEvery-1 /\ Len(rows) - safe <= unsynced
    BY <1>1 DEF ExportTypeOK, Counted
  <2> QED BY <2>1, <1>5, <1>6, EmptyTypes DEF Write, SyncIsDue
<1>8. ExportTypeOK'
  <2>1. opened' \in BOOLEAN /\ failed' \in BOOLEAN /\ excused' \subseteq Record
    BY <1>1 DEF Write, ExportTypeOK
  <2>2. first' \in 1..Len(rows')+1
    BY <1>5, <1>6
  <2> QED BY <1>1, <1>2, <1>3, <1>6, <1>7, <2>1, <2>2, TakenKeeps DEF ExportTypeOK
<1>9. Backed'
  <2> SUFFICES ASSUME NEW i \in DOMAIN known' PROVE IsLastRow(known'[i], rows', first')
    BY DEF Backed
  <2>1. CASE known'[i] = record
    BY <2>1, <1>2, <1>4, <1>5, <1>6, RowKeeps
  <2>2. CASE known'[i] # record
    <3>1. i \in DOMAIN known /\ known'[i] = known[i] /\ known[i].address # record.address
      BY <1>1, <1>2, <1>3, <2>2, TakenKeeps
    <3>2. IsLastRow(known[i], rows, first)
      BY <3>1 DEF ExportInv, Backed, Write
    <3>3. known[i] \in Record
      BY <1>1, <3>1 DEF ExportTypeOK, Range
    <3> QED BY <3>1, <3>2, <3>3, <1>2, <1>4, <1>5, <1>6, RowKeeps
  <2> QED BY <2>1, <2>2
<1>10. EntriesDiffer'
  BY <1>1, <1>2, <1>3, TakenKeeps
<1>11. Counted' /\ QueueTypeOK'
  BY <1>1, <1>7 DEF Write, Counted, QueueTypeOK, boardVars, history
<1> QED BY <1>8, <1>9, <1>10, <1>11 DEF ExportInv, Types

LEMMA FailureKeeps ==
    ASSUME ExportInv, WriteFails \/ DropWrite, UNCHANGED <<boardVars, sent>>
    PROVE  ExportInv'
<1> DEFINE record == Head(batch)
<1>1. ExportTypeOK /\ EntriesDiffer /\ Counted /\ QueueTypeOK
  BY DEF ExportInv, Types
<1>2. record \in Record /\ batch' \in Seq(Record)
  BY <1>1, HeadAndTail DEF WriteFails, DropWrite
<1>3. Taken(record) /\ failed' = TRUE /\ excused' = excused \cup {record}
  BY DEF WriteFails, DropWrite, ExportInv, Types, ExportTypeOK
<1>4. UNCHANGED <<unsynced, rows, safe, first>> /\ opened' \in {opened, TRUE}
  BY DEF WriteFails, DropWrite
<1> HIDE DEF record
<1>5. ExportTypeOK'
  BY <1>1, <1>2, <1>3, <1>4, TakenKeeps DEF ExportTypeOK
<1>6. EntriesDiffer'
  BY <1>1, <1>2, <1>3, TakenKeeps
<1>7. Backed' /\ Counted' /\ QueueTypeOK'
  BY <1>1, <1>3, <1>4 DEF Backed, Counted, ExportTypeOK, QueueTypeOK, boardVars, history
<1> QED BY <1>5, <1>6, <1>7 DEF ExportInv, Types

LEMMA CloseKeeps == ASSUME ExportInv, Close, UNCHANGED <<boardVars, sent>> PROVE ExportInv'
<1>1. ExportTypeOK /\ Counted /\ QueueTypeOK /\ rows \in Seq(Record) /\ Len(rows) \in Nat
  BY DEF ExportInv, Types, ExportTypeOK
<1>2. known' = None /\ cursor' = 0 /\ unsynced' = 0 /\ failed' = FALSE /\ evicted' = FALSE /\ opened' = FALSE
  BY DEF Close, ResetState
<1>3. rows' = rows /\ first' = Len(rows) + 1 /\ batch' = batch /\ excused' = excused
  BY DEF Close
<1>4. safe' = Len(rows)
  BY <1>1 DEF Close, Counted, ExportTypeOK
<1>5. first' \in 1..Len(rows')+1 /\ safe' \in 0..Len(rows')
  BY <1>1, <1>3, <1>4
<1>6. ExportTypeOK'
  BY <1>1, <1>2, <1>3, <1>5, NoneIsEmpty, EmptyTypes DEF ExportTypeOK
<1>7. EntriesDiffer' /\ Backed'
  BY <1>2, NoneIsEmpty DEF EntriesDiffer, Backed
<1>8. Counted' /\ QueueTypeOK'
  BY <1>1, <1>2, <1>3, <1>4 DEF Counted, QueueTypeOK, boardVars, history
<1> QED BY <1>6, <1>7, <1>8 DEF ExportInv, Types

LEMMA StoppedKeeps == ASSUME ExportInv, Stopped, UNCHANGED <<boardVars, sent>> PROVE ExportInv'
<1>1. ExportTypeOK /\ QueueTypeOK /\ Len(rows) \in Nat
  BY DEF ExportInv, Types, ExportTypeOK
<1>2. ExportTypeOK' /\ Counted'
  BY <1>1 DEF Stopped, ExportTypeOK, Counted
<1> QED BY <1>1, <1>2 DEF Stopped, ExportInv, Types, QueueTypeOK, EntriesDiffer, Backed, boardVars, history

LEMMA CrashKeeps == ASSUME ExportInv, ExportCrash, UNCHANGED <<boardVars, sent>> PROVE ExportInv'
<1>1. ExportTypeOK /\ QueueTypeOK /\ Len(rows) \in Nat
  BY DEF ExportInv, Types, ExportTypeOK
<1>2. PICK kept \in safe..Len(rows) :
        rows' = SubSeq(rows, 1, kept) /\ safe' = kept /\ first' = kept + 1
  BY DEF ExportCrash
<1>3. kept \in 0..Len(rows) /\ kept \in Nat
  BY <1>1, <1>2 DEF ExportTypeOK
<1>4. rows' \in Seq(Record) /\ Len(rows') = kept
  BY <1>1, <1>2, <1>3 DEF ExportTypeOK
<1>5. first' \in 1..Len(rows')+1 /\ safe' \in 0..Len(rows')
  BY <1>2, <1>3, <1>4
<1>6. known' = None /\ cursor' = 0 /\ unsynced' = 0 /\ failed' = FALSE /\ evicted' = FALSE
      /\ opened' = FALSE /\ batch' = <<>>
  BY DEF ExportCrash, ResetState
<1>7. excused' \subseteq Record
  BY <1>1 DEF ExportCrash, ExportTypeOK, QueueTypeOK, Range
<1>8. ExportTypeOK'
  BY <1>4, <1>5, <1>6, <1>7, NoneIsEmpty, EmptyTypes DEF ExportTypeOK
<1>9. EntriesDiffer' /\ Backed'
  BY <1>6, NoneIsEmpty DEF EntriesDiffer, Backed
<1>10. Counted' /\ QueueTypeOK'
  BY <1>1, <1>2, <1>3, <1>4, <1>6 DEF Counted, QueueTypeOK, boardVars, history
<1> QED BY <1>8, <1>9, <1>10 DEF ExportInv, Types

LEMMA FlipperKeeps == ASSUME ExportInv, Flipper PROVE ExportInv'
BY WithholdKeeps, WriteKeeps, FailureKeeps, CloseKeeps, StoppedKeeps, CrashKeeps DEF Flipper

-----------------------------------------------------------------------------
(* The steps that feed the export.                                         *)

LEMMA QueueKeeps ==
    ASSUME ExportInv, UNCHANGED exportVars, QueueTypeOK'
    PROVE  ExportInv'
BY DEF ExportInv, Types, ExportTypeOK, EntriesDiffer, Backed, Counted, IsLastRow, exportVars

LEMMA BoardQueue == ASSUME ExportInv, Board PROVE QueueTypeOK'
<1>1. QueueTypeOK /\ sent' = sent
  BY DEF ExportInv, Types, Board
<1>2. CASE \E seen \in Record : Log(seen)
  BY <1>1, <1>2 DEF QueueTypeOK, Log
<1>3. CASE ~ \E seen \in Record : Log(seen)
  <2>1. pending' = pending /\ logged' = logged
    BY <1>3 DEF Board, BoardNext, BeginPass, DiscardPass, LeaveLoop, EnterLoop, Start, Stop, Filter,
                AppendFails, history
  <2> QED BY <1>1, <2>1 DEF QueueTypeOK
<1> QED BY <1>2, <1>3

LEMMA DrainQueue == ASSUME ExportInv, Drain PROVE QueueTypeOK'
<1>1. pending \in Seq(Record) /\ sent \in Nat /\ logged' = logged /\ sent' = 0
  BY DEF ExportInv, Types, QueueTypeOK, Drain, history
<1>2. SubSeq(pending, sent + 1, Len(pending)) \in Seq(Record)
  BY <1>1
<1> QED BY <1>1, <1>2 DEF Drain, QueueTypeOK, ExportInv, Types

LEMMA DeliverKeeps == ASSUME ExportInv, NEW n \in 1..MaxBatch, Deliver(n) PROVE ExportInv'
<1>1. pending \in Seq(Record) /\ batch \in Seq(Record) /\ n \in 1..Len(pending) /\ n \in Nat
  BY BoundsAssumption DEF ExportInv, Types, QueueTypeOK, ExportTypeOK, Deliver
<1>2. SubSeq(pending, 1, n) \in Seq(Record)
  BY <1>1
<1>3. batch' \in Seq(Record)
  BY <1>1, <1>2 DEF Deliver
<1>4. ExportTypeOK' /\ QueueTypeOK'
  BY <1>1, <1>3 DEF Deliver, ExportInv, Types, ExportTypeOK, QueueTypeOK, boardVars, history
<1> QED BY <1>4 DEF Deliver, ExportInv, Types, EntriesDiffer, Backed, Counted

LEMMA ExportNext == ExportInv /\ [Next]_vars => ExportInv'
<1> SUFFICES ASSUME ExportInv, [Next]_vars PROVE ExportInv'
  OBVIOUS
<1>1. CASE Board
  BY <1>1, BoardQueue, QueueKeeps DEF Board
<1>2. CASE Flipper
  BY <1>2, FlipperKeeps
<1>3. CASE Drain
  <2>1. UNCHANGED exportVars
    BY <1>3 DEF Drain, exportVars
  <2> QED BY <1>3, <2>1, DrainQueue, QueueKeeps
<1>4. CASE \E n \in 1..MaxBatch : Deliver(n)
  BY <1>4, DeliverKeeps
<1>5. CASE Restart \/ Disconnect \/ UNCHANGED vars
  <2>1. UNCHANGED exportVars
    BY <1>5 DEF Restart, Disconnect, vars
  <2>2. QueueTypeOK'
    BY <1>5 DEF Restart, Reboot, Disconnect, vars, boardVars, history, ExportInv, Types, QueueTypeOK
  <2> QED BY <2>1, <2>2, QueueKeeps
<1> QED BY <1>1, <1>2, <1>3, <1>4, <1>5 DEF Next

-----------------------------------------------------------------------------
(* A power loss of the Flipper takes less than SyncEvery rows, and none of *)
(* a file that was closed: CrashTakesFew, however often wardriving is      *)
(* stopped and sessions end between the rows.                              *)
THEOREM FewRowsAtRisk == Spec => []CrashTakesFew
<1>1. ExportInv => CrashTakesFew
  BY ExportAssumption DEF ExportInv, Types, ExportTypeOK, Counted, CrashTakesFew
<1> QED BY ExportInitially, ExportNext, <1>1, PTL DEF Spec

(* While the file can be written, an entry of the table that withholds     *)
(* later records has its row in the file, and it is the last of its        *)
(* address in the session: KnownIsWritten.                                 *)
THEOREM WithheldForAReason == Spec => []KnownIsWritten
<1>1. ASSUME ExportInv, ~failed, NEW entry \in Range(known)
      PROVE  LET mine == {i \in first..Len(rows) : rows[i].address = entry.address}
             IN  mine # {} /\ rows[Max(mine)] = entry
  <2> DEFINE mine == {i \in first..Len(rows) : rows[i].address = entry.address}
  <2>1. first \in Nat /\ Len(rows) \in Nat
    BY <1>1 DEF ExportInv, Types, ExportTypeOK
  <2>2. IsLastRow(entry, rows, first)
    BY <1>1 DEF ExportInv, Backed, Range
  <2>3. PICK k \in first..Len(rows) : rows[k] = entry /\ \A l \in k+1 .. Len(rows) : rows[l].address # entry.address
    BY <2>2 DEF IsLastRow
  <2>4. k \in mine /\ \A l \in mine : k >= l
    BY <2>1, <2>3
  <2>5. \A m \in mine : (\A l \in mine : m >= l) => m = k
    BY <2>1, <2>4
  <2>6. Max(mine) = k
    BY <2>4, <2>5 DEF Max
  <2> QED BY <2>3, <2>4, <2>6
<1>2. ExportInv => KnownIsWritten
  BY <1>1 DEF KnownIsWritten
<1> QED BY ExportInitially, ExportNext, <1>2, PTL DEF Spec

(* The file has what the filter says was written, and keeps it but for the *)
(* rows a sync is still owed (wardriving_csv_write_record).                *)
THEOREM TheFileIsSound == Spec => []FileIsSound
<1>1. KnownIsWritten /\ CrashTakesFew => FileIsSound
  BY DEF FileIsSound
<1> QED BY <1>1, WithheldForAReason, FewRowsAtRisk, PTL

-----------------------------------------------------------------------------
(* What was logged, on its way to the file.                                *)

(* The record x of the file or of what the user was told of says what the  *)
(* filter of the export takes for r.                                       *)
Alike(r, x) == r = x \/ Repeats(r, x, ExportDistance)
Resolved(r) == r \in Range(batch) \/ \E x \in Range(rows) \cup excused : Alike(r, x)

KnownStands    == \A i \in DOMAIN known : known[i] \in Range(rows) \cup excused
PendingLogged  == \A i \in 1..Len(pending) : pending[i] \in logged
SentIsResolved == sent <= Len(pending) /\ \A i \in 1..sent : Resolved(pending[i])
NothingDropped == \A r \in logged : r \in Range(pending) \/ Resolved(r)

DeliveryInv == KnownStands /\ PendingLogged /\ SentIsResolved /\ NothingDropped

LEMMA RangeIs ==
    ASSUME NEW s \in Seq(Record)
    PROVE  \A x : x \in Range(s) <=> \E i \in 1..Len(s) : s[i] = x
BY DEF Range

LEMMA RangeOfTail ==
    ASSUME NEW s \in Seq(Record), s # <<>>
    PROVE  \A x \in Range(s) : x = Head(s) \/ x \in Range(Tail(s))
<1> SUFFICES ASSUME NEW i \in 1..Len(s), i # 1 PROVE s[i] \in Range(Tail(s))
  BY RangeIs
<1>1. Tail(s) \in Seq(Record) /\ i-1 \in 1..Len(Tail(s)) /\ Tail(s)[i-1] = s[i]
  OBVIOUS
<1> QED BY <1>1, RangeIs

LEMMA RangeOfAppend ==
    ASSUME NEW s \in Seq(Record), NEW r \in Record
    PROVE  /\ r \in Range(Append(s, r))
           /\ Range(s) \subseteq Range(Append(s, r))
           /\ Range(Append(s, r)) \subseteq Range(s) \cup {r}
<1>1. /\ Append(s, r) \in Seq(Record) /\ Len(Append(s, r)) = Len(s) + 1
      /\ Append(s, r)[Len(s) + 1] = r
      /\ \A i \in 1..Len(s) : Append(s, r)[i] = s[i]
  OBVIOUS
<1> DEFINE more == Append(s, r)
<1>2. more \in Seq(Record) /\ Len(more) = Len(s) + 1 /\ more[Len(s) + 1] = r
      /\ \A i \in 1..Len(s) : more[i] = s[i]
  BY <1>1
<1>3. Len(s) \in Nat
  OBVIOUS
<1> HIDE DEF more
<1>4. r \in Range(more)
  <2>1. Len(s) + 1 \in 1..Len(more)
    BY <1>2, <1>3
  <2> QED BY <1>2, <2>1, RangeIs
<1>5. Range(s) \subseteq Range(more)
  <2>1. \A i \in 1..Len(s) : i \in 1..Len(more)
    BY <1>2, <1>3
  <2> QED BY <1>2, <2>1, RangeIs
<1>6. ASSUME NEW x \in Range(more), x # r PROVE x \in Range(s)
  <2>1. PICK i \in 1..Len(more) : more[i] = x
    BY <1>2, RangeIs
  <2>2. i \in 1..Len(s)
    BY <1>2, <1>3, <1>6, <2>1
  <2> QED BY <1>2, <2>1, <2>2, RangeIs
<1> QED BY <1>4, <1>5, <1>6 DEF more

LEMMA AlikeItself == ASSUME NEW r \in Record PROVE Repeats(r, r, ExportDistance)
<1>1. r.rssi \in Nat /\ r.place \in Nat
  BY CaptureAssumption DEF Record
<1>2. r.rssi < r.rssi + Gain /\ Apart(r.place, r.place) < ExportDistance
  BY <1>1, CaptureAssumption, ExportAssumption DEF Apart
<1> QED BY <1>2 DEF Repeats

(* The handlers of the export forget no record of the batch and no row but *)
(* those the user is told of.                                              *)
LEMMA ResolvedStays ==
    ASSUME ExportInv, KnownStands, Flipper, NEW r \in logged, Resolved(r)
    PROVE  Resolved(r)'
<1>1. batch \in Seq(Record) /\ rows \in Seq(Record) /\ r \in Record /\ logged \subseteq Record
  BY DEF ExportInv, Types, ExportTypeOK, QueueTypeOK
<1>2. CASE Withhold
  <2>1. batch' = Tail(batch) /\ rows' = rows /\ excused' = excused /\ batch # <<>> /\ ~ShouldWrite(Head(batch))
    BY <1>2 DEF Withhold
  <2>2. CASE r = Head(batch)
    <3>1. PICK i \in DOMAIN known : Repeats(r, known[i], ExportDistance)
      BY <2>1, <2>2 DEF ShouldWrite, Held
    <3> QED BY <2>1, <3>1 DEF KnownStands, Resolved, Alike
  <2>3. CASE r \in Range(Tail(batch))
    BY <2>1, <2>3 DEF Resolved
  <2> QED BY <1>1, <2>1, <2>2, <2>3, RangeOfTail DEF Resolved
<1>3. CASE Write
  <2>1. batch' = Tail(batch) /\ rows' = Append(rows, Head(batch)) /\ excused' = excused /\ batch # <<>>
    BY <1>3 DEF Write
  <2>2. Head(batch) \in Record
    BY <1>1, <2>1
  <2>3. Head(batch) \in Range(rows') /\ Range(rows) \subseteq Range(rows')
    BY <1>1, <2>1, <2>2, RangeOfAppend
  <2> QED BY <1>1, <2>1, <2>3, RangeOfTail DEF Resolved, Alike
<1>4. CASE WriteFails \/ DropWrite
  <2>1. batch' = Tail(batch) /\ rows' = rows /\ excused' = excused \cup {Head(batch)} /\ batch # <<>>
    BY <1>4 DEF WriteFails, DropWrite
  <2> QED BY <1>1, <2>1, RangeOfTail DEF Resolved, Alike
<1>5. CASE Close \/ Stopped
  BY <1>5 DEF Close, Stopped, Resolved
<1>6. CASE ExportCrash
  <2>1. PICK kept \in safe..Len(rows) :
          /\ rows' = SubSeq(rows, 1, kept)
          /\ excused' = excused \cup Range(batch) \cup
                        {record \in logged : \E i \in kept+1..Len(rows) : Repeats(record, rows[i], ExportDistance)}
    BY <1>6 DEF ExportCrash
  <2>2. kept \in Nat /\ kept <= Len(rows)
    BY <2>1 DEF ExportInv, Types, ExportTypeOK
  <2>3. CASE r \in Range(batch) \cup excused
    BY <2>1, <2>3 DEF Resolved, Alike
  <2>4. CASE \E x \in Range(rows) : Alike(r, x)
    <3>1. PICK k \in 1..Len(rows) : Alike(r, rows[k])
      BY <1>1, <2>4, RangeIs
    <3>2. CASE k <= kept
      <4>1. rows' \in Seq(Record) /\ k \in 1..Len(rows') /\ rows'[k] = rows[k]
        BY <1>1, <2>1, <2>2, <3>2
      <4>2. rows[k] \in Range(rows')
        BY <4>1, RangeIs
      <4> QED BY <3>1, <4>2 DEF Resolved
    <3>3. CASE k > kept
      <4>1. k \in kept+1..Len(rows)
        BY <2>2, <3>3
      <4>2. Repeats(r, rows[k], ExportDistance)
        BY <1>1, <3>1, AlikeItself DEF Alike
      <4> QED BY <2>1, <4>1, <4>2 DEF Resolved, Alike
    <3> QED BY <2>2, <3>2, <3>3
  <2>5. CASE \E x \in excused : Alike(r, x)
    BY <2>1, <2>5 DEF Resolved
  <2> QED BY <2>3, <2>4, <2>5 DEF Resolved
<1> QED BY <1>2, <1>3, <1>4, <1>5, <1>6 DEF Flipper

LEMMA KnownStays == ASSUME ExportInv, KnownStands, Flipper PROVE KnownStands'
<1>1. ExportTypeOK /\ EntriesDiffer /\ rows \in Seq(Record)
  BY DEF ExportInv, Types, ExportTypeOK
<1>2. CASE Write \/ WriteFails \/ DropWrite
  <2> DEFINE record == Head(batch)
  <2>1. record \in Record /\ Taken(record)
    BY <1>1, <1>2, HeadAndTail DEF Write, WriteFails, DropWrite
  <2>2. record \in Range(rows') \cup excused' /\ Range(rows) \cup excused \subseteq Range(rows') \cup excused'
    BY <1>1, <1>2, <2>1, RangeOfAppend DEF Write, WriteFails, DropWrite
  <2>3. \A i \in DOMAIN known' : known'[i] = record \/ (i \in DOMAIN known /\ known'[i] = known[i])
    BY <1>1, <2>1, TakenKeeps
  <2> HIDE DEF record
  <2> QED BY <2>2, <2>3 DEF KnownStands
<1>3. CASE Withhold \/ Stopped
  BY <1>3 DEF Withhold, Stopped, KnownStands
<1>4. CASE Close \/ ExportCrash
  BY <1>4, NoneIsEmpty DEF Close, ExportCrash, ResetState, KnownStands
<1> QED BY <1>2, <1>3, <1>4 DEF Flipper

(* A sighting that is logged is put into the log and queued.               *)
LEMMA BoardQueues ==
    ASSUME ExportInv, Board
    PROVE  /\ UNCHANGED <<exportVars, sent>>
           /\ \/ UNCHANGED <<pending, logged>>
              \/ \E seen \in Record : pending' = Append(pending, seen) /\ logged' = logged \cup {seen}
<1>1. UNCHANGED <<exportVars, sent>>
  BY DEF Board
<1>2. CASE \E seen \in Record : Log(seen)
  BY <1>1, <1>2 DEF Log
<1>3. CASE ~ \E seen \in Record : Log(seen)
  <2>1. pending' = pending /\ logged' = logged
    BY <1>3 DEF Board, BoardNext, BeginPass, DiscardPass, LeaveLoop, EnterLoop, Start, Stop, Filter,
                AppendFails, history
  <2> QED BY <1>1, <2>1
<1> QED BY <1>2, <1>3

LEMMA BoardDelivers == ASSUME ExportInv, DeliveryInv, Board PROVE DeliveryInv'
<1>1. pending \in Seq(Record) /\ sent \in Nat /\ logged \subseteq Record /\ Len(pending) \in Nat
  BY DEF ExportInv, Types, QueueTypeOK
<1>2. UNCHANGED <<batch, rows, excused, known, sent>>
  BY BoardQueues DEF exportVars
<1>3. KnownStands'
  BY <1>2 DEF DeliveryInv, KnownStands
<1>4. \A r : Resolved(r) => Resolved(r)'
  BY <1>2 DEF Resolved
<1>5. CASE UNCHANGED <<pending, logged>>
  BY <1>2, <1>3, <1>4, <1>5 DEF DeliveryInv, PendingLogged, SentIsResolved, NothingDropped
<1>6. ASSUME NEW seen \in Record, pending' = Append(pending, seen), logged' = logged \cup {seen}
      PROVE  DeliveryInv'
  <2>1. /\ Len(pending') = Len(pending) + 1 /\ pending'[Len(pending) + 1] = seen
        /\ \A i \in 1..Len(pending) : pending'[i] = pending[i]
    BY <1>1, <1>6
  <2>2. \A i \in 1..Len(pending') : i \in 1..Len(pending) \/ i = Len(pending) + 1
    BY <1>1, <2>1
  <2>3. PendingLogged'
    BY <1>6, <2>1, <2>2 DEF DeliveryInv, PendingLogged
  <2>4. sent' <= Len(pending') /\ \A i \in 1..sent : i \in 1..Len(pending)
    BY <1>1, <1>2, <2>1 DEF DeliveryInv, SentIsResolved
  <2>5. SentIsResolved'
    BY <1>2, <1>4, <2>1, <2>4 DEF DeliveryInv, SentIsResolved
  <2>6. Range(pending) \subseteq Range(pending') /\ seen \in Range(pending')
    BY <1>1, <1>6, RangeOfAppend
  <2>7. NothingDropped'
    BY <1>4, <1>6, <2>6 DEF DeliveryInv, NothingDropped
  <2> QED BY <1>3, <2>3, <2>5, <2>7 DEF DeliveryInv
<1> QED BY <1>5, <1>6, BoardQueues

LEMMA FlipperDelivers == ASSUME ExportInv, DeliveryInv, Flipper PROVE DeliveryInv'
<1>1. UNCHANGED <<pending, logged, sent>>
  BY DEF Flipper, boardVars, history
<1>2. KnownStands'
  BY KnownStays DEF DeliveryInv
<1>3. \A r \in logged : Resolved(r) => Resolved(r)'
  BY ResolvedStays DEF DeliveryInv
<1>4. \A i \in 1..sent : i \in 1..Len(pending)
  BY DEF DeliveryInv, SentIsResolved, ExportInv, Types, QueueTypeOK
<1> QED BY <1>1, <1>2, <1>3, <1>4 DEF DeliveryInv, PendingLogged, SentIsResolved, NothingDropped

(* The records of a batch that is delivered are the first ones that are    *)
(* pending, and the Flipper has them now.                                  *)
LEMMA DeliverDelivers ==
    ASSUME ExportInv, DeliveryInv, NEW n \in 1..MaxBatch, Deliver(n)
    PROVE  DeliveryInv'
<1>1. pending \in Seq(Record) /\ batch \in Seq(Record) /\ n \in 1..Len(pending) /\ n \in Nat /\ Len(pending) \in Nat
  BY BoundsAssumption DEF ExportInv, Types, QueueTypeOK, ExportTypeOK, Deliver
<1>2. SubSeq(pending, 1, n) \in Seq(Record) /\ Len(SubSeq(pending, 1, n)) = n
      /\ \A i \in 1..n : SubSeq(pending, 1, n)[i] = pending[i]
  BY <1>1
<1> DEFINE part == SubSeq(pending, 1, n)
<1>3. part \in Seq(Record) /\ Len(part) = n /\ \A i \in 1..n : part[i] = pending[i]
  BY <1>2
<1>4. batch' = batch \o part /\ sent' = n
  BY DEF Deliver
<1> HIDE DEF part
<1>5. UNCHANGED <<pending, logged, known, rows, excused>>
  BY DEF Deliver, boardVars, history
<1>6. /\ batch' \in Seq(Record) /\ Len(batch') = Len(batch) + n /\ Len(batch) \in Nat
      /\ \A i \in 1..Len(batch) : batch'[i] = batch[i]
      /\ \A i \in 1..n : batch'[Len(batch) + i] = part[i]
  <2>1. /\ batch' \in Seq(Record) /\ Len(batch') = Len(batch) + n
        /\ \A i \in 1 .. Len(batch) + n :
              batch'[i] = IF i <= Len(batch) THEN batch[i] ELSE part[i - Len(batch)]
    <3>1. batch \in Seq(Record) /\ part \in Seq(Record)
      BY <1>1, <1>3
    <3>2. /\ batch \o part \in Seq(Record) /\ Len(batch \o part) = Len(batch) + Len(part)
          /\ \A i \in 1 .. Len(batch) + Len(part) :
                (batch \o part)[i] = IF i <= Len(batch) THEN batch[i] ELSE part[i - Len(batch)]
      BY <3>1, ConcatProperties
    <3> QED BY <1>3, <1>4, <3>2
  <2>2. Len(batch) \in Nat
    BY <1>1
  <2>3. \A i \in 1..Len(batch) : i \in 1 .. Len(batch) + n /\ i <= Len(batch)
    BY <1>1, <2>2
  <2>4. \A i \in 1..n : /\ Len(batch) + i \in 1 .. Len(batch) + n /\ ~(Len(batch) + i <= Len(batch))
                        /\ (Len(batch) + i) - Len(batch) = i
    BY <1>1, <2>2
  <2> QED BY <2>1, <2>2, <2>3, <2>4
<1>7. Range(batch) \subseteq Range(batch')
  <2>1. \A i \in 1..Len(batch) : i \in 1..Len(batch')
    BY <1>1, <1>6
  <2> QED BY <1>1, <1>6, <2>1, RangeIs
<1>8. \A i \in 1..n : pending[i] \in Range(batch')
  <2>1. \A i \in 1..n : Len(batch) + i \in 1..Len(batch')
    BY <1>1, <1>6
  <2> QED BY <1>3, <1>6, <2>1, RangeIs
<1>9. \A r : Resolved(r) => Resolved(r)'
  BY <1>5, <1>7 DEF Resolved
<1>10. SentIsResolved'
  <2>1. sent' <= Len(pending')
    BY <1>1, <1>4, <1>5
  <2> QED BY <1>4, <1>5, <1>8, <2>1 DEF SentIsResolved, Resolved
<1> QED BY <1>5, <1>9, <1>10 DEF DeliveryInv, KnownStands, PendingLogged, NothingDropped

(* What the drain gives up was delivered.                                  *)
LEMMA DrainDelivers == ASSUME ExportInv, DeliveryInv, Drain PROVE DeliveryInv'
<1>1. pending \in Seq(Record) /\ sent \in Nat /\ Len(pending) \in Nat /\ sent <= Len(pending)
  BY DEF ExportInv, Types, QueueTypeOK, DeliveryInv, SentIsResolved
<1> DEFINE rest == SubSeq(pending, sent + 1, Len(pending))
<1>2. rest \in Seq(Record) /\ Len(rest) = Len(pending) - sent
      /\ \A i \in 1..Len(rest) : rest[i] = pending[sent + i]
  BY <1>1
<1>3. pending' = rest /\ sent' = 0
  BY DEF Drain
<1> HIDE DEF rest
<1>4. UNCHANGED <<logged, known, rows, excused, batch>>
  BY DEF Drain, history, exportVars
<1>5. \A r : Resolved(r) => Resolved(r)'
  BY <1>4 DEF Resolved
<1>6. PendingLogged'
  <2>1. \A i \in 1..Len(rest) : sent + i \in 1..Len(pending)
    BY <1>1, <1>2
  <2> QED BY <1>2, <1>3, <1>4, <2>1 DEF DeliveryInv, PendingLogged
<1>7. SentIsResolved'
  BY <1>2, <1>3 DEF SentIsResolved
<1>8. NothingDropped'
  <2> SUFFICES ASSUME NEW r \in logged, r \in Range(pending) PROVE r \in Range(rest) \/ Resolved(r)
    BY <1>3, <1>4, <1>5 DEF DeliveryInv, NothingDropped
  <2>1. PICK i \in 1..Len(pending) : pending[i] = r
    BY <1>1, RangeIs
  <2>2. CASE i <= sent
    <3>1. i \in 1..sent
      BY <1>1, <2>2
    <3> QED BY <2>1, <3>1 DEF DeliveryInv, SentIsResolved
  <2>3. CASE i > sent
    <3>1. i - sent \in 1..Len(rest) /\ sent + (i - sent) = i
      BY <1>1, <1>2, <2>3
    <3>2. rest[i - sent] = r
      BY <1>2, <2>1, <3>1
    <3> QED BY <1>2, <3>1, <3>2, RangeIs
  <2> QED BY <1>1, <2>2, <2>3
<1> QED BY <1>4, <1>6, <1>7, <1>8 DEF DeliveryInv, KnownStands

LEMMA DeliveryInitially == Init => DeliveryInv
<1> SUFFICES ASSUME Init PROVE DeliveryInv
  OBVIOUS
<1>1. pending = <<>> /\ logged = {} /\ sent = 0 /\ DOMAIN known = {}
  BY NoneIsEmpty DEF Init, BoardInit, ExportInit
<1> QED BY <1>1 DEF DeliveryInv, KnownStands, PendingLogged, SentIsResolved, NothingDropped

LEMMA DeliveryNext == ExportInv /\ DeliveryInv /\ [Next]_vars => DeliveryInv'
<1> SUFFICES ASSUME ExportInv, DeliveryInv, [Next]_vars PROVE DeliveryInv'
  OBVIOUS
<1>1. CASE Restart \/ Disconnect \/ UNCHANGED vars
  <2>1. UNCHANGED <<pending, logged, known, rows, excused, batch>>
    BY <1>1 DEF Restart, Reboot, Disconnect, vars, boardVars, exportVars, history
  <2>2. sent' = 0 \/ sent' = sent
    BY <1>1 DEF Restart, Disconnect, vars
  <2>3. SentIsResolved'
    <3>1. Len(pending) \in Nat
      BY DEF ExportInv, Types, QueueTypeOK
    <3>2. CASE sent' = 0
      BY <2>1, <3>1, <3>2 DEF SentIsResolved
    <3>3. CASE sent' = sent
      BY <2>1, <3>3 DEF SentIsResolved, Resolved, DeliveryInv
    <3> QED BY <2>2, <3>2, <3>3
  <2> QED BY <2>1, <2>3 DEF DeliveryInv, KnownStands, PendingLogged, NothingDropped, Resolved
<1> QED BY <1>1, BoardDelivers, FlipperDelivers, DrainDelivers, DeliverDelivers DEF Next

(* What one filter took for a repetition of a record that the other took   *)
(* for a repetition of x is still stood for by x.                          *)
LEMMA BothFilters ==
    ASSUME NEW seen \in Record, NEW r \in Record, NEW x \in Record,
           seen = r \/ Repeats(seen, r, Distance), Alike(r, x)
    PROVE  StandsFor(x, seen)
<1>1. /\ seen.rssi \in Nat /\ r.rssi \in Nat /\ x.rssi \in Nat
      /\ seen.place \in Nat /\ r.place \in Nat /\ x.place \in Nat
      /\ Gain \in Nat \ {0} /\ Distance \in Nat \ {0} /\ ExportDistance \in Nat \ {0}
  BY CaptureAssumption, ExportAssumption DEF Record
<1>2. /\ seen.address = r.address /\ seen.rssi <= r.rssi + Gain - 1
      /\ Apart(seen.place, r.place) <= Distance - 1
  BY <1>1 DEF Repeats, Apart
<1>3. /\ r.address = x.address /\ r.rssi <= x.rssi + Gain - 1
      /\ Apart(r.place, x.place) <= ExportDistance - 1
  BY <1>1 DEF Alike, Repeats, Apart
<1>4. seen.rssi < x.rssi + 2 * Gain - 1
  BY <1>1, <1>2, <1>3
<1>5. Apart(seen.place, x.place) < Distance + ExportDistance - 1
  BY <1>1, <1>2, <1>3 DEF Apart
<1> QED BY <1>2, <1>3, <1>4, <1>5 DEF StandsFor

(* What the user is owed: NothingMissing.  Every sighting that was not     *)
(* refused by the flash is in the log, on its way, or stands in the file   *)
(* with a row like it, for any two filters and all their ways to forget.   *)
THEOREM EverySightingIsStoodFor == Spec => []NothingMissing
<1>1. ASSUME FilterInv, ExportInv, DeliveryInv PROVE NothingMissing
  <2>1. /\ pending \in Seq(Record) /\ batch \in Seq(Record) /\ rows \in Seq(Record)
        /\ excused \subseteq Record /\ logged \subseteq Record
    BY <1>1 DEF ExportInv, Types, QueueTypeOK, ExportTypeOK
  <2> DEFINE kept == Range(pending) \cup Range(batch) \cup Range(rows) \cup excused
  <2>2. kept \subseteq Record
    BY <2>1 DEF Range
  <2>3. \A r \in logged : \E x \in kept : Alike(r, x)
    <3> SUFFICES ASSUME NEW r \in logged PROVE \E x \in kept : Alike(r, x)
      OBVIOUS
    <3>1. CASE r \in Range(pending) \cup Range(batch)
      BY <3>1 DEF Alike
    <3>2. CASE \E x \in Range(rows) \cup excused : Alike(r, x)
      BY <3>2
    <3> QED BY <1>1, <3>1, <3>2 DEF DeliveryInv, NothingDropped, Resolved
  <2>4. \A seen \in logged \cup filtered : \E r \in logged : seen = r \/ Repeats(seen, r, Distance)
    BY <1>1 DEF FilterInv, FilteredIsLogged
  <2>5. filtered \subseteq Record
    BY <1>1 DEF FilterInv
  <2> HIDE DEF kept
  <2>6. ASSUME NEW seen \in logged \cup filtered PROVE \E x \in kept : StandsFor(x, seen)
    <3>1. PICK r \in logged : seen = r \/ Repeats(seen, r, Distance)
      BY <2>4
    <3>2. PICK x \in kept : Alike(r, x)
      BY <2>3
    <3>3. seen \in Record /\ r \in Record /\ x \in Record
      BY <2>1, <2>2, <2>5
    <3> QED BY <3>1, <3>2, <3>3, BothFilters
  <2> QED BY <2>6 DEF NothingMissing, kept
<1>2. Init => FilterInv /\ ExportInv /\ DeliveryInv
  BY FilterInit, ExportInitially, DeliveryInitially
<1>3. FilterInv /\ ExportInv /\ DeliveryInv /\ [Next]_vars => FilterInv' /\ ExportInv' /\ DeliveryInv'
  BY FilterNext, ExportNext, DeliveryNext
<1> QED BY <1>1, <1>2, <1>3, PTL DEF Spec

-----------------------------------------------------------------------------
(* The board's table.                                                      *)

\* The least of some numbers, by the well-foundedness of < on them.
NatLess == OpToRel(<, Nat)

LEMMA NatLessIs == \A k, m \in Nat : k < m => <<k, m>> \in NatLess
BY DEF NatLess, OpToRel

LEMMA NatLessWF == IsWellFoundedOn(NatLess, Nat)
BY NatLessThanWellFounded DEF NatLess

LEMMA Least ==
    ASSUME NEW T \in SUBSET Nat, T # {}
    PROVE  \E m \in T : \A k \in T : m <= k
<1>1. PICK m \in T : \A k \in T : ~ <<k, m>> \in NatLess
  BY NatLessWF, WFMin
<1>2. ASSUME NEW k \in T PROVE m <= k
  <2>1. k \in Nat /\ m \in Nat
    OBVIOUS
  <2>2. ~(k < m)
    <3> SUFFICES ASSUME k < m PROVE FALSE
      OBVIOUS
    <3>1. <<k, m>> \in NatLess
      BY <2>1, NatLessIs
    <3> QED BY <1>1, <3>1, Zenon
  <2> QED BY <2>1, <2>2
<1> QED BY <1>2

\* The probe of an address comes by every slot.
LEMMA ModIs ==
    ASSUME NEW S \in Nat \ {0}, NEW q \in Nat, NEW r \in 0..S-1
    PROVE  (q*S + r) % S = r
OBVIOUS

LEMMA DivMod ==
    ASSUME NEW S \in Nat \ {0}, NEW a \in Nat
    PROVE  a = (a \div S)*S + (a % S) /\ a % S \in 0..S-1 /\ a \div S \in Nat
OBVIOUS

LEMMA Onto ==
    ASSUME NEW S \in Nat \ {0}, NEW a \in Nat, NEW f \in 0..S-1
    PROVE  \E i \in 0..S-1 : (a + i) % S = f
<1> DEFINE q == a \div S
           r == a % S
<1>1. a = q*S + r /\ r \in 0..S-1 /\ q \in Nat
  BY DivMod
<1> HIDE DEF q, r
<1>2. CASE f >= r
  <2>1. a + (f - r) = q*S + f
    BY <1>1
  <2>2. (a + (f - r)) % S = f
    BY <1>1, <2>1, ModIs
  <2>3. f - r \in 0..S-1
    BY <1>1, <1>2
  <2> QED BY <2>2, <2>3
<1>3. CASE f < r
  <2>1. a + (f - r + S) = (q+1)*S + f
    BY <1>1
  <2>2. (a + (f - r + S)) % S = f
    BY <1>1, <2>1, ModIs
  <2>3. f - r + S \in 0..S-1
    BY <1>1, <1>3
  <2> QED BY <2>2, <2>3
<1> QED BY <1>1, <1>2, <1>3

(* An entry stands where the probe of its address leads, past slots that   *)
(* are all in use; it is the record logged last; and until the table has   *)
(* been full, no address is forgotten.                                     *)
InItsPlace ==
    \A s \in DOMAIN table :
        \E k \in 0..Slots-1 :
            /\ s = Slot(table[s].address, k)
            /\ \A i \in 0..k-1 : Slot(table[s].address, i) \in DOMAIN table
SlotsDiffer == \A i, j \in DOMAIN table : table[i].address = table[j].address => i = j
SlotIsLast ==
    \A s \in DOMAIN table :
        table[s].address \in DOMAIN recent /\ table[s] = recent[table[s].address]
NoneForgotten ==
    ~crowded => \A a \in DOMAIN recent : \E s \in DOMAIN table : table[s].address = a
SlotTypeOK ==
    /\ DOMAIN table \subseteq 0..Slots-1
    /\ \A s \in DOMAIN table : table[s] \in Record

TableInv == SlotTypeOK /\ InItsPlace /\ SlotsDiffer /\ SlotIsLast /\ NoneForgotten

Stops(address) == {i \in 0..Slots-1 : \/ Slot(address, i) \notin DOMAIN table
                                      \/ table[Slot(address, i)].address = address}

LEMMA SlotIs ==
    ASSUME NEW a \in Addresses, NEW i \in 0..Slots-1
    PROVE  Slot(a, i) \in 0..Slots-1
<1>1. a + i \in Nat
  BY CaptureAssumption DEF Addresses
<1> QED BY <1>1, DivMod, CaptureAssumption DEF Slot

\* Where the probe ends.
LEMMA ProbeEnds ==
    ASSUME NEW a \in Addresses
    PROVE  \E m \in 0..Slots-1 :
              /\ FindSlot(a) = Slot(a, m)
              /\ \A i \in 0..m-1 : Slot(a, i) \in DOMAIN table /\ table[Slot(a, i)].address # a
              /\ Stops(a) # {} => m \in Stops(a)
<1>1. Slots \in Nat \ {0}
  BY CaptureAssumption
<1>2. CASE Stops(a) = {}
  <2>1. FindSlot(a) = Slot(a, 0)
    BY <1>2 DEF FindSlot, Stops
  <2>2. 0 \in 0..Slots-1 /\ 0..0-1 = {}
    BY <1>1
  <2> QED BY <1>2, <2>1, <2>2
<1>3. CASE Stops(a) # {}
  <2>1. Stops(a) \in SUBSET Nat /\ Stops(a) \subseteq 0..Slots-1
    BY <1>1 DEF Stops
  <2>2. PICK m \in Stops(a) : \A k \in Stops(a) : m <= k
    BY <1>3, <2>1, Least
  <2>3. \A x \in Stops(a) : (\A k \in Stops(a) : x <= k) => x = m
    BY <2>1, <2>2
  <2>4. Min(Stops(a)) = m
    BY <2>2, <2>3 DEF Min
  <2>5. FindSlot(a) = Slot(a, m)
    BY <1>3, <2>4 DEF FindSlot, Stops
  <2>6. ASSUME NEW i \in 0..m-1 PROVE Slot(a, i) \in DOMAIN table /\ table[Slot(a, i)].address # a
    <3>1. i \in 0..Slots-1 /\ ~(m <= i)
      BY <1>1, <2>1
    <3>2. i \notin Stops(a)
      BY <2>2, <3>1
    <3> QED BY <3>1, <3>2 DEF Stops
  <2> QED BY <2>1, <2>5, <2>6
<1> QED BY <1>2, <1>3

(* find_slot finds an address that is in the table.                        *)
LEMMA Found ==
    ASSUME TableInv, NEW s \in DOMAIN table
    PROVE  FindSlot(table[s].address) = s
<1> DEFINE a == table[s].address
<1>1. a \in Addresses
  BY DEF TableInv, SlotTypeOK, Record
<1>2. PICK k \in 0..Slots-1 : s = Slot(a, k) /\ \A i \in 0..k-1 : Slot(a, i) \in DOMAIN table
  BY DEF TableInv, InItsPlace
<1>3. a = table[s].address
  OBVIOUS
<1> HIDE DEF a
<1>4. PICK m \in 0..Slots-1 :
        /\ FindSlot(a) = Slot(a, m)
        /\ \A i \in 0..m-1 : Slot(a, i) \in DOMAIN table /\ table[Slot(a, i)].address # a
        /\ Stops(a) # {} => m \in Stops(a)
  BY <1>1, ProbeEnds
<1>5. k \in Nat /\ m \in Nat
  BY CaptureAssumption
<1>6. k \in Stops(a)
  BY <1>2, <1>3 DEF Stops
<1>7. ~(k < m)
  <2> SUFFICES ASSUME k < m PROVE FALSE
    OBVIOUS
  <2>1. k \in 0..m-1
    BY <1>5
  <2> QED BY <1>2, <1>3, <1>4, <2>1
<1>8. CASE m < k
  <2>1. m \in 0..k-1
    BY <1>5, <1>8
  <2>2. Slot(a, m) \in DOMAIN table /\ m \in Stops(a)
    BY <1>2, <1>4, <1>6, <2>1
  <2>3. table[Slot(a, m)].address = a
    BY <2>2 DEF Stops
  <2>4. Slot(a, m) = s
    BY <1>3, <2>2, <2>3 DEF TableInv, SlotsDiffer
  <2> QED BY <1>3, <1>4, <2>4
<1>9. CASE m = k
  BY <1>2, <1>3, <1>4, <1>9
<1> QED BY <1>5, <1>7, <1>8, <1>9

(* A table that is not full has a place for every address.                 *)
LEMMA FreeSlot ==
    ASSUME SlotTypeOK, Cardinality(DOMAIN table) # Slots, NEW a \in Addresses
    PROVE  Stops(a) # {}
<1>1. Slots \in Nat \ {0} /\ a \in Nat
  BY CaptureAssumption DEF Addresses
<1>2. Cardinality(0..Slots-1) = Slots
  <2>1. Cardinality(0..Slots-1) = IF 0 > Slots-1 THEN 0 ELSE (Slots-1) - 0 + 1
    BY <1>1, FS_Interval
  <2> QED BY <1>1, <2>1
<1>3. DOMAIN table # 0..Slots-1
  BY <1>2
<1>4. PICK f \in 0..Slots-1 : f \notin DOMAIN table
  BY <1>3 DEF SlotTypeOK
<1>5. PICK i \in 0..Slots-1 : (a + i) % Slots = f
  BY <1>1, Onto
<1>6. i \in Stops(a)
  BY <1>4, <1>5 DEF Stops, Slot
<1> QED BY <1>6

LEMMA LogKeepsTable ==
    ASSUME TableInv, crowded \in BOOLEAN, NEW seen \in Record, Log(seen)
    PROVE  TableInv'
<1> DEFINE a == seen.address
           f == FindSlot(a)
<1>1. a \in Addresses
  BY DEF Record
<1>2. PICK m \in 0..Slots-1 :
        /\ f = Slot(a, m)
        /\ \A i \in 0..m-1 : Slot(a, i) \in DOMAIN table /\ table[Slot(a, i)].address # a
        /\ Stops(a) # {} => m \in Stops(a)
  BY <1>1, ProbeEnds
<1>3. /\ DOMAIN table' = DOMAIN table \cup {f} /\ table'[f] = seen
      /\ \A j \in DOMAIN table : j # f => table'[j] = table[j]
  BY DEF Log, Remembered, With
<1>4. /\ DOMAIN recent' = DOMAIN recent \cup {a} /\ recent'[a] = seen
      /\ \A b \in DOMAIN recent : b # a => recent'[b] = recent[b]
  BY DEF Log, With
<1>5. \A j \in DOMAIN table : j # f => table[j].address # a
  BY Found
<1>6. crowded' = (crowded \/ Cardinality(DOMAIN table) = Slots)
  BY DEF Log
<1>7. f \in 0..Slots-1
  BY <1>1, <1>2, SlotIs
<1>8. a = seen.address
  OBVIOUS
<1> HIDE DEF a, f
<1>9. \A j \in DOMAIN table' : (j = f /\ table'[j] = seen) \/ (j # f /\ j \in DOMAIN table /\ table'[j] = table[j])
  BY <1>3
<1>10. SlotTypeOK'
  BY <1>3, <1>7, <1>9 DEF TableInv, SlotTypeOK
<1>11. InItsPlace'
  <2> SUFFICES ASSUME NEW j \in DOMAIN table'
               PROVE  \E k \in 0..Slots-1 :
                         /\ j = Slot(table'[j].address, k)
                         /\ \A i \in 0..k-1 : Slot(table'[j].address, i) \in DOMAIN table'
    BY DEF InItsPlace, Slot
  <2>1. CASE j = f
    BY <1>2, <1>3, <1>8, <2>1
  <2>2. CASE j # f
    BY <1>3, <1>9, <2>2 DEF TableInv, InItsPlace
  <2> QED BY <2>1, <2>2
<1>12. SlotsDiffer'
  BY <1>5, <1>8, <1>9 DEF TableInv, SlotsDiffer
<1>13. SlotIsLast'
  <2> SUFFICES ASSUME NEW j \in DOMAIN table'
               PROVE  table'[j].address \in DOMAIN recent' /\ table'[j] = recent'[table'[j].address]
    BY DEF SlotIsLast
  <2>1. CASE j = f
    BY <1>3, <1>4, <1>8, <2>1
  <2>2. CASE j # f
    <3>1. j \in DOMAIN table /\ table'[j] = table[j] /\ table[j].address # a
      BY <1>5, <1>9, <2>2
    <3> QED BY <1>4, <3>1 DEF TableInv, SlotIsLast
  <2> QED BY <2>1, <2>2
<1>14. NoneForgotten'
  <2> SUFFICES ASSUME ~crowded', NEW b \in DOMAIN recent'
               PROVE  \E j \in DOMAIN table' : table'[j].address = b
    BY DEF NoneForgotten
  <2>1. ~crowded /\ Cardinality(DOMAIN table) # Slots
    BY <1>6
  <2>2. m \in Stops(a)
    BY <1>1, <1>2, <2>1, FreeSlot DEF TableInv
  <2>3. f \notin DOMAIN table \/ table[f].address = a
    BY <1>2, <2>2 DEF Stops
  <2>4. CASE b = a
    BY <1>3, <1>8, <2>4
  <2>5. CASE b # a
    <3>1. PICK s \in DOMAIN table : table[s].address = b
      BY <1>4, <2>1, <2>5 DEF TableInv, NoneForgotten
    <3>2. s # f
      BY <2>3, <2>5, <3>1
    <3> QED BY <1>3, <3>1, <3>2
  <2> QED BY <2>4, <2>5
<1> QED BY <1>10, <1>11, <1>12, <1>13, <1>14 DEF TableInv

(* The table remembers the last, wherever its entries came from:           *)
(* RemembersTheLast.                                                       *)
LEMMA TableRemembers == ASSUME TableInv PROVE RemembersTheLast
<1>1. Range(table) \subseteq Range(recent)
  BY DEF TableInv, SlotIsLast, Range
<1>2. ASSUME ~crowded, NEW a \in DOMAIN recent
      PROVE  Existing(a) /\ table[FindSlot(a)] = recent[a]
  <2>1. PICK s \in DOMAIN table : table[s].address = a
    BY <1>2 DEF TableInv, NoneForgotten
  <2>2. FindSlot(a) = s
    BY <2>1, Found
  <2> QED BY <2>1, <2>2 DEF Existing, TableInv, SlotIsLast
<1> QED BY <1>1, <1>2 DEF RemembersTheLast, TableInv, SlotsDiffer

-----------------------------------------------------------------------------
(* The board's types.                                                      *)

PassTypeOK  == pass \in [step : {"none", "air", "loop"}, place : Places, seen : SUBSET Addresses]
StateTypeOK ==
    /\ running \in BOOLEAN /\ crowded \in BOOLEAN
    /\ failures \in 0..FailureLimit /\ left \in 0..MaxSightings
    /\ about \in BOOLEAN /\ sent \in 0..MaxBatch /\ events \in 0..MaxEvents
RecentTypeOK ==
    /\ DOMAIN recent \subseteq Addresses
    /\ \A a \in DOMAIN recent : recent[a] \in logged

BoardInv == PassTypeOK /\ StateTypeOK /\ RecentTypeOK /\ TableInv

LEMMA PassIs ==
    /\ NoPass \in [step : {"none", "air", "loop"}, place : Places, seen : SUBSET Addresses]
    /\ [NoPass EXCEPT !.step = "air"] \in
          [step : {"none", "air", "loop"}, place : Places, seen : SUBSET Addresses]
BY CaptureAssumption DEF NoPass

LEMMA BoardInitially == Init => BoardInv
<1> SUFFICES ASSUME Init PROVE BoardInv
  OBVIOUS
<1>1. PassTypeOK
  BY PassIs DEF Init, BoardInit, PassTypeOK
<1>2. StateTypeOK
  <2>1. MaxExported \in 0..MaxSightings /\ MaxSightings \in 0..MaxSightings /\ 0 \in 0..FailureLimit
        /\ 0 \in 0..MaxBatch /\ 0 \in 0..MaxEvents
    BY CaptureAssumption, BoundsAssumption
  <2> QED BY <2>1 DEF Init, BoardInit, StateTypeOK
<1>3. DOMAIN table = {} /\ DOMAIN recent = {}
  BY NoneIsEmpty DEF Init, BoardInit
<1>4. RecentTypeOK /\ TableInv
  BY <1>3 DEF RecentTypeOK, TableInv, SlotTypeOK, InItsPlace, SlotsDiffer, SlotIsLast, NoneForgotten
<1> QED BY <1>1, <1>2, <1>4 DEF BoardInv

LEMMA SightedTypes ==
    ASSUME BoardInv, NEW seen \in Record, Sighted(seen)
    PROVE  left' \in 0..MaxSightings /\ (SeenNow(seen) => PassTypeOK')
<1>1. left \in 0..MaxSightings /\ MaxSightings \in Nat
  BY CaptureAssumption DEF BoardInv, StateTypeOK
<1>2. left' \in 0..MaxSightings
  BY <1>1 DEF Sighted
<1>3. seen.address \in Addresses
  BY DEF Record
<1>4. SeenNow(seen) => PassTypeOK'
  BY <1>3 DEF BoardInv, PassTypeOK, SeenNow
<1> QED BY <1>2, <1>4

LEMMA LogKeeps == ASSUME BoardInv, NEW seen \in Record, Log(seen), UNCHANGED <<about, sent, events>> PROVE BoardInv'
<1>1. PassTypeOK' /\ left' \in 0..MaxSightings
  BY SightedTypes DEF Log
<1>2. StateTypeOK'
  <2>1. 0 \in 0..FailureLimit
    BY CaptureAssumption
  <2>2. crowded' \in BOOLEAN
    BY DEF Log, BoardInv, StateTypeOK
  <2> QED BY <1>1, <2>1, <2>2 DEF Log, BoardInv, StateTypeOK
<1>3. RecentTypeOK'
  <2>1. DOMAIN recent' = DOMAIN recent \cup {seen.address}
        /\ \A a \in DOMAIN recent' : recent'[a] = seen \/ (a \in DOMAIN recent /\ recent'[a] = recent[a])
    BY DEF Log, With
  <2>2. seen.address \in Addresses /\ logged' = logged \cup {seen}
    BY DEF Log, Record
  <2> QED BY <2>1, <2>2 DEF BoardInv, RecentTypeOK
<1>4. TableInv'
  BY LogKeepsTable DEF BoardInv, StateTypeOK
<1> QED BY <1>1, <1>2, <1>3, <1>4 DEF BoardInv

LEMMA SameTable == ASSUME TableInv, UNCHANGED <<table, recent, crowded>> PROVE TableInv'
BY DEF TableInv, SlotTypeOK, InItsPlace, SlotsDiffer, SlotIsLast, NoneForgotten, Slot

LEMMA AppendFailsKeeps ==
    ASSUME BoardInv, NEW seen \in Record, AppendFails(seen), UNCHANGED <<about, sent, events>>
    PROVE  BoardInv'
<1>1. left' \in 0..MaxSightings /\ (SeenNow(seen) => PassTypeOK')
  BY SightedTypes DEF AppendFails
<1>2. PassTypeOK' /\ running' \in BOOLEAN
  BY <1>1, PassIs DEF AppendFails, BoardInv, PassTypeOK, StateTypeOK
<1>3. failures' \in 0..FailureLimit
  <2>1. failures \in 0..FailureLimit /\ FailureLimit \in Nat
    BY CaptureAssumption DEF BoardInv, StateTypeOK
  <2> QED BY <2>1 DEF AppendFails
<1>4. UNCHANGED <<table, recent, crowded, logged>>
  BY DEF AppendFails, AfterFailure
<1>5. StateTypeOK' /\ RecentTypeOK'
  BY <1>1, <1>2, <1>3, <1>4 DEF BoardInv, StateTypeOK, RecentTypeOK
<1>6. TableInv'
  BY <1>4, SameTable DEF BoardInv
<1> QED BY <1>2, <1>5, <1>6 DEF BoardInv

LEMMA FilterKeeps ==
    ASSUME BoardInv, NEW seen \in Record, Filter(seen), UNCHANGED <<about, sent, events>>
    PROVE  BoardInv'
<1>1. PassTypeOK' /\ left' \in 0..MaxSightings
  BY SightedTypes DEF Filter
<1>2. UNCHANGED <<table, recent, crowded, logged, running>> /\ failures' = 0 /\ 0 \in 0..FailureLimit
  BY CaptureAssumption DEF Filter
<1>3. TableInv'
  BY <1>2, SameTable DEF BoardInv
<1> QED BY <1>1, <1>2, <1>3 DEF BoardInv, StateTypeOK, RecentTypeOK

LEMMA BoardKeeps == ASSUME BoardInv, Board PROVE BoardInv'
<1>1. UNCHANGED <<about, sent, events>>
  BY DEF Board
<1>2. CASE \E seen \in Record : Filter(seen) \/ Log(seen) \/ AppendFails(seen)
  BY <1>1, <1>2, FilterKeeps, LogKeeps, AppendFailsKeeps
<1>3. CASE BeginPass \/ DiscardPass \/ LeaveLoop \/ (\E place \in Places : EnterLoop(place)) \/ Start \/ Stop
  <2>1. UNCHANGED <<table, failures, logged, recent, crowded, left>>
    BY <1>3 DEF BeginPass, DiscardPass, LeaveLoop, EnterLoop, Start, Stop, history
  <2>2. TableInv'
    BY <2>1, SameTable DEF BoardInv
  <2>3. PassTypeOK'
    BY <1>3, PassIs DEF BeginPass, DiscardPass, LeaveLoop, EnterLoop, Start, Stop, BoardInv, PassTypeOK
  <2>4. running' \in BOOLEAN
    BY <1>3 DEF BeginPass, DiscardPass, LeaveLoop, EnterLoop, Start, Stop, BoardInv, StateTypeOK
  <2> QED BY <1>1, <2>1, <2>2, <2>3, <2>4 DEF BoardInv, StateTypeOK, RecentTypeOK
<1> QED BY <1>2, <1>3 DEF Board, BoardNext

LEMMA BoardInvNext == BoardInv /\ [Next]_vars => BoardInv'
<1> SUFFICES ASSUME BoardInv, [Next]_vars PROVE BoardInv'
  OBVIOUS
<1>1. CASE Board
  BY <1>1, BoardKeeps
<1>2. CASE Restart
  <2>1. DOMAIN table' = {} /\ DOMAIN recent' = {} /\ crowded' = FALSE
    BY <1>2, NoneIsEmpty DEF Restart, Reboot
  <2>2. TableInv' /\ RecentTypeOK'
    BY <2>1 DEF RecentTypeOK, TableInv, SlotTypeOK, InItsPlace, SlotsDiffer, SlotIsLast, NoneForgotten
  <2>3. PassTypeOK'
    BY <1>2, PassIs DEF Restart, Reboot, PassTypeOK
  <2>4. events' \in 0..MaxEvents
    <3>1. events \in 0..MaxEvents /\ events < MaxEvents /\ events' = events + 1 /\ MaxEvents \in Nat
      BY <1>2, BoundsAssumption DEF Restart, Event, BoardInv, StateTypeOK
    <3> QED BY <3>1
  <2>5. 0 \in 0..FailureLimit /\ 0 \in 0..MaxBatch
    BY CaptureAssumption, BoundsAssumption
  <2>6. StateTypeOK'
    BY <1>2, <2>1, <2>4, <2>5 DEF Restart, Reboot, Event, BoardInv, StateTypeOK
  <2> QED BY <2>2, <2>3, <2>6 DEF BoardInv
<1>3. CASE Flipper \/ Disconnect \/ Drain \/ (\E n \in 1..MaxBatch : Deliver(n)) \/ UNCHANGED vars
  <2>1. UNCHANGED <<running, pass, table, failures, logged, recent, crowded, left, about>>
    BY <1>3 DEF Flipper, Disconnect, Drain, Deliver, Event, vars, boardVars, history
  <2>2. events' \in 0..MaxEvents
    <3>1. events' = events \/ Event
      BY <1>3 DEF Flipper, Disconnect, Drain, Deliver, vars
    <3>2. events \in 0..MaxEvents /\ MaxEvents \in Nat
      BY BoundsAssumption DEF BoardInv, StateTypeOK
    <3>3. Event => events < MaxEvents /\ events' = events + 1
      BY DEF Event
    <3> QED BY <3>1, <3>2, <3>3
  <2>3. sent' \in 0..MaxBatch
    <3>1. 0 \in 0..MaxBatch /\ 1..MaxBatch \subseteq 0..MaxBatch
      BY BoundsAssumption
    <3> QED BY <1>3, <3>1 DEF Flipper, Disconnect, Drain, Deliver, vars, BoardInv, StateTypeOK
  <2>4. TableInv'
    BY <2>1, SameTable DEF BoardInv
  <2>5. PassTypeOK' /\ RecentTypeOK'
    BY <2>1 DEF BoardInv, PassTypeOK, RecentTypeOK
  <2>6. StateTypeOK'
    BY <2>1, <2>2, <2>3 DEF BoardInv, StateTypeOK
  <2> QED BY <2>4, <2>5, <2>6 DEF BoardInv
<1> QED BY <1>1, <1>2, <1>3 DEF Next

-----------------------------------------------------------------------------
(* The rows of a session.                                                  *)

(* Until an entry is given up, the table has one of every address in the   *)
(* session's rows.                                                         *)
RowsHeld ==
    ~evicted => \A k \in first..Len(rows) :
                    \E i \in DOMAIN known : known[i].address = rows[k].address

RowsInv == RowsHeld /\ RowsSayMore

LEMMA NoRows ==
    ASSUME first \in Nat, Len(rows) \in Nat, first = Len(rows) + 1
    PROVE  RowsInv
BY DEF RowsInv, RowsHeld, RowsSayMore

LEMMA RowsInitially == Init => RowsInv
<1> SUFFICES ASSUME Init PROVE RowsInv
  OBVIOUS
<1>1. Len(rows) = 0 /\ first = 1
  BY DEF Init, ExportInit
<1> QED BY <1>1, NoRows

LEMMA SameRows ==
    ASSUME RowsInv, UNCHANGED <<rows, first, known, evicted>>
    PROVE  RowsInv'
BY DEF RowsInv, RowsHeld, RowsSayMore, LastBefore

(* A record that is taken leaves every address in the table, unless an     *)
(* entry is given up.                                                      *)
LEMMA TakenHolds ==
    ASSUME ExportTypeOK, EntriesDiffer, NEW record \in Record, Taken(record), ~evicted'
    PROVE  /\ ~evicted
           /\ \E i \in DOMAIN known' : known'[i].address = record.address
           /\ \A i \in DOMAIN known : \E j \in DOMAIN known' : known'[j].address = known[i].address
<1>1. ~evicted /\ (Held(record) = {} => cursor \notin DOMAIN known)
  BY DEF Taken
<1>2. CASE Held(record) # {}
  <2>1. PICK h \in Held(record) : TRUE
    BY <1>2
  <2>2. Held(record) = {h} /\ h \in DOMAIN known /\ known[h].address = record.address
    BY <2>1 DEF Held, EntriesDiffer
  <2>3. h \in 0..ExportSlots-1
    BY <2>2 DEF ExportTypeOK
  <2>4. Min(Held(record)) = h
    BY <2>2, <2>3, ExportAssumption DEF Min
  <2>5. known' = [known EXCEPT ![h] = record]
    BY <1>2, <2>4 DEF Taken, Updated
  <2>6. DOMAIN known' = DOMAIN known /\ known'[h] = record /\ \A i \in DOMAIN known : i # h => known'[i] = known[i]
    BY <2>2, <2>5
  <2> QED BY <1>1, <2>2, <2>6
<1>3. CASE Held(record) = {}
  <2>1. /\ DOMAIN known' = DOMAIN known \cup {cursor} /\ known'[cursor] = record
        /\ \A i \in DOMAIN known : i # cursor => known'[i] = known[i]
    BY <1>3 DEF Taken, Updated, With
  <2> QED BY <1>1, <1>3, <2>1
<1> QED BY <1>2, <1>3

LEMMA WriteSaysMore == ASSUME ExportInv, RowsInv, Write PROVE RowsInv'
<1> DEFINE record == Head(batch)
           n == Len(rows)
<1>1. ExportTypeOK /\ EntriesDiffer /\ record \in Record /\ Taken(record)
  BY HeadAndTail DEF Write, ExportInv, Types
<1>2. rows \in Seq(Record) /\ n \in Nat /\ first \in 1..n+1
  BY <1>1 DEF ExportTypeOK
<1>3. rows' = Append(rows, record) /\ first' = first
  BY DEF Write
<1>4. ~failed /\ \A i \in DOMAIN known : known[i].address = record.address => ~Repeats(record, known[i], ExportDistance)
  BY DEF Write, ShouldWrite, Held
<1> HIDE DEF record
<1>5. Len(rows') = n + 1 /\ rows'[n + 1] = record /\ \A i \in 1..n : rows'[i] = rows[i]
  BY <1>1, <1>2, <1>3
<1> HIDE DEF n
<1>6. \A k \in first..n+1 : k = n + 1 \/ (k \in first..n /\ k \in 1..n /\ rows'[k] = rows[k])
  BY <1>2, <1>5
<1>7. RowsHeld'
  <2> SUFFICES ASSUME ~evicted', NEW k \in first..n+1
               PROVE  \E i \in DOMAIN known' : known'[i].address = rows'[k].address
    BY <1>3, <1>5 DEF RowsHeld
  <2>1. /\ ~evicted
        /\ \E i \in DOMAIN known' : known'[i].address = record.address
        /\ \A i \in DOMAIN known : \E j \in DOMAIN known' : known'[j].address = known[i].address
    BY <1>1, TakenHolds
  <2>2. CASE k = n + 1
    BY <1>5, <2>1, <2>2
  <2>3. CASE k \in first..n /\ rows'[k] = rows[k]
    BY <2>1, <2>3 DEF RowsInv, RowsHeld, n
  <2> QED BY <1>6, <2>2, <2>3
<1>8. RowsSayMore'
  <2> SUFFICES ASSUME ~evicted', NEW i \in first..n+1, NEW j \in first..n+1, i < j,
                      \A k \in i+1 .. j-1 : rows'[k].address # rows'[j].address
               PROVE  ~Repeats(rows'[j], rows'[i], ExportDistance)
    BY <1>3, <1>5 DEF RowsSayMore, LastBefore
  <2>1. ~evicted
    BY <1>1, TakenHolds
  <2>2. i \in first..n /\ i \in 1..n /\ rows'[i] = rows[i] /\ i \in Nat
    BY <1>2, <1>6
  <2>3. CASE j = n + 1
    <3>1. rows'[j] = record
      BY <1>5, <2>3
    <3>2. SUFFICES ASSUME Repeats(record, rows[i], ExportDistance) PROVE FALSE
      BY <2>2, <3>1
    <3>3. rows[i].address = record.address
      BY <3>2 DEF Repeats
    <3>4. PICK e \in DOMAIN known : known[e].address = record.address
      BY <2>1, <2>2, <3>3 DEF RowsInv, RowsHeld, n
    <3>5. IsLastRow(known[e], rows, first)
      BY <1>4 DEF ExportInv, Backed
    <3>6. PICK l \in first..n : rows[l] = known[e] /\ \A k \in l+1 .. n : rows[k].address # record.address
      BY <3>4, <3>5 DEF IsLastRow, n
    <3>7. l \in Nat /\ l \in 1..n
      BY <1>2
    <3>8. ~(i > l)
      <4> SUFFICES ASSUME i > l PROVE FALSE
        OBVIOUS
      <4>1. i \in l+1 .. n
        BY <2>2, <3>7
      <4> QED BY <3>3, <3>6, <4>1
    <3>9. ~(i < l)
      <4> SUFFICES ASSUME i < l PROVE FALSE
        OBVIOUS
      <4>1. l \in i+1 .. j-1
        BY <1>2, <2>2, <2>3, <3>7
      <4>2. rows'[l].address = record.address
        BY <1>5, <3>4, <3>6, <3>7
      <4> QED BY <3>1, <4>1, <4>2
    <3>10. i = l
      BY <2>2, <3>7, <3>8, <3>9
    <3> QED BY <1>4, <3>2, <3>4, <3>6, <3>10
  <2>4. CASE j # n + 1
    <3>1. j \in first..n /\ rows'[j] = rows[j]
      BY <1>6, <2>4
    <3>2. \A k \in i+1 .. j-1 : k \in 1..n
      BY <1>2, <2>2, <3>1
    <3>3. LastBefore(i, j)
      BY <1>5, <3>1, <3>2 DEF LastBefore
    <3> QED BY <2>1, <2>2, <3>1, <3>3 DEF RowsInv, RowsSayMore, n
  <2> QED BY <2>3, <2>4
<1> QED BY <1>7, <1>8 DEF RowsInv

(* A write that fails or is dropped leaves the rows as they are.           *)
LEMMA FailureSaysMore == ASSUME ExportInv, RowsInv, WriteFails \/ DropWrite PROVE RowsInv'
<1> DEFINE record == Head(batch)
<1>1. ExportTypeOK /\ EntriesDiffer /\ record \in Record /\ Taken(record)
  BY HeadAndTail DEF WriteFails, DropWrite, ExportInv, Types
<1>2. rows' = rows /\ first' = first
  BY DEF WriteFails, DropWrite
<1> HIDE DEF record
<1>3. ~evicted' => ~evicted /\ \A i \in DOMAIN known : \E j \in DOMAIN known' : known'[j].address = known[i].address
  BY <1>1, TakenHolds
<1>4. RowsHeld'
  BY <1>2, <1>3 DEF RowsInv, RowsHeld
<1>5. RowsSayMore'
  BY <1>2, <1>3 DEF RowsInv, RowsSayMore, LastBefore
<1> QED BY <1>4, <1>5 DEF RowsInv

LEMMA FlipperSaysMore == ASSUME ExportInv, RowsInv, Flipper PROVE RowsInv'
<1>1. ExportTypeOK /\ Len(rows) \in Nat
  BY DEF ExportInv, Types, ExportTypeOK
<1>2. CASE Close
  <2>1. rows' = rows /\ first' = Len(rows) + 1
    BY <1>2 DEF Close
  <2>2. first' \in Nat /\ Len(rows') \in Nat /\ first' = Len(rows') + 1
    BY <1>1, <2>1
  <2> QED BY <2>2 DEF RowsInv, RowsHeld, RowsSayMore
<1>3. CASE ExportCrash
  <2>1. PICK kept \in safe..Len(rows) : rows' = SubSeq(rows, 1, kept) /\ first' = kept + 1
    BY <1>3 DEF ExportCrash
  <2>2. kept \in Nat /\ Len(rows') = kept
    BY <1>1, <2>1 DEF ExportTypeOK
  <2>3. first' \in Nat /\ Len(rows') \in Nat /\ first' = Len(rows') + 1
    BY <2>1, <2>2
  <2> QED BY <2>3 DEF RowsInv, RowsHeld, RowsSayMore
<1>4. CASE Withhold \/ Stopped
  <2>1. UNCHANGED <<rows, first, known, evicted>>
    BY <1>4 DEF Withhold, Stopped
  <2> QED BY <2>1, SameRows
<1> QED BY <1>2, <1>3, <1>4, WriteSaysMore, FailureSaysMore DEF Flipper

LEMMA RowsNext == ExportInv /\ RowsInv /\ [Next]_vars => RowsInv'
<1> SUFFICES ASSUME ExportInv, RowsInv, [Next]_vars PROVE RowsInv'
  OBVIOUS
<1>1. CASE ~Flipper
  <2>1. UNCHANGED <<rows, first, known, evicted>>
    BY <1>1 DEF Next, Board, Restart, Disconnect, Drain, Deliver, vars, exportVars
  <2> QED BY <2>1, SameRows
<1> QED BY <1>1, FlipperSaysMore

(* Both filters remember the last they let through, and let through only   *)
(* what says more than it: FiltersAreSound, for every number of addresses, *)
(* every two sizes of their tables and all collisions and evictions.       *)
THEOREM TheFiltersAreSound == Spec => []FiltersAreSound
<1> DEFINE I == FilterInv /\ ExportInv /\ DeliveryInv /\ BoardInv /\ RowsInv
<1>1. Init => I
  BY FilterInit, ExportInitially, DeliveryInitially, BoardInitially, RowsInitially
<1>2. I /\ [Next]_vars => I'
  BY FilterNext, ExportNext, DeliveryNext, BoardInvNext, RowsNext
<1>3. I => FiltersAreSound
  <2> SUFFICES ASSUME I PROVE FiltersAreSound
    OBVIOUS
  <2>1. Range(table) \subseteq Record
    BY DEF BoardInv, TableInv, SlotTypeOK, Range
  <2>2. Range(recent) \subseteq logged
    BY DEF BoardInv, RecentTypeOK, Range
  <2>3. BoardTypeOK
    BY <2>1, <2>2 DEF BoardTypeOK, BoardInv, PassTypeOK, StateTypeOK, RecentTypeOK, TableInv, SlotTypeOK,
                      FilterInv, ExportInv, Types, QueueTypeOK
  <2>4. TypeOK
    BY <2>3 DEF TypeOK, BoardInv, StateTypeOK, DeliveryInv, SentIsResolved, ExportInv, Types
  <2>5. RemembersTheLast
    BY TableRemembers DEF BoardInv
  <2> QED BY <2>4, <2>5 DEF FiltersAreSound, RowsInv
<1> QED BY <1>1, <1>2, <1>3, PTL DEF Spec
=============================================================================
