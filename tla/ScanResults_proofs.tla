------------------------- MODULE ScanResults_proofs -------------------------
(***************************************************************************)
(* What the packing guarantees for every size, bound and headroom: a       *)
(* record of logged sightings always fits its payload, and a record of a   *)
(* scan outgrows it by no more than its wrapper exceeds the headroom; and  *)
(* a scan that ends has told its whole answer.                             *)
(***************************************************************************)
EXTENDS ScanResults, SequenceTheorems, FiniteSetTheorems, NaturalsInduction, WellFoundedInduction,
        TLAPS

-----------------------------------------------------------------------------
(* Encoded lengths.                                                        *)

\* A head is 1 to 9 bytes, and a smaller number never has a longer one.
LEMMA HeadBounds ==
  /\ \A n \in Nat : HeadLength(n) \in {1, 2, 3, 5, 9}
  /\ \A m, n \in Nat : m <= n => HeadLength(m) <= HeadLength(n)
<1>1. \A m, n \in Nat : m <= n => m \div 65536 <= n \div 65536
  OBVIOUS
<1> QED
  BY <1>1 DEF HeadLength

LEMMA SizesAreNat ==
  ASSUME NEW s \in Sources
  PROVE  /\ \A entry \in Entry : Size(s, entry) \in Nat
         /\ \A count \in Nat, size \in Nat, backlog \in Nat :
              ResultLength(s, count, size, backlog) \in Nat
<1>1. Fixed(s) \in Nat /\ Keys(s) \in Nat
  BY DEF Sources, Fixed, Keys
<1>2. \A entry \in Entry : Size(s, entry) \in Nat
  <2> SUFFICES ASSUME NEW entry \in Entry PROVE Size(s, entry) \in Nat
    OBVIOUS
  <2>1. entry.text \in Nat
    BY SizesAssumption DEF Entry
  <2> QED
    BY <1>1, <2>1 DEF Size
<1>3. \A count \in Nat, size \in Nat, backlog \in Nat :
        ResultLength(s, count, size, backlog) \in Nat
  BY <1>1, HeadBounds DEF ResultLength
<1> QED
  BY <1>2, <1>3

LEMMA BacklogIsNat ==
  ASSUME pending \in Seq(Entry), NEW m \in Nat, NEW n \in Nat, m <= n
  PROVE  Backlog(m) \in Nat /\ Backlog(n) \in Nat /\ Backlog(n) <= Backlog(m)
BY DEF Backlog

-----------------------------------------------------------------------------
(* Types.                                                                  *)

\* While results are selected, fewer are taken than are to be kept.
Selecting == phase = "selecting" => Len(list) < Kept(raw)

TypeInv == TypeOK /\ Selecting

LEMMA TypeInit == Init => TypeInv
<1> SUFFICES ASSUME Init PROVE TypeInv
  OBVIOUS
<1>1. << >> \in Seq(Entry) /\ Len(<< >>) = 0
  OBVIOUS
<1>2. << >> \in Seq([state : {"partial", "complete", "data"}, entries : Seq(Entry)])
  OBVIOUS
<1>3. unfetched \in BOOLEAN
  BY DEF Init
<1>4. /\ phase = "idle" /\ source = "wifi" /\ request = 0 /\ heard = << >> /\ raw = << >>
      /\ list = << >> /\ next = 1 /\ packed = << >> /\ bytes = 0 /\ told = << >>
      /\ pending = << >> /\ logged = 0
  BY DEF Init
<1> QED
  BY <1>1, <1>2, <1>3, <1>4, SizesAssumption DEF TypeInv, TypeOK, Selecting, Sources

\* What a handler keeps of a sequence of entries is one, no longer than a record may be.
LEMMA KeptPart ==
  ASSUME NEW records \in Seq(Entry)
  PROVE  /\ Kept(records) \in Nat /\ Kept(records) <= Len(records) /\ Kept(records) <= MaxEntries
         /\ SubSeq(records, 1, Kept(records)) \in Seq(Entry)
         /\ Len(SubSeq(records, 1, Kept(records))) = Kept(records)
<1>1. Kept(records) \in Nat /\ Kept(records) <= Len(records) /\ Kept(records) <= MaxEntries
  BY SizesAssumption DEF Kept
<1>2. \A i \in 1 .. Kept(records) : records[i] \in Entry
  BY <1>1
<1> QED
  BY <1>1, <1>2, SubSeqProperties

LEMMA TypePeek ==
  ASSUME TypeOK, NEW records \in Seq(Entry), Peek(records)
  PROVE  /\ list' \in Seq(Entry) /\ Len(list') <= MaxEntries
         /\ next' \in 1..Len(list')+1
         /\ packed' \in Seq(Entry) /\ Len(packed') <= MaxEntries /\ bytes' = 0
         /\ phase' \in {"idle", "packing"}
<1>1. list' = SubSeq(records, 1, Kept(records))
  BY DEF Peek
<1>2. << >> \in Seq(Entry) /\ Len(<< >>) = 0
  OBVIOUS
<1>3. list' \in Seq(Entry) /\ Len(list') <= MaxEntries /\ Len(list') \in Nat
  BY <1>1, KeptPart
<1> QED
  BY <1>2, <1>3, SizesAssumption DEF Peek

\* What the selection starts with.
Selection ==
  /\ list' = << >> /\ next' = 1 /\ packed' = << >> /\ bytes' = 0
  /\ list' \in Seq(Entry) /\ Len(list') = 0 /\ Len(packed') = 0
  /\ phase' \in {"selecting", "packing"}
  /\ phase' = "selecting" => Len(list') < Kept(raw')

LEMMA TypeSelect ==
  ASSUME NEW results \in Seq(Entry), Select(results)
  PROVE  Selection /\ raw' = results
<1>1. results # << >> => Kept(results) > 0
  BY SizesAssumption DEF Kept
<1>2. raw' = results /\ list' = << >>
  BY DEF Select
<1>3. << >> \in Seq(Entry) /\ Len(<< >>) = 0
  OBVIOUS
<1> QED
  BY <1>1, <1>2, <1>3 DEF Select, Selection

\* The types in pieces, so that a step expands what it needs.
LEMMA TypeFacts ==
  ASSUME TypeInv
  PROVE  /\ heard \in Seq(Entry) /\ raw \in Seq(Entry) /\ list \in Seq(Entry)
         /\ packed \in Seq(Entry) /\ pending \in Seq(Entry)
         /\ Len(list) <= MaxEntries /\ Len(packed) <= MaxEntries
         /\ next \in Nat /\ 1 <= next /\ next <= Len(list) + 1 /\ bytes \in Nat
         /\ told \in Seq([state : {"partial", "complete", "data"}, entries : Seq(Entry)])
         /\ source \in Sources /\ request \in RequestIds \cup {0} /\ logged \in 0..MaxLogged
         /\ Len(raw) <= IF source = "ble" THEN BleRawMax ELSE WifiRawMax
         /\ phase = "selecting" => Len(list) < Kept(raw)
         /\ unfetched \in BOOLEAN
BY DEF TypeInv, TypeOK, Selecting

LEMMA AppendType ==
  ASSUME NEW S, NEW s \in Seq(S), NEW e \in S
  PROVE  Append(s, e) \in Seq(S) /\ Len(Append(s, e)) = Len(s) + 1
OBVIOUS

LEMMA ReplaceType ==
  ASSUME NEW S, NEW s \in Seq(S), NEW i \in 1..Len(s), NEW e \in S
  PROVE  [s EXCEPT ![i] = e] \in Seq(S) /\ Len([s EXCEPT ![i] = e]) = Len(s)
OBVIOUS

LEMMA TypeAdvertisement ==
  ASSUME TypeInv, NEW seen \in Entry, Advertisement(seen)
  PROVE  TypeInv'
<1>1. raw \in Seq(Entry) /\ heard \in Seq(Entry) /\ Len(raw) <= BleRawMax
  BY TypeFacts DEF Advertisement
<1>2. ASSUME NEW device \in Entry PROVE Merged(device, seen) \in Entry
  BY <1>2 DEF Merged, Entry
<1>3. heard' \in Seq(Entry)
  BY <1>1, AppendType DEF Advertisement
<1>4. raw' \in Seq(Entry) /\ Len(raw') <= BleRawMax
  <2>1. ASSUME NEW i \in DOMAIN raw, raw' = [raw EXCEPT ![i] = Merged(@, seen)]
        PROVE  raw' \in Seq(Entry) /\ Len(raw') <= BleRawMax
    <3>1. i \in 1..Len(raw) /\ raw[i] \in Entry
      BY <1>1, <2>1
    <3>2. Merged(raw[i], seen) \in Entry
      BY <1>2, <3>1
    <3>3. raw' = [raw EXCEPT ![i] = Merged(raw[i], seen)]
      BY <2>1
    <3> QED
      BY <1>1, <3>1, <3>2, <3>3, ReplaceType
  <2>2. ASSUME raw' = IF Room THEN Append(raw, seen) ELSE raw
        PROVE  raw' \in Seq(Entry) /\ Len(raw') <= BleRawMax
    BY <1>1, <2>2, AppendType, SizesAssumption DEF Room
  <2> QED
    BY <2>1, <2>2 DEF Advertisement
<1> QED
  BY <1>3, <1>4 DEF Advertisement, TypeInv, TypeOK, Selecting

LEMMA TypeWifiScanDone ==
  ASSUME TypeInv, WifiScanDone
  PROVE  TypeInv'
<1> DEFINE Found(n, rssi, text) == [i \in 1..n |-> [address |-> i, rssi |-> rssi[i], text |-> text[i]]]
           Fetched(n) == IF n > WifiRawMax THEN WifiRawMax ELSE n
<1>0. PICK n \in 0..MaxFound :
        \E rssi \in [1..n -> Strengths], text \in [1..n -> Texts] :
          /\ heard' = Found(n, rssi, text)
          /\ Select(SubSeq(Found(n, rssi, text), 1, Fetched(n))) \/ Select(<< >>)
  BY DEF WifiScanDone
<1>1. PICK rssi \in [1..n -> Strengths], text \in [1..n -> Texts] :
        /\ heard' = Found(n, rssi, text)
        /\ Select(SubSeq(Found(n, rssi, text), 1, Fetched(n))) \/ Select(<< >>)
  BY <1>0
<1>2. n \in Nat /\ Fetched(n) \in 0..n /\ Fetched(n) <= WifiRawMax /\ Fetched(n) \in Int
  BY SizesAssumption
<1>3. \A i \in 1..n : [address |-> i, rssi |-> rssi[i], text |-> text[i]] \in Entry
  <2> SUFFICES ASSUME NEW i \in 1..n PROVE [address |-> i, rssi |-> rssi[i], text |-> text[i]] \in Entry
    OBVIOUS
  <2>1. i \in Nat
    BY <1>2
  <2>2. rssi[i] \in Strengths /\ text[i] \in Texts
    OBVIOUS
  <2> QED
    BY <2>1, <2>2, SizesAssumption DEF Entry
<1>4. Found(n, rssi, text) \in Seq(Entry) /\ \A i \in 1..Fetched(n) : Found(n, rssi, text)[i] \in Entry
  BY <1>2, <1>3
<1> HIDE DEF Found, Fetched
<1>5. /\ SubSeq(Found(n, rssi, text), 1, Fetched(n)) \in Seq(Entry)
      /\ Len(SubSeq(Found(n, rssi, text), 1, Fetched(n))) <= WifiRawMax
  BY <1>2, <1>4, SubSeqProperties
<1>6. Selection /\ raw' \in Seq(Entry) /\ Len(raw') <= WifiRawMax
  <2>1. << >> \in Seq(Entry) /\ Len(<< >>) <= WifiRawMax
    BY SizesAssumption
  <2> QED
    BY <1>1, <1>5, <2>1, TypeSelect
<1>7. unfetched' \in BOOLEAN
  BY DEF WifiScanDone
<1> QED
  BY <1>1, <1>4, <1>6, <1>7, SizesAssumption DEF WifiScanDone, Selection, TypeInv, TypeOK, Selecting

LEMMA TypeRound ==
  ASSUME TypeInv, Round
  PROVE  TypeInv'
<1>1. /\ raw \in Seq(Entry) /\ list \in Seq(Entry) /\ Len(list) \in Nat /\ next \in Nat
      /\ 1 <= next /\ next <= Len(list) + 1 /\ Len(list) < Kept(raw)
  BY TypeFacts DEF Round
<1>2. PICK best \in Len(list)+1 .. Len(raw) :
        /\ raw' = [raw EXCEPT ![Len(list)+1] = raw[best], ![best] = raw[Len(list)+1]]
        /\ list' = Append(list, raw[best])
  BY DEF Round
<1>3. Kept(raw) \in Nat /\ Kept(raw) <= Len(raw) /\ Kept(raw) <= MaxEntries
  BY <1>1, KeptPart
<1>4. Len(list)+1 \in 1..Len(raw) /\ best \in 1..Len(raw) /\ raw[best] \in Entry /\ raw[Len(list)+1] \in Entry
  BY <1>1, <1>2, <1>3
<1>5. raw' \in Seq(Entry) /\ Len(raw') = Len(raw)
  <2> DEFINE first == [raw EXCEPT ![Len(list)+1] = raw[best]]
  <2>1. first \in Seq(Entry) /\ Len(first) = Len(raw)
    BY <1>1, <1>4, ReplaceType
  <2>2. raw' = [first EXCEPT ![best] = raw[Len(list)+1]]
    BY <1>2
  <2> HIDE DEF first
  <2> QED
    BY <1>4, <2>1, <2>2, ReplaceType
<1>6. list' \in Seq(Entry) /\ Len(list') = Len(list) + 1
  BY <1>1, <1>2, <1>4, AppendType
<1>7. Kept(raw') = Kept(raw)
  BY <1>5 DEF Kept
<1>8. Len(list') <= MaxEntries /\ next' \in 1..Len(list')+1 /\ Len(list') \in Nat
  <2>1. next' = next
    BY DEF Round
  <2> QED
    BY <1>1, <1>3, <1>6, <2>1, SizesAssumption
<1>9. phase' \in {"packing", "selecting"} /\ (phase' = "selecting" => Len(list') < Kept(raw'))
  BY <1>1, <1>3, <1>6, <1>7 DEF Round
<1> QED
  BY <1>5, <1>6, <1>8, <1>9 DEF Round, TypeInv, TypeOK, Selecting

LEMMA TypeStep == TypeInv /\ [Next]_vars => TypeInv'
<1> SUFFICES ASSUME TypeInv, [Next]_vars PROVE TypeInv'
  OBVIOUS
<1>e. /\ << >> \in Seq(Entry) /\ Len(<< >>) = 0
      /\ << >> \in Seq([state : {"partial", "complete", "data"}, entries : Seq(Entry)])
  OBVIOUS
<1>1. ASSUME NEW s \in {"wifi", "ble"}, NEW id \in RequestIds, StartScan(s, id) PROVE TypeInv'
  <2>1. unfetched' \in BOOLEAN
    BY <1>1 DEF StartScan, Forgotten
  <2>2. /\ phase' = "scanning" /\ source' = s /\ request' = id /\ raw' = << >>
        /\ heard' = << >> /\ told' = << >> /\ list' = << >> /\ next' = 1
        /\ packed' = << >> /\ bytes' = 0 /\ UNCHANGED <<pending, logged>>
    BY <1>1 DEF StartScan, Forgotten
  <2> QED
    BY <1>e, <2>1, <2>2, TypeFacts, SizesAssumption DEF TypeInv, TypeOK, Selecting, Sources
<1>2. ASSUME NEW address \in 1..MaxHeard, NEW rssi \in Strengths, NEW text \in Texts,
             Advertisement([address |-> address, rssi |-> rssi, text |-> text])
      PROVE  TypeInv'
  <2>1. [address |-> address, rssi |-> rssi, text |-> text] \in Entry
    BY SizesAssumption DEF Entry
  <2> QED
    BY <1>2, <2>1, TypeAdvertisement
<1>3. CASE WifiScanDone
  BY <1>3, TypeWifiScanDone
<1>4. CASE BleWindowCloses
  <2>1. Selection /\ raw' = raw
    BY <1>4, TypeFacts, TypeSelect DEF BleWindowCloses
  <2> QED
    BY <1>4, <2>1, SizesAssumption DEF BleWindowCloses, Selection, TypeInv, TypeOK, Selecting
<1>5. CASE Round
  BY <1>5, TypeRound
<1>6. CASE Pack
  <2>1. next \in 1..Len(list) /\ list[next] \in Entry
    BY <1>6, TypeFacts DEF Pack, More
  <2>2. Size(source, list[next]) \in Nat
    BY <2>1, TypeFacts, SizesAreNat
  <2>3. packed' \in Seq(Entry) /\ Len(packed') <= MaxEntries
    BY <1>6, <2>1, TypeFacts, AppendType, SizesAssumption DEF Pack, More
  <2>4. bytes' \in Nat /\ next' \in 1..Len(list)+1
    BY <1>6, <2>1, <2>2, TypeFacts, SMTT(20) DEF Pack
  <2> QED
    BY <1>6, <2>3, <2>4 DEF Pack, TypeInv, TypeOK, Selecting
<1>7. CASE SendBatch
  <2> DEFINE Record == [state : {"partial", "complete", "data"}, entries : Seq(Entry)]
  <2>1. [state |-> State, entries |-> packed] \in Record
    BY TypeFacts DEF State
  <2>2. told \in Seq(Record)
    BY TypeFacts
  <2> HIDE DEF Record
  <2>3. told' \in Seq(Record)
    BY <1>7, <2>1, <2>2, AppendType DEF SendBatch
  <2>4. phase' \in {"failed", "idle", "sent"}
    BY <1>7 DEF SendBatch
  <2> QED
    BY <1>7, <2>3, <2>4 DEF SendBatch, TypeInv, TypeOK, Selecting, Record
<1>8. CASE ContinueScan
  BY <1>8, <1>e, SizesAssumption DEF ContinueScan, TypeInv, TypeOK, Selecting
<1>9. CASE ContinueWardriving
  <2> DEFINE left == SubSeq(pending, next, Len(pending))
  <2>1. left \in Seq(Entry)
    <3>1. \A i \in next..Len(pending) : pending[i] \in Entry
      BY TypeFacts
    <3> QED
      BY <3>1, TypeFacts, SubSeqProperties
  <2>2. Peek(left) /\ pending' = left
    BY <1>9 DEF ContinueWardriving
  <2> HIDE DEF left
  <2>3. /\ list' \in Seq(Entry) /\ Len(list') <= MaxEntries /\ next' \in 1..Len(list')+1
        /\ packed' \in Seq(Entry) /\ Len(packed') <= MaxEntries /\ bytes' = 0
        /\ phase' \in {"idle", "packing"}
    BY <2>1, <2>2, TypePeek DEF TypeInv
  <2> QED
    BY <1>9, <2>1, <2>2, <2>3 DEF ContinueWardriving, TypeInv, TypeOK, Selecting
<1>10. CASE Kick
  <2>1. /\ list' \in Seq(Entry) /\ Len(list') <= MaxEntries /\ next' \in 1..Len(list')+1
        /\ packed' \in Seq(Entry) /\ Len(packed') <= MaxEntries /\ bytes' = 0
        /\ phase' \in {"idle", "packing"}
    BY <1>10, TypeFacts, TypePeek DEF TypeInv, Kick
  <2>2. unfetched' \in BOOLEAN
    BY <1>10 DEF Kick
  <2>3. /\ source' = "data" /\ heard' = << >> /\ told' = << >> /\ raw' = << >>
        /\ UNCHANGED <<request, pending, logged>>
    BY <1>10 DEF Kick
  <2> QED
    BY <1>e, <2>1, <2>2, <2>3, TypeFacts, SizesAssumption DEF TypeInv, TypeOK, Selecting, Sources
<1>11. ASSUME NEW text \in Texts, Log(text) PROVE TypeInv'
  <2>1. [address |-> 1, rssi |-> 1, text |-> text] \in Entry
    BY DEF Entry
  <2>2. pending' \in Seq(Entry)
    BY <1>11, <2>1, TypeFacts, AppendType DEF Log
  <2>3. logged' \in 0..MaxLogged
    BY <1>11, TypeFacts, SizesAssumption, SMTT(20) DEF Log
  <2> QED
    BY <1>11, <2>2, <2>3 DEF Log, TypeInv, TypeOK, Selecting
<1>12. CASE UNCHANGED vars
  BY <1>12 DEF vars, TypeInv, TypeOK, Selecting, Kept
<1> QED
  BY <1>1, <1>2, <1>3, <1>4, <1>5, <1>6, <1>7, <1>8, <1>9, <1>10, <1>11, <1>12 DEF Next

(* The variables have their types in every run, for every capacity, size   *)
(* and bound: no index of the packing leaves the list it reads.            *)
THEOREM ResultsTypeCorrect == Spec => []TypeOK
<1>1. TypeInv => TypeOK
  BY DEF TypeInv
<1> QED
  BY <1>1, TypeInit, TypeStep, PTL DEF Spec

-----------------------------------------------------------------------------
(* Every record fits.                                                      *)

\* The record being built leaves the headroom free, and holds nothing it has not passed.
PackedFits ==
  phase = "packing" =>
    ResultLength(source, Len(packed), bytes, Backlog(Len(packed))) + Headroom <= MaxPayload
Counted == phase = "packing" => Len(packed) < next
Unpacked == phase = "selecting" => packed = << >> /\ bytes = 0

BatchInv == TypeInv /\ PackedFits /\ Counted /\ Unpacked

\* Without an entry there is room to spare.
LEMMA EmptyFits ==
  ASSUME NEW s \in Sources, NEW backlog \in Nat
  PROVE  ResultLength(s, 0, 0, backlog) + Headroom <= MaxPayload
<1>1. ResultLength(s, 0, 0, backlog) <= 40
  <2>1. HeadLength(0) = 1 /\ HeadLength(backlog) <= 9 /\ HeadLength(backlog) \in Nat
    BY HeadBounds DEF HeadLength
  <2>2. Keys(s) <= 26 /\ Keys(s) \in Nat
    BY DEF Sources, Keys
  <2> QED
    BY <2>1, <2>2 DEF ResultLength
<1>2. ResultLength(s, 0, 0, backlog) \in Nat
  BY SizesAreNat
<1> QED
  BY <1>1, <1>2, SizesAssumption

\* A batch that starts empty keeps the invariant.
LEMMA FreshBatch ==
  ASSUME TypeInv', packed' = << >>, bytes' = 0
  PROVE  PackedFits' /\ Counted' /\ Unpacked'
<1>1. Len(packed') = 0 /\ next' \in Nat /\ next' >= 1 /\ source' \in Sources
  BY DEF TypeInv, TypeOK
<1>2. Backlog(Len(packed))' \in Nat
  BY <1>1 DEF Backlog, TypeInv, TypeOK
<1>3. ResultLength(source', 0, 0, Backlog(Len(packed))') + Headroom <= MaxPayload
  BY <1>1, <1>2, EmptyFits
<1> QED
  BY <1>1, <1>3 DEF PackedFits, Counted, Unpacked

LEMMA BatchStep == BatchInv /\ [Next]_vars => BatchInv'
<1> SUFFICES ASSUME BatchInv, [Next]_vars PROVE BatchInv'
  OBVIOUS
<1>0. TypeInv /\ TypeInv' /\ PackedFits /\ Counted /\ Unpacked
  BY TypeStep DEF BatchInv
<1>1. ASSUME NEW s \in {"wifi", "ble"}, NEW id \in RequestIds, StartScan(s, id) PROVE PackedFits' /\ Counted' /\ Unpacked'
  BY <1>1 DEF StartScan, PackedFits, Counted, Unpacked
<1>2. ASSUME NEW seen, Advertisement(seen) PROVE PackedFits' /\ Counted' /\ Unpacked'
  BY <1>2 DEF Advertisement, PackedFits, Counted, Unpacked
<1>3. CASE WifiScanDone
  <2>1. packed' = << >> /\ bytes' = 0
    BY <1>3 DEF WifiScanDone, Select
  <2> QED
    BY <1>0, <2>1, FreshBatch DEF BatchInv
<1>4. CASE BleWindowCloses
  <2>1. packed' = << >> /\ bytes' = 0
    BY <1>4 DEF BleWindowCloses, Select
  <2> QED
    BY <1>0, <2>1, FreshBatch DEF BatchInv
<1>5. CASE Round
  \* Nothing has been packed while results are selected.
  <2>1. packed' = << >> /\ bytes' = 0
    BY <1>0, <1>5 DEF Round, Unpacked
  <2> QED
    BY <1>0, <2>1, FreshBatch DEF BatchInv
<1>6. CASE Pack
  <2>1. /\ ResultLength(source, Len(packed) + 1, bytes + Size(source, list[next]),
                        Backlog(Len(packed) + 1)) + Headroom <= MaxPayload
        /\ packed' = Append(packed, list[next])
        /\ bytes' = bytes + Size(source, list[next])
        /\ next' = next + 1 /\ source' = source /\ pending' = pending /\ phase = "packing"
    BY <1>6 DEF Pack, Fits
  <2>2. next \in 1..Len(list) /\ list[next] \in Entry /\ packed \in Seq(Entry) /\ next \in Nat
    BY <1>0, <1>6, TypeFacts DEF Pack, More
  <2>3. Len(packed') = Len(packed) + 1
    BY <2>1, <2>2, AppendType
  <2>4. Backlog(Len(packed))' = Backlog(Len(packed) + 1)
    BY <2>1, <2>3 DEF Backlog
  <2>5. PackedFits'
    BY <2>1, <2>3, <2>4 DEF PackedFits
  <2>6. Counted'
    BY <1>0, <2>1, <2>2, <2>3 DEF Counted
  <2> QED
    BY <1>0, <1>6, <2>5, <2>6 DEF Pack, Unpacked, BatchInv
<1>7. CASE SendBatch
  <2>1. phase' # "packing" /\ phase' # "selecting"
    BY <1>7 DEF SendBatch, State
  <2> QED
    BY <1>0, <2>1 DEF PackedFits, Counted, Unpacked, BatchInv
<1>8. CASE ContinueScan
  BY <1>0, <1>8, FreshBatch DEF ContinueScan, BatchInv
<1>9. CASE ContinueWardriving
  <2>1. packed' = << >> /\ bytes' = 0
    BY <1>9 DEF ContinueWardriving, Peek
  <2> QED
    BY <1>0, <2>1, FreshBatch DEF BatchInv
<1>10. CASE Kick
  <2>1. packed' = << >> /\ bytes' = 0
    BY <1>10 DEF Kick, Peek
  <2> QED
    BY <1>0, <2>1, FreshBatch DEF BatchInv
<1>11. ASSUME NEW text \in Texts, Log(text) PROVE PackedFits' /\ Counted' /\ Unpacked'
  BY <1>11 DEF Log, PackedFits, Counted, Unpacked
<1>12. CASE UNCHANGED vars
  BY <1>0, <1>12 DEF vars, PackedFits, Counted, Unpacked, Backlog, BatchInv
<1> QED
  BY <1>0, <1>1, <1>2, <1>3, <1>4, <1>5, <1>6, <1>7, <1>8, <1>9, <1>10, <1>11, <1>12 DEF Next, BatchInv

LEMMA BatchInvariant == Spec => []BatchInv
<1>1. Init => BatchInv
  BY TypeInit DEF BatchInv, PackedFits, Counted, Unpacked, Init
<1> QED
  BY <1>1, BatchStep, PTL DEF Spec

\* All that the record being built has over the payload is what the headroom lacks.
LEMMA BatchLength ==
  ASSUME BatchInv, phase = "packing"
  PROVE  Length \in Nat /\ Added \in Nat /\ Length + Headroom <= MaxPayload + Added
<1> DEFINE packedLength(backlog) == ResultLength(source, Len(packed), bytes, backlog)
<1>1. /\ Len(packed) \in Nat /\ next \in Nat /\ Len(packed) <= next - 1 /\ next - 1 \in Nat
      /\ pending \in Seq(Entry) /\ source \in Sources /\ bytes \in Nat /\ request \in Nat
  <2>1. /\ packed \in Seq(Entry) /\ next \in Nat /\ 1 <= next /\ pending \in Seq(Entry)
        /\ source \in Sources /\ bytes \in Nat /\ request \in RequestIds \cup {0}
    BY TypeFacts DEF BatchInv
  <2>2. Len(packed) \in Nat /\ Len(packed) < next
    BY <2>1 DEF BatchInv, Counted
  <2>3. request \in Nat
    BY <2>1, SizesAssumption
  <2> QED
    BY <2>1, <2>2, <2>3
<1>2. Backlog(Len(packed)) \in Nat /\ Backlog(next - 1) \in Nat /\ Backlog(next - 1) <= Backlog(Len(packed))
  BY <1>1, BacklogIsNat
<1>3. packedLength(Backlog(next - 1)) <= packedLength(Backlog(Len(packed)))
  <2>1. /\ HeadLength(Backlog(next - 1)) <= HeadLength(Backlog(Len(packed)))
        /\ HeadLength(Backlog(next - 1)) \in Nat /\ HeadLength(Backlog(Len(packed))) \in Nat
        /\ HeadLength(Len(packed)) \in Nat /\ Keys(source) \in Nat
    <3> DEFINE few == Backlog(next - 1)
               more == Backlog(Len(packed))
    <3>1. few \in Nat /\ more \in Nat /\ few <= more
      BY <1>2
    <3> HIDE DEF few, more
    <3>2. HeadLength(few) <= HeadLength(more)
      BY <3>1, HeadBounds
    <3>3. HeadLength(few) \in Nat /\ HeadLength(more) \in Nat
      BY <3>1, HeadBounds
    <3>4. HeadLength(Len(packed)) \in Nat
      BY <1>1, HeadBounds
    <3>5. Keys(source) \in Nat
      BY <1>1 DEF Keys, Sources
    <3> QED
      BY <3>2, <3>3, <3>4, <3>5 DEF few, more
  <2> QED
    BY <1>1, <2>1 DEF ResultLength
<1>4. packedLength(Backlog(Len(packed))) + Headroom <= MaxPayload
  BY DEF BatchInv, PackedFits
<1>5. packedLength(Backlog(next - 1)) \in Nat /\ packedLength(Backlog(Len(packed))) \in Nat
  BY <1>1, <1>2, SizesAreNat
<1>6. Added \in Nat
  <2>1. HeadLength(0) \in Nat /\ HeadLength(request) \in Nat
    BY <1>1, HeadBounds
  <2> QED
    BY <2>1 DEF Added, Wrapper, State
<1>7. Length = packedLength(Backlog(next - 1)) + Added
  BY DEF Length
<1> HIDE DEF packedLength
<1> QED
  BY <1>3, <1>4, <1>5, <1>6, <1>7, SizesAssumption

\* Only a record that is too long makes a batch fail, and it stays as it was built.
LEMMA FailsForLength ==
  ASSUME BatchInv, [Next]_vars, phase' = "failed"
  PROVE  /\ phase = "failed" \/ (phase = "packing" /\ Length > MaxPayload)
         /\ UNCHANGED <<source, request, list, next, packed, bytes, pending>>
BY DEF Next, vars, StartScan, Advertisement, WifiScanDone, BleWindowCloses, Select, Round, Pack,
       SendBatch, ContinueScan, ContinueWardriving, Kick, Peek, Log

(* A record is too long by no more than its wrapper exceeds the headroom,  *)
(* and the connection is closed for no other: for every size of an entry,  *)
(* of the payload and of the headroom.  With the 32 bytes the firmware     *)
(* leaves, the wrapper of a scan's record is 2 to 11 bytes longer.         *)
THEOREM OverrunsAreShort == Spec => []OverrunIsBounded
<1>1. Init => OverrunIsBounded
  BY DEF Init, OverrunIsBounded
<1>2. BatchInv /\ BatchInv' /\ OverrunIsBounded /\ [Next]_vars => OverrunIsBounded'
  <2> SUFFICES ASSUME BatchInv, BatchInv', OverrunIsBounded, [Next]_vars PROVE OverrunIsBounded'
    OBVIOUS
  <2>1. CASE phase' = "packing"
    <3>1. (BatchInv /\ phase = "packing" => Length + Headroom <= MaxPayload + Added)'
      BY BatchLength, PTL
    <3> QED
      BY <2>1, <3>1 DEF OverrunIsBounded
  <2>2. CASE phase' = "failed"
    <3>1. Length' = Length /\ Added' = Added
      BY <2>2, FailsForLength DEF Length, Added, State, IsComplete, Backlog
    <3>2. Length + Headroom <= MaxPayload + Added /\ Headroom < Added
      <4>1. CASE phase = "failed"
        BY <4>1 DEF OverrunIsBounded
      <4>2. CASE phase = "packing" /\ Length > MaxPayload
        BY <4>2, BatchLength, SizesAssumption
      <4> QED
        BY <2>2, <4>1, <4>2, FailsForLength
    <3> QED
      BY <3>1, <3>2 DEF OverrunIsBounded
  <2>3. CASE phase' \notin {"packing", "failed"}
    BY <2>3 DEF OverrunIsBounded
  <2> QED
    BY <2>1, <2>2, <2>3
<1> QED
  BY <1>1, <1>2, BatchInvariant, PTL DEF Spec

(* The wardriving drain never closes the connection over its own batch,    *)
(* however long the entries, the log and the payload: the headroom need    *)
(* only be what a `status` payload adds to a "data" record, 31 bytes.      *)
THEOREM WardrivingBatchesFit ==
  ASSUME Headroom >= Wrapper("data", 0)
  PROVE  Spec => []RecordsAreSized
<1>1. Init => DataFits
  BY DEF Init, DataFits
<1>2. BatchInv /\ DataFits /\ [Next]_vars => DataFits'
  <2> SUFFICES ASSUME BatchInv, DataFits, [Next]_vars, phase' = "failed" PROVE source' # "data"
    BY DEF DataFits
  <2>1. CASE phase = "failed"
    BY <2>1, FailsForLength DEF DataFits
  <2>2. CASE phase = "packing" /\ Length > MaxPayload
    <3> SUFFICES ASSUME source = "data" PROVE FALSE
      BY FailsForLength
    <3>1. Added = Wrapper("data", 0)
      BY DEF Added, State
    <3>2. Length \in Nat /\ Added \in Nat /\ Length + Headroom <= MaxPayload + Added
      BY <2>2, BatchLength
    <3> QED
      BY <2>2, <3>1, <3>2, SizesAssumption
  <2> QED
    BY <2>1, <2>2, FailsForLength
<1>3. DataFits /\ OverrunIsBounded => RecordsAreSized
  BY DEF RecordsAreSized
<1> QED
  BY <1>1, <1>2, <1>3, BatchInvariant, OverrunsAreShort, PTL DEF Spec

-----------------------------------------------------------------------------
(* Records put together.                                                   *)

\* The least of some numbers, by the well-foundedness of < on them.
LEMMA Least ==
  ASSUME NEW N \in SUBSET Nat, N # {}
  PROVE  \E m \in N : \A k \in N : m <= k
<1> DEFINE less == OpToRel(<, Nat)
<1>1. PICK m \in N : \A k \in N : ~ <<k, m>> \in less
  <2>1. IsWellFoundedOn(less, Nat)
    BY NatLessThanWellFounded
  <2> HIDE DEF less
  <2> QED BY <2>1, WFMin
<1>2. ASSUME NEW k \in N PROVE m <= k
  <2>1. k \in Nat /\ m \in Nat
    OBVIOUS
  <2>2. k < m => <<k, m>> \in less
    BY <2>1 DEF OpToRel
  <2>3. ~ (k < m)
    BY <1>1, <2>2, Zenon
  <2> QED BY <2>1, <2>3
<1> QED BY <1>2

\* `f` puts the sequences of `s` together from the left, as FlattenSeq does.
Flattens(f, s) == f = [i \in 1..Len(s) |-> IF i = 1 THEN s[i] ELSE f[i-1] \o s[i]]

LEMMA FlattenExists ==
  ASSUME NEW E, NEW s \in Seq(Seq(E))
  PROVE  \E f \in [1..Len(s) -> Seq(E)] : Flattens(f, s)
<1> DEFINE To(n, f) == \A i \in 1..n : f[i] = IF i = 1 THEN s[i] ELSE f[i-1] \o s[i]
           Fails == {n \in 0..Len(s) : ~ \E f \in [1..n -> Seq(E)] : To(n, f)}
<1>1. Fails = {}
  <2> SUFFICES ASSUME Fails # {} PROVE FALSE
    OBVIOUS
  <2>0. Fails \in SUBSET Nat
    OBVIOUS
  <2>f. \A n \in 0..Len(s) : n \notin Fails => \E f \in [1..n -> Seq(E)] : To(n, f)
    OBVIOUS
  <2>t. \A n \in Fails : n \in 0..Len(s) /\ ~ \E f \in [1..n -> Seq(E)] : To(n, f)
    OBVIOUS
  <2> HIDE DEF Fails
  <2>1. PICK m \in Fails : \A k \in Fails : m <= k
    BY <2>0, Least
  <2>2. m \in 0..Len(s) /\ m \in Nat
    BY <2>0, <2>t
  <2>3. CASE m = 0
    <3> DEFINE none == [i \in 1..0 |-> << >>]
    <3>1. none \in [1..0 -> Seq(E)] /\ To(0, none)
      OBVIOUS
    <3> QED BY <2>3, <2>t, <3>1
  <2>4. CASE m > 0
    <3>1. m - 1 \in 0..Len(s) /\ m - 1 \in Nat /\ m - 1 < m
      BY <2>2, <2>4
    <3>2. m - 1 \notin Fails
      BY <2>1, <2>2, <3>1
    <3>3. PICK f \in [1..m-1 -> Seq(E)] : To(m - 1, f)
      BY <2>f, <3>1, <3>2
    <3> DEFINE piece == IF m = 1 THEN s[m] ELSE f[m-1] \o s[m]
               g == [i \in 1..m |-> IF i < m THEN f[i] ELSE piece]
    <3>4. piece \in Seq(E)
      <4>1. s[m] \in Seq(E)
        BY <2>2, <2>4
      <4>2. m # 1 => f[m-1] \in Seq(E)
        BY <2>2, <2>4
      <4> QED BY <4>1, <4>2, ConcatProperties
    <3> HIDE DEF piece
    <3>5. g \in [1..m -> Seq(E)]
      BY <2>2, <3>4
    <3>6. ASSUME NEW i \in 1..m PROVE g[i] = IF i = 1 THEN s[i] ELSE g[i-1] \o s[i]
      <4>1. CASE i = m
        BY <2>2, <2>4, <4>1 DEF piece
      <4>2. CASE i < m
        <5>1. i \in 1..m-1 /\ i \in Nat /\ (i # 1 => i - 1 \in 1..m /\ i - 1 < m)
          BY <2>2, <4>2
        <5>2. g[i] = f[i] /\ (i # 1 => g[i-1] = f[i-1])
          BY <4>2, <5>1
        <5>3. f[i] = IF i = 1 THEN s[i] ELSE f[i-1] \o s[i]
          BY <3>3, <5>1
        <5> QED BY <5>2, <5>3
      <4> QED BY <2>2, <4>1, <4>2
    <3>7. To(m, g)
      BY <3>6
    <3> QED BY <2>1, <2>t, <3>5, <3>7
  <2> QED BY <2>2, <2>3, <2>4
<1>2. PICK f \in [1..Len(s) -> Seq(E)] : To(Len(s), f)
  <2>1. Len(s) \in 0..Len(s)
    OBVIOUS
  <2> QED BY <1>1, <2>1
<1>3. Flattens(f, s)
  BY <1>2 DEF Flattens
<1> QED BY <1>3

FlattenBoth(s, t, f, g) ==
  /\ Flattens(f, s) /\ Flattens(g, t)
  /\ Len(s) \in Nat /\ Len(t) \in Nat /\ Len(s) <= Len(t)
  /\ \A i \in 1..Len(s) : s[i] = t[i]

SameFront(s, f, g) == \A i \in 1..Len(s) : f[i] = g[i]

LEMMA FlattenAgrees ==
  ASSUME NEW s, NEW t, NEW f, NEW g, FlattenBoth(s, t, f, g)
  PROVE  SameFront(s, f, g)
<1> USE DEF FlattenBoth, SameFront
<1> DEFINE Differ == {i \in 1..Len(s) : f[i] # g[i]}
<1> SUFFICES ASSUME Differ # {} PROVE FALSE
  OBVIOUS
<1>0. Differ \in SUBSET Nat
  OBVIOUS
<1>d. \A i \in 1..Len(s) : i \in Differ <=> f[i] # g[i]
  OBVIOUS
<1>i. \A i \in Differ : i \in 1..Len(s)
  OBVIOUS
<1> HIDE DEF Differ
<1>1. PICK m \in Differ : \A k \in Differ : m <= k
  BY <1>0, Least
<1>2. /\ m \in 1..Len(s) /\ m \in 1..Len(t) /\ m \in Nat
  BY <1>i
<1>3. /\ f[m] = IF m = 1 THEN s[m] ELSE f[m-1] \o s[m]
      /\ g[m] = IF m = 1 THEN t[m] ELSE g[m-1] \o t[m]
  BY <1>2 DEF Flattens
<1>4. m # 1 => f[m-1] = g[m-1]
  <2> SUFFICES ASSUME m # 1 PROVE f[m-1] = g[m-1]
    OBVIOUS
  <2>1. m - 1 \in 1..Len(s) /\ m - 1 < m
    BY <1>2
  <2>2. m - 1 \notin Differ
    BY <1>1, <1>2, <2>1
  <2> QED BY <1>d, <2>1, <2>2
<1>5. s[m] = t[m]
  BY <1>2
<1> QED BY <1>d, <1>1, <1>2, <1>3, <1>4, <1>5

LEMMA FlattenIs ==
  ASSUME NEW s, Len(s) \in Nat, Len(s) > 0, NEW f, Flattens(f, s)
  PROVE  FlattenSeq(s) = f[Len(s)]
<1> DEFINE c == CHOOSE g : Flattens(g, s)
<1>2. FlattenSeq(s) = c[Len(s)]
  BY DEF FlattenSeq, Flattens
<1>3. Flattens(c, s)
  OBVIOUS
<1> HIDE DEF c
<1>4. FlattenBoth(s, s, c, f) /\ Len(s) \in 1..Len(s)
  BY <1>3 DEF FlattenBoth
<1>5. SameFront(s, c, f)
  BY <1>4, FlattenAgrees
<1> QED BY <1>2, <1>4, <1>5 DEF SameFront

\* A record more adds its entries behind.
LEMMA FlattenAppend ==
  ASSUME NEW E, NEW s \in Seq(Seq(E)), NEW x \in Seq(E)
  PROVE  /\ FlattenSeq(s) \in Seq(E)
         /\ FlattenSeq(Append(s, x)) = FlattenSeq(s) \o x
<1> SUFFICES ASSUME NEW t, t = Append(s, x)
             PROVE  FlattenSeq(s) \in Seq(E) /\ FlattenSeq(t) = FlattenSeq(s) \o x
  OBVIOUS
<1> DEFINE S == Seq(E)
<1>0. s \in Seq(S) /\ x \in S
  OBVIOUS
<1> HIDE DEF S
<1>1. t \in Seq(S) /\ Len(t) > 0 /\ Len(t) = Len(s) + 1 /\ Len(s) \in Nat /\ Len(t) \in Nat
  BY <1>0
<1>2. t[Len(t)] = x /\ \A i \in 1..Len(s) : t[i] = s[i]
  BY <1>0
<1>s. t \in Seq(Seq(E)) /\ (s # << >> => Len(s) > 0) /\ (s = << >> => Len(s) = 0)
  BY <1>0, <1>1 DEF S
<1>3. PICK g \in [1..Len(t) -> Seq(E)] : Flattens(g, t)
  BY <1>s, FlattenExists
<1>4. FlattenSeq(t) = g[Len(t)]
  BY <1>1, <1>3, FlattenIs
<1>5. g[Len(t)] = IF Len(t) = 1 THEN t[Len(t)] ELSE g[Len(t) - 1] \o t[Len(t)]
  <2>1. Flattens(g, t) /\ Len(t) \in 1..Len(t)
    BY <1>1, <1>3
  <2>2. \A i \in 1..Len(t) : g[i] = IF i = 1 THEN t[i] ELSE g[i-1] \o t[i]
    BY <2>1 DEF Flattens
  <2> QED BY <2>1, <2>2
<1>6. CASE s = << >>
  <2>1. FlattenSeq(s) = << >>
    BY <1>6 DEF FlattenSeq
  <2>2. FlattenSeq(t) = x
    BY <1>1, <1>2, <1>s, <1>4, <1>5, <1>6
  <2>3. << >> \o x = x
    BY ConcatEmptySeq
  <2> QED BY <2>1, <2>2, <2>3
<1>7. CASE s # << >>
  <2>1. PICK f \in [1..Len(s) -> Seq(E)] : Flattens(f, s)
    BY FlattenExists
  <2>2. Len(s) \in 1..Len(s)
    BY <1>1, <1>s, <1>7
  <2>3. FlattenSeq(s) = f[Len(s)]
    BY <1>1, <1>s, <1>7, <2>1, FlattenIs
  <2>4. f[Len(s)] = g[Len(s)]
    <3>1. FlattenBoth(s, t, f, g)
      BY <1>1, <1>2, <1>3, <2>1 DEF FlattenBoth
    <3>2. SameFront(s, f, g)
      BY <3>1, FlattenAgrees
    <3> QED BY <2>2, <3>2 DEF SameFront
  <2>5. FlattenSeq(t) = g[Len(s)] \o x
    BY <1>1, <1>2, <1>4, <1>5, <2>2
  <2> QED BY <2>1, <2>2, <2>3, <2>4, <2>5
<1>8. FlattenSeq(s) \in Seq(E)
  <2>1. CASE s = << >>
    BY <2>1 DEF FlattenSeq
  <2>2. CASE s # << >>
    <3>1. PICK f \in [1..Len(s) -> Seq(E)] : Flattens(f, s)
      BY FlattenExists
    <3>2. Len(s) \in 1..Len(s) /\ FlattenSeq(s) = f[Len(s)]
      BY <1>1, <1>s, <2>2, <3>1, FlattenIs
    <3> QED BY <3>2
  <2> QED BY <2>1, <2>2
<1> QED BY <1>6, <1>7, <1>8

Entries(records) == [i \in DOMAIN records |-> records[i].entries]

LEMMA ToldMore ==
  ASSUME NEW S, NEW t \in Seq([state : S, entries : Seq(Entry)]),
         NEW r \in [state : S, entries : Seq(Entry)]
  PROVE  /\ FlattenSeq(Entries(t)) \in Seq(Entry)
         /\ FlattenSeq(Entries(Append(t, r))) = FlattenSeq(Entries(t)) \o r.entries
<1>1. Entries(t) \in Seq(Seq(Entry)) /\ r.entries \in Seq(Entry) /\ Len(Entries(t)) = Len(t)
  <2>1. /\ Len(t) \in Nat /\ DOMAIN t = 1..Len(t) /\ r.entries \in Seq(Entry)
        /\ \A i \in 1..Len(t) : t[i].entries \in Seq(Entry)
    <3> DEFINE R == [state : S, entries : Seq(Entry)]
    <3>1. \A q \in R : q.entries \in Seq(Entry)
      OBVIOUS
    <3>2. t \in Seq(R) /\ r \in R
      OBVIOUS
    <3> HIDE DEF R
    <3> QED BY <3>1, <3>2
  <2> DEFINE S1 == Seq(Entry)
  <2>2. Entries(t) = [i \in 1..Len(t) |-> t[i].entries] /\ \A i \in 1..Len(t) : t[i].entries \in S1
    BY <2>1 DEF Entries
  <2> HIDE DEF S1
  <2>3. Entries(t) \in Seq(S1) /\ Len(Entries(t)) = Len(t)
    BY <2>1, <2>2
  <2> QED BY <2>1, <2>3 DEF S1
<1>2. Entries(Append(t, r)) = Append(Entries(t), r.entries)
  <2>1. /\ DOMAIN Append(t, r) = 1..Len(t)+1
        /\ \A i \in 1..Len(t)+1 : Append(t, r)[i] = IF i <= Len(t) THEN t[i] ELSE r
    OBVIOUS
  <2>2. /\ DOMAIN Append(Entries(t), r.entries) = 1..Len(t)+1
        /\ \A i \in 1..Len(t)+1 :
              Append(Entries(t), r.entries)[i] = IF i <= Len(t) THEN Entries(t)[i] ELSE r.entries
    BY <1>1
  <2>3. \A i \in 1..Len(t) : Entries(t)[i] = t[i].entries
    BY DEF Entries
  <2>4. Append(Entries(t), r.entries) \in Seq(Seq(Entry))
    BY <1>1
  <2>5. Entries(Append(t, r)) = [i \in 1..Len(t)+1 |-> Append(t, r)[i].entries]
    BY <2>1 DEF Entries
  <2>6. \A i \in 1..Len(t)+1 : Append(t, r)[i].entries = Append(Entries(t), r.entries)[i]
    BY <2>1, <2>2, <2>3
  <2>7. Append(Entries(t), r.entries) = [i \in 1..Len(t)+1 |-> Append(Entries(t), r.entries)[i]]
    BY <2>2, <2>4
  <2> QED BY <2>5, <2>6, <2>7
<1> QED BY <1>1, <1>2, FlattenAppend

-----------------------------------------------------------------------------
(* The catalogue of a window.                                              *)

\* Of address `a`, this is the strongest signal and the first name among those heard in `h`.
SignalIs(h, a, rssi) ==
  /\ \E i \in 1..Len(h) : h[i].address = a /\ h[i].rssi = rssi
  /\ \A i \in 1..Len(h) : h[i].address = a => h[i].rssi <= rssi
NameIs(h, a, text) ==
  \/ text = 0 /\ \A i \in 1..Len(h) : h[i].address = a => h[i].text = 0
  \/ /\ text # 0
     /\ \E i \in 1..Len(h) :
           /\ h[i].address = a /\ h[i].text = text
           /\ \A j \in 1..i-1 : h[j].address = a => h[j].text = 0

\* Addresses 1 to d were heard in `h`; `r` has those there is room for, in the order heard.
HeardAre(h, d) ==
  /\ \A i \in 1..Len(h) : h[i].address \in 1..d
  /\ \A a \in 1..d : \E i \in 1..Len(h) : h[i].address = a
Holds(h, r) ==
  \A a \in 1..Len(r) : r[a].address = a /\ SignalIs(h, a, r[a].rssi) /\ NameIs(h, a, r[a].text)
Fitting(d, max) == IF d <= max THEN d ELSE max
Catalogued(h, r, max) ==
  \E d \in Nat : HeardAre(h, d) /\ Len(r) = Fitting(d, max) /\ Holds(h, r)

LEMMA EntryIs == \A e \in Entry : e.address \in Nat /\ e.rssi \in Nat /\ e.text \in Texts
BY DEF Entry

\* What an advertisement more does to the signal and the name of an address.
Grows(h, g, seen) ==
  /\ Len(h) \in Nat /\ Len(g) = Len(h) + 1 /\ g[Len(g)] = seen
  /\ \A i \in 1..Len(h) : g[i] = h[i]

LEMMA OtherAddress ==
  ASSUME NEW h, NEW g, NEW seen, Grows(h, g, seen), NEW a, a # seen.address, NEW m, NEW t
  PROVE  /\ SignalIs(h, a, m) => SignalIs(g, a, m)
         /\ NameIs(h, a, t) => NameIs(g, a, t)
<1>1. \A i \in 1..Len(g) : g[i].address = a => i \in 1..Len(h) /\ g[i] = h[i]
  BY DEF Grows
<1>2. \A i \in 1..Len(h) : i \in 1..Len(g) /\ g[i] = h[i] /\ 1..i-1 \subseteq 1..Len(h)
  BY DEF Grows
<1>3. SignalIs(h, a, m) => SignalIs(g, a, m)
  BY <1>1, <1>2 DEF SignalIs
<1>4. NameIs(h, a, t) => NameIs(g, a, t)
  <2>1. CASE t = 0 /\ \A i \in 1..Len(h) : h[i].address = a => h[i].text = 0
    BY <1>1, <2>1 DEF NameIs
  <2>2. ASSUME t # 0, NEW i \in 1..Len(h), h[i].address = a, h[i].text = t,
               \A j \in 1..i-1 : h[j].address = a => h[j].text = 0
        PROVE  NameIs(g, a, t)
    <3>1. \A j \in 1..i-1 : g[j] = h[j]
      BY <1>2
    <3> QED BY <1>2, <2>2, <3>1 DEF NameIs
  <2> QED BY <2>1, <2>2 DEF NameIs
<1> QED BY <1>3, <1>4

LEMMA StrongerSignal ==
  ASSUME NEW h \in Seq(Entry), NEW g, NEW seen \in Entry, Grows(h, g, seen), NEW m \in Nat,
         SignalIs(h, seen.address, m)
  PROVE  SignalIs(g, seen.address, IF seen.rssi > m THEN seen.rssi ELSE m)
<1>1. /\ Len(g) \in 1..Len(g) /\ g[Len(g)] = seen /\ seen.rssi \in Nat
      /\ \A i \in 1..Len(g) : i # Len(g) => i \in 1..Len(h) /\ g[i] = h[i]
      /\ \A i \in 1..Len(h) : i \in 1..Len(g) /\ g[i] = h[i] /\ h[i].rssi \in Nat
  BY EntryIs DEF Grows
<1>2. PICK k \in 1..Len(h) : h[k].address = seen.address /\ h[k].rssi = m
  BY DEF SignalIs
<1>3. \A i \in 1..Len(h) : h[i].address = seen.address => h[i].rssi <= m
  BY DEF SignalIs
<1>4. CASE seen.rssi > m
  <2>1. \A i \in 1..Len(g) : g[i].address = seen.address => g[i].rssi <= seen.rssi
    <3> TAKE i \in 1..Len(g)
    <3> QED BY SMTT(20), <1>1, <1>3, <1>4
  <2>2. SignalIs(g, seen.address, seen.rssi)
    BY <1>1, <2>1 DEF SignalIs
  <2> QED BY <1>4, <2>2
<1>5. CASE ~ seen.rssi > m
  <2>1. \A i \in 1..Len(g) : g[i].address = seen.address => g[i].rssi <= m
    <3> TAKE i \in 1..Len(g)
    <3> QED BY <1>1, <1>3, <1>5
  <2>2. SignalIs(g, seen.address, m)
    BY <1>1, <1>2, <2>1 DEF SignalIs
  <2> QED BY <1>5, <2>2
<1> QED BY <1>4, <1>5

LEMMA FirstNameKept ==
  ASSUME NEW h, NEW g, NEW seen, Grows(h, g, seen), NEW t, NameIs(h, seen.address, t)
  PROVE  NameIs(g, seen.address, IF t = 0 THEN seen.text ELSE t)
<1>1. /\ Len(g) \in 1..Len(g) /\ g[Len(g)] = seen
      /\ \A i \in 1..Len(g) : i # Len(g) => i \in 1..Len(h) /\ g[i] = h[i]
      /\ \A i \in 1..Len(h) : i \in 1..Len(g) /\ g[i] = h[i] /\ 1..i-1 \subseteq 1..Len(h)
      /\ 1..Len(g)-1 = 1..Len(h)
  BY DEF Grows
<1>2. CASE t = 0 /\ seen.text = 0
  BY <1>1, <1>2 DEF NameIs
<1>3. CASE t = 0 /\ seen.text # 0
  <2>1. \A j \in 1..Len(g)-1 : g[j].address = seen.address => g[j].text = 0
    BY <1>1, <1>3 DEF NameIs
  <2> QED BY <1>1, <1>3, <2>1 DEF NameIs
<1>4. CASE t # 0
  <2>1. PICK i \in 1..Len(h) :
           /\ h[i].address = seen.address /\ h[i].text = t
           /\ \A j \in 1..i-1 : h[j].address = seen.address => h[j].text = 0
    BY <1>4 DEF NameIs
  <2>2. \A j \in 1..i-1 : g[j].address = seen.address => g[j].text = 0
    BY <1>1, <2>1
  <2> QED BY <1>1, <1>4, <2>1, <2>2 DEF NameIs
<1> QED BY <1>2, <1>3, <1>4

LEMMA NewAddress ==
  ASSUME NEW h, NEW g, NEW seen \in Entry, Grows(h, g, seen),
         \A i \in 1..Len(h) : h[i].address # seen.address
  PROVE  SignalIs(g, seen.address, seen.rssi) /\ NameIs(g, seen.address, seen.text)
<1>1. /\ Len(g) \in 1..Len(g) /\ g[Len(g)] = seen /\ seen.rssi \in Nat
      /\ \A i \in 1..Len(g) : g[i].address = seen.address => g[i] = seen
      /\ \A i \in 1..Len(g)-1 : g[i].address # seen.address
  BY EntryIs DEF Grows
<1>2. SignalIs(g, seen.address, seen.rssi)
  BY <1>1 DEF SignalIs
<1>3. NameIs(g, seen.address, seen.text)
  BY <1>1 DEF NameIs
<1> QED BY <1>2, <1>3

LEMMA HeardMore ==
  ASSUME NEW h, NEW g, NEW seen, Grows(h, g, seen), NEW d \in Nat, HeardAre(h, d),
         seen.address \in 1..d+1
  PROVE  HeardAre(g, IF seen.address = d + 1 THEN d + 1 ELSE d)
<1>1. /\ Len(g) \in 1..Len(g) /\ g[Len(g)] = seen
      /\ \A i \in 1..Len(g) : i # Len(g) => i \in 1..Len(h) /\ g[i] = h[i]
      /\ \A i \in 1..Len(h) : i \in 1..Len(g) /\ g[i] = h[i]
  BY DEF Grows
<1> DEFINE e == IF seen.address = d + 1 THEN d + 1 ELSE d
<1>2. e \in Nat /\ d <= e /\ seen.address \in 1..e /\ \A b \in 1..e : b = seen.address \/ b \in 1..d
  OBVIOUS
<1> HIDE DEF e
<1>3. \A i \in 1..Len(h) : h[i].address \in 1..d
  BY DEF HeardAre
<1>4. \A i \in 1..Len(g) : g[i].address \in 1..e
  <2> TAKE i \in 1..Len(g)
  <2> QED BY <1>1, <1>2, <1>3
<1>5. ASSUME NEW b \in 1..e PROVE \E i \in 1..Len(g) : g[i].address = b
  <2>1. CASE b = seen.address
    BY <1>1, <2>1
  <2>2. CASE b \in 1..d
    <3>1. PICK i \in 1..Len(h) : h[i].address = b
      BY <2>2 DEF HeardAre
    <3> QED BY <1>1, <3>1
  <2> QED BY <1>2, <2>1, <2>2
<1>6. HeardAre(g, e)
  BY <1>4, <1>5 DEF HeardAre
<1> QED BY <1>6 DEF e

\* ble_scan_catalog_advertisement, on what was heard and what is catalogued.
Enters(r, q, seen, max) ==
  \/ \E i \in 1..Len(r) : r[i].address = seen.address /\ q = [r EXCEPT ![i] = Merged(r[i], seen)]
  \/ /\ \A i \in 1..Len(r) : r[i].address # seen.address
     /\ q = IF Len(r) < max THEN Append(r, seen) ELSE r

LEMMA CatalogueStep ==
  ASSUME NEW h \in Seq(Entry), NEW g, NEW r \in Seq(Entry), NEW q, NEW max \in Nat, NEW seen \in Entry,
         Catalogued(h, r, max), Grows(h, g, seen), Enters(r, q, seen, max),
         seen.address # 0, seen.address <= Cardinality({h[i].address : i \in 1..Len(h)}) + 1
  PROVE  Catalogued(g, q, max)
<1>1. PICK d \in Nat : HeardAre(h, d) /\ Len(r) = Fitting(d, max) /\ Holds(h, r)
  BY DEF Catalogued
<1> DEFINE a == seen.address
<1>2. a \in 1..d+1
  <2>1. {h[i].address : i \in 1..Len(h)} = 1..d
    BY <1>1 DEF HeardAre
  <2>2. Cardinality(1..d) = d
    BY FS_Interval
  <2>3. a \in Nat /\ a # 0
    BY EntryIs
  <2>4. a <= d + 1
    BY <2>1, <2>2
  <2> QED BY <2>3, <2>4
<1>3. Len(r) \in Nat /\ Len(r) <= d /\ Len(r) <= max /\ (Len(r) < d => Len(r) = max)
  BY <1>1 DEF Fitting
<1>4. HeardAre(g, IF a = d + 1 THEN d + 1 ELSE d)
  BY <1>1, <1>2, HeardMore
<1> DEFINE Stands(b) == q[b].address = b /\ SignalIs(g, b, q[b].rssi) /\ NameIs(g, b, q[b].text)
<1>5. ASSUME NEW b \in 1..Len(r), b # a, q[b] = r[b] PROVE Stands(b)
  <2>1. r[b].address = b /\ SignalIs(h, b, r[b].rssi) /\ NameIs(h, b, r[b].text)
    BY <1>1 DEF Holds
  <2> QED BY <1>5, <2>1, OtherAddress
<1>6. ASSUME NEW i \in 1..Len(r), r[i].address = a, q = [r EXCEPT ![i] = Merged(r[i], seen)]
      PROVE  Catalogued(g, q, max)
  <2>1. i = a /\ a # d + 1 /\ r[i] \in Entry /\ SignalIs(h, a, r[i].rssi) /\ NameIs(h, a, r[i].text)
    BY <1>1, <1>3, <1>6 DEF Holds
  <2>2. /\ q[i] = Merged(r[i], seen) /\ Len(q) = Len(r)
        /\ \A b \in 1..Len(r) : b # i => q[b] = r[b]
    BY <1>6
  <2>3. /\ q[i].address = i
        /\ q[i].rssi = (IF seen.rssi > r[i].rssi THEN seen.rssi ELSE r[i].rssi)
        /\ q[i].text = (IF r[i].text = 0 THEN seen.text ELSE r[i].text)
    BY <1>6, <2>1, <2>2 DEF Merged, Entry
  <2>4. r[i].rssi \in Nat
    BY <2>1, EntryIs
  <2>5. SignalIs(g, a, q[i].rssi)
    BY <2>1, <2>3, <2>4, StrongerSignal
  <2>6. NameIs(g, a, q[i].text)
    BY <2>1, <2>3, FirstNameKept
  <2>7. \A b \in 1..Len(q) : Stands(b)
    BY <1>5, <2>1, <2>2, <2>3, <2>5, <2>6
  <2>8. Holds(g, q)
    BY <2>7 DEF Holds
  <2>9. HeardAre(g, d) /\ Len(q) = Fitting(d, max)
    BY <1>1, <1>4, <2>1, <2>2
  <2> QED BY <2>8, <2>9 DEF Catalogued
<1>7. ASSUME \A i \in 1..Len(r) : r[i].address # a, q = IF Len(r) < max THEN Append(r, seen) ELSE r
      PROVE  Catalogued(g, q, max)
  <2>1. a \notin 1..Len(r)
    BY <1>1, <1>7 DEF Holds
  <2>2. CASE Len(r) = max
    <3>1. q = r
      BY <1>3, <1>7, <2>2
    <3>2. \A b \in 1..Len(q) : Stands(b)
      BY <1>5, <2>1, <3>1
    <3>3. Holds(g, q)
      BY <3>2 DEF Holds
    <3>4. Fitting(d, max) = max /\ Fitting(d + 1, max) = max
      BY <1>1, <1>3, <2>2 DEF Fitting
    <3>5. Len(q) = Fitting(IF a = d + 1 THEN d + 1 ELSE d, max)
      BY <2>2, <3>1, <3>4
    <3> QED BY <1>4, <3>3, <3>5 DEF Catalogued
  <2>3. CASE Len(r) < max
    <3>1. Len(r) = d /\ a = d + 1
      BY <1>2, <1>3, <2>1, <2>3
    <3>2. q = Append(r, seen)
      BY <1>7, <2>3
    <3>3. /\ Len(q) = d + 1 /\ q[d + 1] = seen
          /\ \A b \in 1..Len(r) : q[b] = r[b]
      BY <3>1, <3>2
    <3>4. \A i \in 1..Len(h) : h[i].address # seen.address
      BY <1>1, <3>1 DEF HeardAre
    <3>5. SignalIs(g, a, seen.rssi) /\ NameIs(g, a, seen.text)
      BY <3>4, NewAddress
    <3>6. \A b \in 1..Len(q) : Stands(b)
      <4> SUFFICES ASSUME NEW b \in 1..Len(q) PROVE Stands(b)
        OBVIOUS
      <4>1. CASE b = d + 1
        BY <3>1, <3>3, <3>5, <4>1
      <4>2. CASE b # d + 1
        BY <1>5, <3>1, <3>3, <4>2
      <4> QED BY <4>1, <4>2
    <3>7. Holds(g, q)
      BY <3>6 DEF Holds
    <3>8. Len(q) = Fitting(d + 1, max)
      BY <2>3, <3>1, <3>3 DEF Fitting
    <3> QED BY <1>4, <3>1, <3>7, <3>8 DEF Catalogued
  <2> QED BY <1>3, <2>2, <2>3
<1> QED BY <1>6, <1>7 DEF Enters

\* What the driver reports is a catalogue of its own: each network is in it once.
LEMMA FoundIsCatalogue ==
  ASSUME NEW n \in Nat, NEW found \in Seq(Entry), Len(found) = n, NEW r, NEW max \in Nat,
         \A i \in 1..n : found[i].address = i,
         Len(r) = Fitting(n, max), \A i \in 1..Len(r) : r[i] = found[i]
  PROVE  Catalogued(found, r, max)
<1>1. HeardAre(found, n)
  BY DEF HeardAre
<1>2. ASSUME NEW i \in 1..n PROVE SignalIs(found, i, found[i].rssi) /\ NameIs(found, i, found[i].text)
  <2>1. found[i] \in Entry /\ found[i].rssi \in Nat /\ \A j \in 1..n : found[j].address = i => j = i
    BY <1>2, EntryIs
  <2>2. i \in 1..Len(found) /\ \A j \in 1..i-1 : j \in 1..n /\ j # i
    BY <1>2
  <2>3. \A j \in 1..i-1 : found[j].address # i
    BY <2>1, <2>2
  <2>4. SignalIs(found, i, found[i].rssi)
    BY <2>1, <2>2 DEF SignalIs
  <2>5. NameIs(found, i, found[i].text)
    BY <2>1, <2>2, <2>3 DEF NameIs
  <2> QED BY <2>4, <2>5
<1>3. \A i \in 1..Len(r) : i \in 1..n
  BY DEF Fitting
<1>4. Holds(found, r)
  BY <1>2, <1>3 DEF Holds
<1> QED BY <1>1, <1>4 DEF Catalogued

-----------------------------------------------------------------------------
(* The selection.                                                          *)

\* The candidates stand in `r`, each once, and `l` is taken from its front: each entry of it
\* is at least as strong as those behind it in `r`.
Chosen(r, l, candidates) ==
  /\ {r[i] : i \in 1..Len(r)} = candidates
  /\ \A i, j \in 1..Len(r) : r[i] = r[j] => i = j
  /\ Len(l) <= Len(r)
  /\ \A i \in 1..Len(l) : l[i] = r[i]
  /\ \A i \in 1..Len(l) : \A j \in 1..Len(r) : i <= j => l[i].rssi >= r[j].rssi

LEMMA MaxIs ==
  ASSUME NEW S \in SUBSET Nat, NEW m \in S, \A k \in S : k <= m
  PROVE  Max(S) = m
<1> DEFINE c == CHOOSE x \in S : \A y \in S : x >= y
<1>1. m \in Nat /\ \A y \in S : y \in Nat /\ m >= y
  OBVIOUS
<1>2. c \in S /\ \A y \in S : c >= y
  BY <1>1
<1>3. Max(S) = c
  BY DEF Max
<1> HIDE DEF c
<1> QED BY <1>1, <1>2, <1>3

LEMMA MinIs ==
  ASSUME NEW S \in SUBSET Nat, NEW m \in S, \A k \in S : m <= k
  PROVE  Min(S) = m
<1> DEFINE c == CHOOSE x \in S : \A y \in S : x <= y
<1>1. m \in Nat /\ \A y \in S : y \in Nat /\ m <= y
  OBVIOUS
<1>2. c \in S /\ \A y \in S : c <= y
  BY <1>1
<1>3. Min(S) = c
  BY DEF Min
<1> HIDE DEF c
<1> QED BY <1>1, <1>2, <1>3

\* What the catalogue says of an address is what should be reported.
LEMMA SignalReported ==
  ASSUME heard \in Seq(Entry), NEW a, NEW m, SignalIs(heard, a, m)
  PROVE  Strongest(a) = m
<1> DEFINE S == {heard[i].rssi : i \in {j \in DOMAIN heard : heard[j].address = a}}
<1>1. DOMAIN heard = 1..Len(heard) /\ \A i \in 1..Len(heard) : heard[i].rssi \in Nat
  BY EntryIs
<1>2. S \in SUBSET Nat
  BY <1>1
<1>3. m \in S
  BY <1>1 DEF SignalIs
<1>4. \A k \in S : k <= m
  BY <1>1 DEF SignalIs
<1>5. Strongest(a) = Max(S)
  BY DEF Strongest
<1> HIDE DEF S
<1> QED BY <1>2, <1>3, <1>4, <1>5, MaxIs

LEMMA NameReported ==
  ASSUME heard \in Seq(Entry), NEW a, NEW t, NameIs(heard, a, t)
  PROVE  FirstName(a) = t
<1> DEFINE named == {i \in DOMAIN heard : heard[i].address = a /\ heard[i].text # 0}
<1>1. DOMAIN heard = 1..Len(heard) /\ Len(heard) \in Nat
  OBVIOUS
<1>2. FirstName(a) = IF named = {} THEN 0 ELSE heard[Min(named)].text
  BY DEF FirstName
<1>3. CASE t = 0 /\ \A i \in 1..Len(heard) : heard[i].address = a => heard[i].text = 0
  BY <1>1, <1>2, <1>3
<1>4. CASE t # 0
  <2>1. PICK i \in 1..Len(heard) :
           /\ heard[i].address = a /\ heard[i].text = t
           /\ \A j \in 1..i-1 : heard[j].address = a => heard[j].text = 0
    BY <1>4 DEF NameIs
  <2>2. named \in SUBSET Nat /\ i \in named
    BY <1>1, <1>4, <2>1
  <2>3. \A k \in named : i <= k
    BY <1>1, <2>1
  <2>4. named # {}
    BY <2>2
  <2> HIDE DEF named
  <2>5. Min(named) = i
    BY <2>2, <2>3, MinIs
  <2> QED BY <1>2, <2>1, <2>4, <2>5
<1> QED BY <1>3, <1>4 DEF NameIs

LEMMA FirstHeard ==
  ASSUME NEW a, NEW k \in 1..Len(heard), heard[k].address = a, heard \in Seq(Entry)
  PROVE  \E i \in 1..Len(heard) :
            heard[i].address = a /\ \A j \in 1..i-1 : heard[j].address # heard[i].address
<1> DEFINE N == {i \in 1..Len(heard) : heard[i].address = a}
<1>1. N \in SUBSET Nat /\ N # {}
  OBVIOUS
<1>2. \A i : i \in N <=> i \in 1..Len(heard) /\ heard[i].address = a
  OBVIOUS
<1> HIDE DEF N
<1>3. PICK m \in N : \A i \in N : m <= i
  BY <1>1, Least
<1>4. m \in 1..Len(heard) /\ heard[m].address = a /\ Len(heard) \in Nat
  BY <1>2
<1>5. ASSUME NEW j \in 1..m-1 PROVE heard[j].address # a
  <2>1. j \in 1..Len(heard) /\ j < m /\ j \in Nat /\ m \in Nat
    BY <1>4
  <2>2. j \notin N
    BY <1>3, <2>1
  <2> QED BY <1>2, <2>1, <2>2
<1> QED BY <1>4, <1>5

LEMMA CandidatesAre ==
  ASSUME heard \in Seq(Entry), raw \in Seq(Entry), RawMax \in Nat, Catalogued(heard, raw, RawMax),
         ~ unfetched
  PROVE  Chosen(raw, << >>, Candidates)
<1>1. PICK d \in Nat : HeardAre(heard, d) /\ Len(raw) = Fitting(d, RawMax) /\ Holds(heard, raw)
  BY DEF Catalogued
<1>2. /\ DOMAIN heard = 1..Len(heard) /\ \A a \in 1..Len(raw) : a \in 1..d /\ a <= RawMax
      /\ \A a \in 1..d : a <= RawMax => a \in 1..Len(raw)
  BY <1>1 DEF Fitting
<1> DEFINE Report(a) == [address |-> a, rssi |-> Strongest(a), text |-> FirstName(a)]
<1>3. ASSUME NEW a \in 1..Len(raw) PROVE raw[a] = Report(a) /\ raw[a].address = a
  <2>1. raw[a].address = a /\ SignalIs(heard, a, raw[a].rssi) /\ NameIs(heard, a, raw[a].text)
    BY <1>1 DEF Holds
  <2>2. Strongest(a) = raw[a].rssi /\ FirstName(a) = raw[a].text
    BY <2>1, SignalReported, NameReported
  <2>3. raw[a] \in Entry
    OBVIOUS
  <2>4. raw[a] = [address |-> raw[a].address, rssi |-> raw[a].rssi, text |-> raw[a].text]
    BY <2>3 DEF Entry
  <2> QED BY <2>1, <2>2, <2>4
<1>4. Candidates = {Report(heard[i].address) : i \in Known}
  BY DEF Candidates
<1>5. Known = {i \in 1..Len(heard) : /\ \A j \in 1..i-1 : heard[j].address # heard[i].address
                                     /\ heard[i].address <= RawMax}
  BY <1>2 DEF Known
<1> HIDE DEF Report
<1>6. ASSUME NEW a \in 1..Len(raw) PROVE raw[a] \in Candidates
  <2>1. PICK k \in 1..Len(heard) : heard[k].address = a
    BY <1>1, <1>2 DEF HeardAre
  <2>2. PICK i \in 1..Len(heard) :
            heard[i].address = a /\ \A j \in 1..i-1 : heard[j].address # heard[i].address
    BY <2>1, FirstHeard
  <2>3. i \in Known
    BY <1>2, <1>5, <2>2
  <2> QED BY <1>3, <1>4, <2>2, <2>3
<1>7. ASSUME NEW c \in Candidates PROVE \E a \in 1..Len(raw) : c = raw[a]
  <2>1. PICK i \in Known : c = Report(heard[i].address)
    BY <1>4
  <2>2. heard[i].address \in 1..Len(raw)
    BY <1>1, <1>2, <1>5 DEF HeardAre
  <2> QED BY <1>3, <2>1, <2>2
<1>8. {raw[a] : a \in 1..Len(raw)} = Candidates
  BY <1>6, <1>7
<1>9. \A i, j \in 1..Len(raw) : raw[i] = raw[j] => i = j
  BY <1>3
<1>10. Len(<< >>) = 0 /\ Len(raw) \in Nat
  OBVIOUS
<1> QED BY <1>8, <1>9, <1>10 DEF Chosen

\* One round of the sort: the strongest that is left is swapped into place and taken.
LEMMA ChosenStep ==
  ASSUME NEW r \in Seq(Entry), NEW l \in Seq(Entry), NEW C, Chosen(r, l, C),
         NEW k, k = Len(l) + 1, NEW best \in k..Len(r),
         \A i \in k..Len(r) : ~ Better(r, i, best),
         NEW q, q = [r EXCEPT ![k] = r[best], ![best] = r[k]]
  PROVE  Chosen(q, Append(l, r[best]), C)
<1> DEFINE p(i) == IF i = best THEN k ELSE IF i = k THEN best ELSE i
           n == Len(r)
           g == Append(l, r[best])
<1>1. n \in Nat /\ Len(l) \in Nat /\ k \in 1..n /\ best \in 1..n /\ k <= best
  OBVIOUS
<1>2. Len(q) = n /\ \A i \in 1..n : q[i] = r[p(i)]
  BY <1>1
<1>3. /\ \A i \in 1..n : p(i) \in 1..n /\ p(p(i)) = i
      /\ \A i \in 1..n : i < k => p(i) = i
      /\ \A i \in 1..n : i >= k => p(i) \in k..n
      /\ p(k) = best
  BY <1>1
<1>4. Len(g) = k /\ g[k] = r[best] /\ \A i \in 1..k-1 : i \in 1..Len(l) /\ g[i] = l[i]
  BY <1>1
<1>5. \A i \in 1..n : r[i].rssi \in Nat
  BY EntryIs
<1> HIDE DEF p, n, g
<1>6. {q[i] : i \in 1..n} = C
  <2>1. {r[i] : i \in 1..n} = C
    BY DEF Chosen, n
  <2>2. \A i \in 1..n : q[i] \in C
    BY <1>2, <1>3, <2>1
  <2>3. \A i \in 1..n : r[i] = q[p(i)] /\ p(i) \in 1..n
    BY <1>2, <1>3
  <2>4. \A c \in C : \E i \in 1..n : c = q[i]
    BY <2>1, <2>3
  <2> QED BY <2>2, <2>4
<1>7. \A i, j \in 1..n : q[i] = q[j] => i = j
  <2> SUFFICES ASSUME NEW i \in 1..n, NEW j \in 1..n, q[i] = q[j] PROVE i = j
    OBVIOUS
  <2>1. r[p(i)] = r[p(j)] /\ p(i) \in 1..n /\ p(j) \in 1..n
    BY <1>2, <1>3
  <2>2. p(i) = p(j)
    BY <2>1 DEF Chosen, n
  <2> QED BY <1>3, <2>2
<1>8. \A i \in 1..k : g[i] = q[i]
  <2> SUFFICES ASSUME NEW i \in 1..k PROVE g[i] = q[i]
    OBVIOUS
  <2>1. CASE i = k
    BY <1>1, <1>2, <1>3, <1>4, <2>1
  <2>2. CASE i # k
    <3>1. i \in 1..k-1 /\ i \in 1..n /\ i < k
      BY <1>1, <2>2
    <3>2. g[i] = l[i] /\ i \in 1..Len(l)
      BY <1>4, <3>1
    <3>3. l[i] = r[i]
      BY <3>2 DEF Chosen
    <3>4. p(i) = i
      BY <1>3, <3>1
    <3>5. q[i] = r[p(i)]
      BY <1>2, <3>1
    <3> QED BY <3>2, <3>3, <3>4, <3>5
  <2> QED BY <2>1, <2>2
<1>9. \A i \in 1..k : \A j \in 1..n : i <= j => g[i].rssi >= q[j].rssi
  <2> SUFFICES ASSUME NEW i \in 1..k, NEW j \in 1..n, i <= j PROVE g[i].rssi >= q[j].rssi
    OBVIOUS
  <2>1. q[j] = r[p(j)] /\ p(j) \in 1..n
    BY <1>2, <1>3
  <2>2. CASE i = k
    <3>1. p(j) \in k..n
      BY <1>3, <2>2
    <3>2. ~ (r[p(j)].rssi > r[best].rssi)
      BY <3>1 DEF Better, n
    <3>3. r[p(j)].rssi \in Nat /\ r[best].rssi \in Nat
      BY <1>1, <1>5, <2>1
    <3> QED BY SMTT(20), <1>4, <2>1, <2>2, <3>2, <3>3
  <2>3. CASE i # k
    <3>1. i \in 1..k-1 /\ i < k /\ i \in Nat /\ j \in Nat
      BY <1>1, <2>3
    <3>2. p(j) >= i
      BY <1>1, <1>3, <3>1
    <3>3. g[i] = l[i] /\ i \in 1..Len(l)
      BY <1>4, <3>1
    <3>4. l[i].rssi >= r[p(j)].rssi
      BY <2>1, <3>2, <3>3 DEF Chosen, n
    <3> QED BY <2>1, <3>3, <3>4
  <2> QED BY <2>2, <2>3
<1>10. Chosen(q, g, C)
  <2>1. Len(g) = k /\ Len(q) = n /\ k <= n
    BY <1>1, <1>2, <1>4
  <2> QED BY <1>6, <1>7, <1>8, <1>9, <2>1 DEF Chosen
<1> QED BY <1>10 DEF g

LEMMA CountDistinct ==
  ASSUME NEW s, NEW n \in Nat, \A i, j \in 1..n : s[i] = s[j] => i = j
  PROVE  Cardinality({s[i] : i \in 1..n}) = n
<1> DEFINE f == [i \in 1..n |-> s[i]]
           R == {s[i] : i \in 1..n}
<1>f. f \in [1..n -> R] /\ \A i \in 1..n : f[i] = s[i]
  OBVIOUS
<1>r. \A c \in R : \E i \in 1..n : s[i] = c
  OBVIOUS
<1> HIDE DEF f, R
<1>1. f \in Surjection(1..n, R) /\ f \in Injection(1..n, R)
  BY <1>f, <1>r DEF Surjection, Injection, IsInjective
<1>2. IsFiniteSet(1..n) /\ Cardinality(1..n) = n
  BY FS_Interval
<1> HIDE DEF f, R
<1>3. Cardinality(R) = n
  BY <1>1, <1>2, FS_Surjection
<1> QED BY <1>3 DEF R

\* A selection that is told whole is the answer a scan should give.
LEMMA WholeAnswer ==
  ASSUME raw \in Seq(Entry), list \in Seq(Entry), Chosen(raw, list, Candidates),
         Len(list) = Kept(raw), Told = list
  PROVE  StrongestReported
<1>1. Len(raw) \in Nat /\ Len(list) \in Nat /\ Len(list) <= Len(raw) /\ DOMAIN list = 1..Len(list)
  BY DEF Chosen
<1>2. Range(list) = {list[i] : i \in 1..Len(list)}
  BY <1>1 DEF Range
<1>3. /\ {raw[i] : i \in 1..Len(raw)} = Candidates
      /\ \A i, j \in 1..Len(raw) : raw[i] = raw[j] => i = j
      /\ \A i \in 1..Len(list) : i \in 1..Len(raw) /\ list[i] = raw[i]
      /\ \A i \in 1..Len(list) : \A j \in 1..Len(raw) : i <= j => list[i].rssi >= raw[j].rssi
  BY <1>1 DEF Chosen
<1>4. Range(list) \subseteq Candidates
  BY <1>2, <1>3
<1>5. Cardinality(Range(list)) = Len(list)
  <2>1. \A i, j \in 1..Len(list) : list[i] = list[j] => i = j
    BY <1>3
  <2> QED BY <1>1, <1>2, <2>1, CountDistinct
<1>6. Len(list) = Min({MaxEntries, Cardinality(Candidates)})
  <2>1. Cardinality(Candidates) = Len(raw)
    BY <1>1, <1>3, CountDistinct
  <2> DEFINE two == {MaxEntries, Len(raw)}
  <2>2. two \in SUBSET Nat /\ Kept(raw) \in two /\ \A i \in two : Kept(raw) <= i
    BY <1>1, SizesAssumption DEF Kept
  <2> HIDE DEF two
  <2>3. Min(two) = Kept(raw)
    BY <2>2, MinIs
  <2> QED BY <2>1, <2>3 DEF two
<1>7. \A i, j \in DOMAIN list : i < j => list[i].rssi >= list[j].rssi
  BY <1>1, <1>3
<1>8. ASSUME NEW missed \in Candidates \ Range(list), NEW i \in DOMAIN list
      PROVE  list[i].rssi >= missed.rssi
  <2>1. PICK j \in 1..Len(raw) : missed = raw[j]
    BY <1>3
  <2>2. j \notin 1..Len(list)
    BY <1>2, <1>3, <2>1
  <2> QED BY <1>1, <1>3, <2>1, <2>2
<1> QED BY <1>4, <1>5, <1>6, <1>7, <1>8 DEF StrongestReported

-----------------------------------------------------------------------------
(* The answer to a scan is whole.                                          *)

\* All that is to be kept has been selected.
Taken == Chosen(raw, list, Candidates) /\ Len(list) = Kept(raw)

CatalogueInv ==
  phase = "scanning" =>
    /\ source # "data" /\ told = << >>
    /\ source = "ble" => Catalogued(heard, raw, BleRawMax) /\ ~ unfetched
ChoosingInv ==
  phase = "selecting" =>
    source # "data" /\ told = << >> /\ next = 1 /\ Chosen(raw, list, Candidates)
\* What was told and what is packed is what was selected, up to the next entry.
PackingInv ==
  phase = "packing" /\ source # "data" =>
    Taken /\ Told \o packed = SubSeq(list, 1, next - 1)
SentInv ==
  phase = "sent" /\ source # "data" =>
    Taken /\ Told = SubSeq(list, 1, next - 1) /\ next <= Len(list)
EndedInv ==
  source # "data" /\ told # << >> /\ told[Len(told)].state = "complete" => Taken /\ Told = list
\* Only a scan that found nothing, or was given nothing, builds a record without entries.
EmptyInv ==
  phase = "packing" /\ packed = << >> /\ next > Len(list) =>
    told = << >> /\ (heard = << >> \/ unfetched) /\ source # "data"
OpenInv == phase # "idle" => \A i \in 1..Len(told) : told[i].state # "complete"

AnswerParts ==
  /\ CatalogueInv /\ ChoosingInv /\ PackingInv /\ SentInv /\ EndedInv /\ EmptyInv /\ OpenInv
  /\ CompletesOnce
AnswerInv == BatchInv /\ AnswerParts

LEMMA ToldIs == Told = FlattenSeq(Entries(told))
BY DEF Told, Entries

LEMMA ToldNothing == told = << >> => Told = << >>
<1> SUFFICES ASSUME told = << >> PROVE Told = << >>
  OBVIOUS
<1>1. Entries(told) = << >>
  BY DEF Entries
<1> QED BY <1>1, ToldIs DEF FlattenSeq

LEMMA ToldType == TypeInv => Told \in Seq(Entry)
<1> DEFINE S == {"partial", "complete", "data"}
<1> SUFFICES ASSUME TypeInv PROVE Told \in Seq(Entry)
  OBVIOUS
<1>1. told \in Seq([state : S, entries : Seq(Entry)])
  BY TypeFacts
<1>2. [state |-> "data", entries |-> << >>] \in [state : S, entries : Seq(Entry)]
  OBVIOUS
<1> HIDE DEF S
<1> QED BY <1>1, <1>2, ToldIs, ToldMore

\* What is to be reported depends on what was heard and on the source alone.
LEMMA Quiet ==
  ASSUME UNCHANGED <<heard, unfetched, raw, list, source>>
  PROVE  Candidates' = Candidates /\ Taken' = Taken
<1>1. Candidates' = Candidates
  BY DEF Candidates, Known, RawMax, Strongest, FirstName
<1> QED BY <1>1 DEF Taken, Kept

LEMMA QuietTold ==
  ASSUME UNCHANGED told
  PROVE  Told' = Told
BY DEF Told

\* A step that is over with the results.
LEMMA Leaves ==
  ASSUME AnswerInv, UNCHANGED told, phase' = "failed", phase # "idle"
  PROVE  AnswerParts'
<1>1. OpenInv' /\ \A i \in 1..Len(told) : told[i].state # "complete"
  BY DEF AnswerInv, AnswerParts, OpenInv
<1>2. Len(told) \in Nat /\ DOMAIN told = 1..Len(told)
  BY TypeFacts DEF AnswerInv, BatchInv
<1>3. EndedInv'
  <2>1. told # << >> => Len(told) \in 1..Len(told)
    BY TypeFacts DEF AnswerInv, BatchInv
  <2> QED BY <1>1, <2>1 DEF EndedInv
<1>4. CompletesOnce'
  <2>1. \A i \in DOMAIN told : told[i].state # "complete" /\ told[i].entries # << >>
    BY <1>1, <1>2 DEF AnswerInv, AnswerParts, CompletesOnce
  <2> QED BY <2>1 DEF CompletesOnce
<1> QED
  BY <1>1, <1>3, <1>4 DEF AnswerParts, CatalogueInv, ChoosingInv, PackingInv, SentInv, EmptyInv

\* A step that begins without records told.
LEMMA NothingTold ==
  ASSUME told' = << >>
  PROVE  EndedInv' /\ OpenInv' /\ CompletesOnce'
BY DEF EndedInv, OpenInv, CompletesOnce

\* The radio is done: the candidates stand in the raw buffer, and the selection begins.
LEMMA SelectionStarts ==
  ASSUME TypeInv', told' = << >>, source' # "data",
         IF unfetched' THEN raw' = << >> ELSE Catalogued(heard', raw', RawMax'),
         list' = << >>, next' = 1, packed' = << >>,
         phase' = IF raw' = << >> THEN "packing" ELSE "selecting"
  PROVE  AnswerParts'
<1>1. heard' \in Seq(Entry) /\ raw' \in Seq(Entry) /\ RawMax' \in Nat \ {0}
  BY SizesAssumption DEF TypeInv, TypeOK, RawMax
<1>2. Chosen(raw', list', Candidates')
  <2>1. CASE ~ unfetched'
    <3>1. (heard \in Seq(Entry) /\ raw \in Seq(Entry) /\ RawMax \in Nat /\ Catalogued(heard, raw, RawMax)
           /\ ~ unfetched => Chosen(raw, << >>, Candidates))'
      BY CandidatesAre, PTL
    <3> QED BY <1>1, <2>1, <3>1
  <2>2. CASE unfetched'
    <3>1. Candidates' = {} /\ raw' = << >> /\ list' = << >> /\ Len(<< >>) = 0
      BY <2>2 DEF Candidates
    <3>2. Chosen(<< >>, << >>, {})
      BY DEF Chosen
    <3> QED BY <3>1, <3>2
  <2> QED BY <2>1, <2>2
<1>3. PackingInv'
  <2> SUFFICES ASSUME raw' = << >> PROVE Taken' /\ Told' \o packed' = SubSeq(list', 1, next' - 1)
    BY DEF PackingInv
  <2>1. Taken'
    BY <1>2, SizesAssumption DEF Taken, Kept
  <2>2. Told' = << >>
    <3>1. (told = << >> => Told = << >>)'
      BY ToldNothing, PTL
    <3> QED BY <3>1
  <2>3. SubSeq(list', 1, next' - 1) = << >> /\ << >> \o << >> = << >>
    OBVIOUS
  <2> QED BY <2>1, <2>2, <2>3
<1>4. EmptyInv'
  <2> SUFFICES ASSUME raw' = << >>, ~ unfetched' PROVE heard' = << >>
    BY DEF EmptyInv
  <2>1. PICK d \in Nat : HeardAre(heard', d) /\ Len(raw') = Fitting(d, RawMax')
    BY DEF Catalogued
  <2>2. d = 0
    BY <1>1, <2>1 DEF Fitting
  <2>3. \A i \in 1..Len(heard') : FALSE
    BY <2>1, <2>2 DEF HeardAre
  <2> QED BY <1>1, <2>3
<1> QED
  BY <1>2, <1>3, <1>4, NothingTold DEF AnswerParts, CatalogueInv, ChoosingInv, SentInv

LEMMA AnswerAdvertisement ==
  ASSUME AnswerInv, NEW seen \in Entry, seen.address # 0, Advertisement(seen)
  PROVE  AnswerParts'
<1>1. /\ phase = "scanning" /\ phase' = "scanning" /\ source = "ble" /\ source' = "ble"
      /\ told' = told /\ heard' = Append(heard, seen)
      /\ seen.address <= Cardinality({heard[i].address : i \in DOMAIN heard}) + 1
  BY DEF Advertisement
<1>2. /\ told = << >> /\ Catalogued(heard, raw, BleRawMax)
      /\ heard \in Seq(Entry) /\ raw \in Seq(Entry) /\ BleRawMax \in Nat
  BY <1>1, TypeFacts, SizesAssumption DEF AnswerInv, AnswerParts, CatalogueInv, BatchInv
<1>3. DOMAIN heard = 1..Len(heard) /\ DOMAIN raw = 1..Len(raw)
  BY <1>2
<1>4. Grows(heard, heard', seen)
  BY <1>1, <1>2 DEF Grows
<1>5. Enters(raw, raw', seen, BleRawMax)
  BY <1>3 DEF Advertisement, Enters, Room
<1>6. Catalogued(heard', raw', BleRawMax) /\ ~ unfetched'
  <2>1. ~ unfetched /\ unfetched' = unfetched
    BY <1>1 DEF AnswerInv, AnswerParts, CatalogueInv, Advertisement
  <2> QED BY <1>1, <1>2, <1>3, <1>4, <1>5, <2>1, CatalogueStep
<1>7. told' = << >>
  BY <1>1, <1>2
<1> QED
  BY <1>1, <1>6, <1>7, NothingTold
  DEF AnswerParts, CatalogueInv, ChoosingInv, PackingInv, SentInv, EmptyInv

LEMMA AnswerFetched ==
  ASSUME AnswerInv, TypeInv', WifiScanDone, ~ unfetched'
  PROVE  AnswerParts'
<1>1. PICK n \in 0..MaxFound : \E rssi \in [1..n -> Strengths], text \in [1..n -> Texts] :
          LET found == [i \in 1..n |-> [address |-> i, rssi |-> rssi[i], text |-> text[i]]]
          IN  /\ heard' = found
              /\ Select(SubSeq(found, 1, IF n > WifiRawMax THEN WifiRawMax ELSE n))
  BY DEF WifiScanDone
<1>2. PICK rssi \in [1..n -> Strengths], text \in [1..n -> Texts] :
          LET found == [i \in 1..n |-> [address |-> i, rssi |-> rssi[i], text |-> text[i]]]
          IN  /\ heard' = found
              /\ Select(SubSeq(found, 1, IF n > WifiRawMax THEN WifiRawMax ELSE n))
  BY <1>1
<1> DEFINE found == [i \in 1..n |-> [address |-> i, rssi |-> rssi[i], text |-> text[i]]]
           m == IF n > WifiRawMax THEN WifiRawMax ELSE n
<1>3. heard' = found /\ raw' = SubSeq(found, 1, m)
  BY <1>2 DEF Select
<1>4. n \in Nat /\ m \in Nat /\ m <= n /\ m = Fitting(n, WifiRawMax)
  BY SizesAssumption DEF Fitting
<1>5. found \in Seq(Entry) /\ Len(found) = n /\ \A i \in 1..n : found[i].address = i
  <2>1. heard' \in Seq(Entry)
    BY DEF TypeInv, TypeOK
  <2> QED BY <1>3, <1>4, <2>1
<1>6. Len(raw') = m /\ \A i \in 1..m : raw'[i] = found[i]
  <2>1. \A i \in 1..m : found[i] \in Entry
    BY <1>4, <1>5
  <2>2. /\ Len(SubSeq(found, 1, m)) = IF 1 <= m THEN m - 1 + 1 ELSE 0
        /\ \A i \in 1..m - 1 + 1 : SubSeq(found, 1, m)[i] = found[1 + i - 1]
    BY <1>4, <2>1, SubSeqProperties
  <2>3. \A i \in 1..m : i \in 1..m - 1 + 1 /\ 1 + i - 1 = i
    BY <1>4
  <2> HIDE DEF found, m
  <2> QED BY <1>3, <1>4, <2>2, <2>3
<1> HIDE DEF found, m
<1>7. Catalogued(heard', raw', WifiRawMax)
  BY <1>3, <1>4, <1>5, <1>6, SizesAssumption, FoundIsCatalogue
<1>8. /\ told' = << >> /\ source' = "wifi" /\ list' = << >> /\ next' = 1 /\ packed' = << >>
      /\ phase' = IF raw' = << >> THEN "packing" ELSE "selecting"
  BY <1>2 DEF WifiScanDone, Select, AnswerInv, AnswerParts, CatalogueInv
<1>9. RawMax' = WifiRawMax
  BY <1>8 DEF RawMax
<1> QED BY <1>7, <1>8, <1>9, SelectionStarts

LEMMA AnswerWifi ==
  ASSUME AnswerInv, TypeInv', WifiScanDone
  PROVE  AnswerParts'
<1>1. CASE unfetched'
  <2>1. Select(<< >>) /\ source' = "wifi" /\ told' = << >>
    BY <1>1 DEF WifiScanDone, AnswerInv, AnswerParts, CatalogueInv
  <2>2. /\ raw' = << >> /\ list' = << >> /\ next' = 1 /\ packed' = << >>
        /\ phase' = IF raw' = << >> THEN "packing" ELSE "selecting"
    BY <2>1 DEF Select
  <2> QED BY <1>1, <2>1, <2>2, SelectionStarts
<1> QED BY <1>1, AnswerFetched

LEMMA AnswerWindow ==
  ASSUME AnswerInv, TypeInv', BleWindowCloses
  PROVE  AnswerParts'
<1>1. /\ told' = << >> /\ source' = "ble" /\ list' = << >> /\ next' = 1 /\ packed' = << >>
      /\ raw' = raw /\ heard' = heard
      /\ phase' = IF raw' = << >> THEN "packing" ELSE "selecting"
  BY DEF BleWindowCloses, Select, AnswerInv, AnswerParts, CatalogueInv
<1>2. Catalogued(heard', raw', BleRawMax) /\ RawMax' = BleRawMax /\ ~ unfetched'
  BY <1>1 DEF BleWindowCloses, AnswerInv, AnswerParts, CatalogueInv, RawMax
<1> QED BY <1>1, <1>2, SelectionStarts

LEMMA AnswerRound ==
  ASSUME AnswerInv, TypeInv', Round
  PROVE  AnswerParts'
<1>1. /\ raw \in Seq(Entry) /\ list \in Seq(Entry) /\ Len(list) < Kept(raw) /\ Len(list) \in Nat
      /\ phase = "selecting"
  BY TypeFacts DEF AnswerInv, BatchInv, Round
<1>2. /\ source # "data" /\ told = << >> /\ next = 1 /\ Chosen(raw, list, Candidates)
      /\ packed = << >>
  BY <1>1 DEF AnswerInv, AnswerParts, ChoosingInv, BatchInv, Unpacked
<1>3. PICK best \in Len(list)+1..Len(raw) :
         /\ \A i \in Len(list)+1..Len(raw) : ~ Better(raw, i, best)
         /\ raw' = [raw EXCEPT ![Len(list)+1] = raw[best], ![best] = raw[Len(list)+1]]
         /\ list' = Append(list, raw[best])
  BY DEF Round
<1>4. /\ UNCHANGED <<source, heard, unfetched, next, packed, told>>
      /\ phase' = IF Len(list) + 1 = Kept(raw) THEN "packing" ELSE "selecting"
  BY DEF Round
<1>5. Candidates' = Candidates
  BY <1>4 DEF Candidates, Known, RawMax, Strongest, FirstName
<1>6. Chosen(raw', list', Candidates')
  BY <1>1, <1>2, <1>3, <1>5, ChosenStep
<1>7. Kept(raw') = Kept(raw) /\ Len(list') = Len(list) + 1
  <2>1. Len(raw') = Len(raw)
    BY <1>1, <1>3
  <2>2. raw[best] \in Entry
    BY <1>1, <1>3
  <2> QED BY <1>1, <1>3, <2>1, <2>2, AppendType DEF Kept
<1>8. PackingInv'
  <2> SUFFICES ASSUME phase' = "packing" PROVE Taken' /\ Told' \o packed' = SubSeq(list', 1, next' - 1)
    BY DEF PackingInv
  <2>1. Taken'
    BY <1>4, <1>6, <1>7 DEF Taken
  <2>2. Told' = << >>
    <3>1. told' = << >>
      BY <1>2, <1>4
    <3>2. (told = << >> => Told = << >>)'
      BY ToldNothing, PTL
    <3> QED BY <3>1, <3>2
  <2>3. next' - 1 = 0 /\ packed' = << >>
    BY <1>2, <1>4
  <2>4. SubSeq(list', 1, 0) = << >> /\ << >> \o << >> = << >>
    <3>1. list' \in Seq(Entry)
      BY DEF TypeInv, TypeOK
    <3> QED BY <3>1
  <2> QED BY <2>1, <2>2, <2>3, <2>4
<1>9. EmptyInv'
  BY <1>1, <1>2, <1>4, <1>7 DEF EmptyInv
<1>10. ChoosingInv'
  BY <1>2, <1>4, <1>6 DEF ChoosingInv
<1>11. told' = << >> /\ phase' # "scanning" /\ phase' # "sent"
  BY <1>2, <1>4
<1> QED
  BY <1>8, <1>9, <1>10, <1>11, NothingTold DEF AnswerParts, CatalogueInv, SentInv

\* The front of a sequence grows by its next entry.
LEMMA FrontMore ==
  ASSUME NEW l \in Seq(Entry), NEW n \in 1..Len(l), NEW a \in Seq(Entry), NEW b \in Seq(Entry),
         a \o b = SubSeq(l, 1, n - 1)
  PROVE  a \o Append(b, l[n]) = SubSeq(l, 1, n)
<1> DEFINE c == Append(b, l[n])
<1>1. Len(l) \in Nat /\ n \in Nat /\ l[n] \in Entry /\ \A i \in 1..Len(l) : l[i] \in Entry
  OBVIOUS
<1>2. /\ SubSeq(l, 1, n) \in Seq(Entry) /\ Len(SubSeq(l, 1, n)) = n
      /\ \A i \in 1..n : SubSeq(l, 1, n)[i] = l[i]
      /\ Len(SubSeq(l, 1, n - 1)) = n - 1
      /\ \A i \in 1..n-1 : SubSeq(l, 1, n - 1)[i] = l[i]
  OBVIOUS
<1>3. /\ a \o b \in Seq(Entry) /\ Len(a \o b) = Len(a) + Len(b)
      /\ \A i \in 1 .. Len(a) + Len(b) : (a \o b)[i] = IF i <= Len(a) THEN a[i] ELSE b[i - Len(a)]
  BY ConcatProperties
<1>4. /\ c \in Seq(Entry) /\ Len(c) = Len(b) + 1 /\ c[Len(b) + 1] = l[n]
      /\ \A i \in 1..Len(b) : c[i] = b[i]
      /\ Len(a) \in Nat /\ Len(b) \in Nat
  BY <1>1
<1> HIDE DEF c
<1>5. /\ a \o c \in Seq(Entry) /\ Len(a \o c) = Len(a) + Len(c)
      /\ \A i \in 1 .. Len(a) + Len(c) : (a \o c)[i] = IF i <= Len(a) THEN a[i] ELSE c[i - Len(a)]
  BY <1>4, ConcatProperties
<1>6. Len(a) + Len(b) = n - 1 /\ Len(a) + Len(c) = n
  BY <1>1, <1>2, <1>3, <1>4
<1>7. ASSUME NEW i \in 1..n PROVE (a \o c)[i] = SubSeq(l, 1, n)[i]
  <2>1. CASE i = n
    <3>1. ~ (i <= Len(a)) /\ i - Len(a) = Len(b) + 1
      BY <1>4, <1>6, <2>1
    <3>2. (a \o c)[i] = c[Len(b) + 1]
      BY <1>5, <1>6, <3>1
    <3> QED BY <1>2, <1>4, <2>1, <3>2
  <2>2. CASE i # n
    <3>1. i \in 1..n-1 /\ i \in 1..Len(a)+Len(b) /\ i \in 1..Len(a)+Len(c)
      BY <1>1, <1>6, <2>2
    <3>2. (a \o b)[i] = l[i] /\ SubSeq(l, 1, n)[i] = l[i]
      BY <1>2, <3>1
    <3>3. (a \o c)[i] = (a \o b)[i]
      <4>1. CASE i <= Len(a)
        BY <1>3, <1>5, <3>1, <4>1
      <4>2. CASE ~ (i <= Len(a))
        <5>1. i - Len(a) \in 1..Len(b)
          BY <1>4, <3>1, <4>2
        <5> QED BY <1>3, <1>4, <1>5, <3>1, <4>2, <5>1
      <4> QED BY <4>1, <4>2
    <3> QED BY <3>2, <3>3
  <2> QED BY <2>1, <2>2
<1>8. a \o c = SubSeq(l, 1, n)
  BY <1>2, <1>5, <1>6, <1>7, SeqEqual
<1> QED BY <1>8 DEF c

LEMMA AnswerPack ==
  ASSUME AnswerInv, Pack
  PROVE  AnswerParts'
<1>1. /\ phase = "packing" /\ phase' = "packing" /\ packed' = Append(packed, list[next])
      /\ next' = next + 1 /\ next <= Len(list)
      /\ UNCHANGED <<source, heard, unfetched, raw, list, told>>
  BY DEF Pack, More
<1>2. /\ list \in Seq(Entry) /\ packed \in Seq(Entry) /\ next \in 1..Len(list) /\ Told \in Seq(Entry)
  BY <1>1, TypeFacts, ToldType DEF AnswerInv, BatchInv
<1>3. Taken' = Taken /\ Told' = Told
  BY <1>1, Quiet, QuietTold
<1>4. PackingInv'
  <2> SUFFICES ASSUME source # "data" PROVE Taken' /\ Told' \o packed' = SubSeq(list', 1, next' - 1)
    BY <1>1 DEF PackingInv
  <2>1. Taken /\ Told \o packed = SubSeq(list, 1, next - 1)
    BY <1>1 DEF AnswerInv, AnswerParts, PackingInv
  <2>2. Told \o Append(packed, list[next]) = SubSeq(list, 1, next)
    BY <1>2, <2>1, FrontMore
  <2>3. next' - 1 = next
    BY <1>1, <1>2
  <2> QED BY <1>1, <1>3, <2>1, <2>2, <2>3
<1>5. EmptyInv'
  <2>1. packed' # << >>
    BY <1>1, <1>2
  <2> QED BY <2>1 DEF EmptyInv
<1>6. EndedInv' /\ OpenInv' /\ CompletesOnce'
  BY <1>1, <1>3 DEF AnswerInv, AnswerParts, EndedInv, OpenInv, CompletesOnce
<1> QED
  BY <1>1, <1>4, <1>5, <1>6 DEF AnswerParts, CatalogueInv, ChoosingInv, SentInv

LEMMA AnswerSend ==
  ASSUME AnswerInv, TypeInv', SendBatch, phase' # "failed"
  PROVE  AnswerParts'
<1> DEFINE S == {"partial", "complete", "data"}
           record == [state |-> State, entries |-> packed]
<1>1. /\ phase = "packing" /\ told' = Append(told, record)
      /\ phase' = IF State = "complete" THEN "idle" ELSE "sent"
      /\ UNCHANGED <<source, heard, unfetched, raw, list, next, packed>>
      /\ More => packed # << >>
  BY DEF SendBatch
<1>2. /\ list \in Seq(Entry) /\ packed \in Seq(Entry) /\ Told \in Seq(Entry)
      /\ next \in Nat /\ 1 <= next /\ next <= Len(list) + 1 /\ Len(list) \in Nat
      /\ told \in Seq([state : S, entries : Seq(Entry)])
  BY TypeFacts, ToldType DEF AnswerInv, BatchInv
<1>3. record \in [state : S, entries : Seq(Entry)] /\ record.state = State /\ record.entries = packed
  BY <1>2 DEF State
<1>4. State \in S
  BY DEF State
<1> HIDE DEF S, record
<1>5. /\ Len(told') = Len(told) + 1 /\ Len(told) \in Nat /\ told'[Len(told')] = record /\ told' # << >>
      /\ DOMAIN told = 1..Len(told) /\ DOMAIN told' = 1..Len(told)+1
      /\ \A i \in 1..Len(told) : told'[i] = told[i]
  <2> DEFINE R == [state : S, entries : Seq(Entry)]
  <2>1. told \in Seq(R) /\ record \in R
    BY <1>2, <1>3
  <2> HIDE DEF R
  <2> QED BY <1>1, <2>1
<1>6. Told' = Told \o packed
  <2>1. Told' = FlattenSeq(Entries(told'))
    BY DEF Told, Entries
  <2> QED BY <1>1, <1>2, <1>3, <2>1, ToldIs, ToldMore
<1>7. Taken' = Taken
  BY <1>1, Quiet
<1>8. source # "data" => Taken /\ Told' = SubSeq(list, 1, next - 1)
  BY <1>1, <1>6 DEF AnswerInv, AnswerParts, PackingInv
<1>9. SentInv'
  <2> SUFFICES ASSUME phase' = "sent", source # "data" PROVE next <= Len(list)
    BY <1>1, <1>7, <1>8 DEF SentInv
  <2> QED BY <1>1, <1>2 DEF State, IsComplete
<1>10. EndedInv'
  <2> SUFFICES ASSUME source # "data", State = "complete" PROVE Taken' /\ Told' = list'
    BY <1>1, <1>3, <1>5 DEF EndedInv
  <2>1. next - 1 = Len(list)
    BY <1>2 DEF State, IsComplete
  <2>2. SubSeq(list, 1, Len(list)) = list
    BY <1>2, SubSeqFull
  <2> QED BY <1>1, <1>7, <1>8, <2>1, <2>2
\* No record was the last one before this one, and none was empty.
<1>11. \A i \in 1..Len(told) : told[i].state # "complete" /\ told[i].entries # << >>
  BY <1>1, <1>5 DEF AnswerInv, AnswerParts, OpenInv, CompletesOnce
<1>12. packed = << >> => told = << >> /\ (heard = << >> \/ unfetched) /\ State = "complete"
  <2> SUFFICES ASSUME packed = << >>
               PROVE  told = << >> /\ (heard = << >> \/ unfetched) /\ State = "complete"
    OBVIOUS
  <2>1. next > Len(list)
    <3>1. ~ More /\ Len(packed) = 0
      BY <1>1
    <3> QED BY <1>2, <3>1, SizesAssumption DEF More
  <2>2. told = << >> /\ (heard = << >> \/ unfetched) /\ source # "data"
    BY <1>1, <2>1 DEF AnswerInv, AnswerParts, EmptyInv
  <2> QED BY <2>1, <2>2 DEF State, IsComplete
<1>13. CompletesOnce'
  <2> SUFFICES ASSUME NEW i \in 1..Len(told)+1
               PROVE  /\ told'[i].state = "complete"
                           => i = Len(told') /\ phase' # "packing" /\ phase' # "sent"
                      /\ told'[i].entries = << >>
                           => told'[i].state = "complete" /\ i = 1 /\ (heard' = << >> \/ unfetched')
    BY <1>5 DEF CompletesOnce
  <2>1. CASE i = Len(told) + 1
    <3>1. told'[i].state = State /\ told'[i].entries = packed
      BY <1>3, <1>5, <2>1
    <3>2. told = << >> => i = 1
      BY <2>1
    <3> QED BY <1>1, <1>5, <1>12, <2>1, <3>1, <3>2
  <2>2. CASE i # Len(told) + 1
    <3>1. i \in 1..Len(told)
      BY <1>5, <2>2
    <3> QED BY <1>5, <1>11, <3>1
  <2> QED BY <2>1, <2>2
<1>14. OpenInv'
  <2> SUFFICES ASSUME State # "complete", NEW i \in 1..Len(told') PROVE told'[i].state # "complete"
    BY <1>1 DEF OpenInv
  <2> QED BY <1>3, <1>5, <1>11
<1> QED
  BY <1>1, <1>9, <1>10, <1>13, <1>14
  DEF AnswerParts, CatalogueInv, ChoosingInv, PackingInv, EmptyInv

\* A batch of logged records is never empty.
LEMMA AnswerPeek ==
  ASSUME NEW records \in Seq(Entry), Peek(records), source' = "data"
  PROVE  /\ CatalogueInv' /\ ChoosingInv' /\ PackingInv' /\ SentInv' /\ EndedInv' /\ EmptyInv'
         /\ phase' \in {"idle", "packing"}
<1>1. phase' = IF records = << >> THEN "idle" ELSE "packing"
  BY DEF Peek
<1>2. EmptyInv'
  <2> SUFFICES ASSUME records # << >> PROVE ~ (next' > Len(list'))
    BY <1>1 DEF EmptyInv
  <2>1. Len(list') = Kept(records) /\ next' = 1
    BY KeptPart DEF Peek
  <2>2. Kept(records) >= 1 /\ Kept(records) \in Nat
    <3>1. Len(records) \in Nat /\ Len(records) # 0
      OBVIOUS
    <3> QED BY <3>1, SizesAssumption DEF Kept
  <2> QED BY <2>1, <2>2
<1> QED
  BY <1>1, <1>2 DEF CatalogueInv, ChoosingInv, PackingInv, SentInv, EndedInv

LEMMA AnswerStep == AnswerInv /\ [Next]_vars => AnswerInv'
<1> SUFFICES ASSUME AnswerInv, [Next]_vars PROVE AnswerInv'
  OBVIOUS
<1>0. BatchInv' /\ TypeInv /\ TypeInv'
  BY BatchStep DEF AnswerInv, BatchInv
<1> SUFFICES AnswerParts'
  BY <1>0 DEF AnswerInv
<1>1. ASSUME NEW s \in {"wifi", "ble"}, NEW id \in RequestIds, StartScan(s, id) PROVE AnswerParts'
  <2>1. /\ told' = << >> /\ phase' = "scanning" /\ source' = s /\ heard' = << >> /\ raw' = << >>
        /\ unfetched' = FALSE
    BY <1>1 DEF StartScan, Forgotten
  <2>2. Catalogued(<< >>, << >>, BleRawMax)
    <3>1. HeardAre(<< >>, 0) /\ Holds(<< >>, << >>)
      BY DEF HeardAre, Holds
    <3>2. Len(<< >>) = Fitting(0, BleRawMax)
      BY SizesAssumption DEF Fitting
    <3> QED BY <3>1, <3>2 DEF Catalogued
  <2> QED
    BY <1>1, <2>1, <2>2, NothingTold
    DEF AnswerParts, CatalogueInv, ChoosingInv, PackingInv, SentInv, EmptyInv
<1>2. ASSUME NEW address \in 1..MaxHeard, NEW rssi \in Strengths, NEW text \in Texts,
             Advertisement([address |-> address, rssi |-> rssi, text |-> text])
      PROVE  AnswerParts'
  <2> DEFINE seen == [address |-> address, rssi |-> rssi, text |-> text]
  <2>1. seen \in Entry /\ seen.address # 0
    BY SizesAssumption DEF Entry
  <2> QED BY <1>2, <2>1, AnswerAdvertisement
<1>3. CASE WifiScanDone
  BY <1>0, <1>3, AnswerWifi
<1>4. CASE BleWindowCloses
  BY <1>0, <1>4, AnswerWindow
<1>5. CASE Round
  BY <1>0, <1>5, AnswerRound
<1>6. CASE Pack
  BY <1>6, AnswerPack
<1>7. CASE SendBatch
  <2>1. CASE phase' = "failed"
    <3>1. told' = told /\ phase # "idle"
      BY <1>7, <2>1 DEF SendBatch, State
    <3> QED BY <2>1, <3>1, Leaves
  <2>2. CASE phase' # "failed"
    BY <1>0, <1>7, <2>2, AnswerSend
  <2> QED BY <2>1, <2>2
<1>8. CASE ContinueScan
  <2>1. /\ phase = "sent" /\ phase' = "packing" /\ packed' = << >> /\ source # "data"
        /\ UNCHANGED <<source, heard, unfetched, raw, list, next, told>>
    BY <1>8 DEF ContinueScan
  <2>2. Taken' = Taken /\ Told' = Told
    BY <2>1, Quiet, QuietTold
  <2>3. Taken /\ Told = SubSeq(list, 1, next - 1) /\ next <= Len(list)
    BY <2>1 DEF AnswerInv, AnswerParts, SentInv
  <2>4. Told \o << >> = Told
    BY <1>0, ToldType, ConcatEmptySeq
  <2>5. PackingInv'
    BY <2>1, <2>2, <2>3, <2>4 DEF PackingInv
  <2>6. EmptyInv'
    BY <1>0, <2>1, <2>3, TypeFacts DEF EmptyInv
  <2>7. EndedInv' /\ OpenInv'
    BY <2>1, <2>2 DEF AnswerInv, AnswerParts, EndedInv, OpenInv
  <2>8. CompletesOnce'
    BY <2>1 DEF AnswerInv, AnswerParts, CompletesOnce
  <2> QED
    BY <2>1, <2>5, <2>6, <2>7, <2>8 DEF AnswerParts, CatalogueInv, ChoosingInv, SentInv
<1>9. CASE ContinueWardriving
  <2> DEFINE left == SubSeq(pending, next, Len(pending))
  <2>1. left \in Seq(Entry)
    <3>1. \A i \in next..Len(pending) : pending[i] \in Entry
      BY <1>0, TypeFacts
    <3> QED BY <1>0, <3>1, TypeFacts, SubSeqProperties
  <2>2. Peek(left) /\ source' = "data" /\ phase = "sent" /\ UNCHANGED <<told, heard, unfetched>>
    BY <1>9 DEF ContinueWardriving
  <2> HIDE DEF left
  <2>3. /\ CatalogueInv' /\ ChoosingInv' /\ PackingInv' /\ SentInv' /\ EndedInv' /\ EmptyInv'
        /\ phase' \in {"idle", "packing"}
    BY <2>1, <2>2, AnswerPeek
  <2>4. OpenInv' /\ CompletesOnce'
    <3>1. DOMAIN told = 1..Len(told)
      BY <1>0, TypeFacts
    <3>2. \A i \in 1..Len(told) : told[i].state # "complete" /\ told[i].entries # << >>
      BY <2>2, <3>1 DEF AnswerInv, AnswerParts, OpenInv, CompletesOnce
    <3> QED BY <2>2, <3>1, <3>2 DEF OpenInv, CompletesOnce
  <2> QED BY <2>3, <2>4 DEF AnswerParts
<1>10. CASE Kick
  <2>1. Peek(pending) /\ source' = "data" /\ told' = << >> /\ pending \in Seq(Entry)
    BY <1>0, <1>10, TypeFacts DEF Kick
  <2>2. CatalogueInv' /\ ChoosingInv' /\ PackingInv' /\ SentInv' /\ EndedInv' /\ EmptyInv'
    BY <2>1, AnswerPeek
  <2> QED BY <2>1, <2>2, NothingTold DEF AnswerParts
<1>11. ASSUME NEW text \in Texts, Log(text) PROVE AnswerParts'
  <2>1. UNCHANGED <<phase, source, heard, unfetched, raw, list, next, packed, told>>
    BY <1>11 DEF Log
  <2> QED BY <2>1, Quiet, QuietTold
    DEF AnswerInv, AnswerParts, CatalogueInv, ChoosingInv, PackingInv, SentInv, EndedInv, EmptyInv,
        OpenInv, CompletesOnce
<1>12. CASE UNCHANGED vars
  <2>1. UNCHANGED <<phase, source, heard, unfetched, raw, list, next, packed, told>>
    BY <1>12 DEF vars
  <2> QED BY <2>1, Quiet, QuietTold
    DEF AnswerInv, AnswerParts, CatalogueInv, ChoosingInv, PackingInv, SentInv, EndedInv, EmptyInv,
        OpenInv, CompletesOnce
<1> QED
  BY <1>1, <1>2, <1>3, <1>4, <1>5, <1>6, <1>7, <1>8, <1>9, <1>10, <1>11, <1>12 DEF Next

(* A client that got the record that says "complete" has the whole answer  *)
(* to a scan whose results the driver handed over, and an empty one to a   *)
(* scan whose results it kept to itself:                                   *)
(* of what there was room for the strongest, each once, strongest first,   *)
(* with the strongest signal and the first name it was heard with, in      *)
(* whatever order it was heard and wherever the records were cut; and that *)
(* record is the last.  For every capacity, strength, name and size.       *)
THEOREM TheAnswerIsWhole == Spec => []AnswerIsWhole
<1>1. Init => AnswerInv
  <2> SUFFICES ASSUME Init PROVE AnswerInv
    OBVIOUS
  <2>1. BatchInv
    BY TypeInit DEF BatchInv, PackedFits, Counted, Unpacked, Init
  <2>2. AnswerParts
    BY DEF Init, AnswerParts, CatalogueInv, ChoosingInv, PackingInv, SentInv, EndedInv, EmptyInv,
           OpenInv, CompletesOnce
  <2> QED BY <2>1, <2>2 DEF AnswerInv
<1>2. AnswerInv => AnswerIsWhole
  <2> SUFFICES ASSUME AnswerInv PROVE AnswerIsWhole
    OBVIOUS
  <2>1. TypeOK /\ CompletesOnce /\ raw \in Seq(Entry) /\ list \in Seq(Entry)
    BY TypeFacts DEF AnswerInv, AnswerParts, BatchInv, TypeInv
  <2>2. StrongestReported
    <3> SUFFICES ASSUME source # "data", told # << >>, Last(told).state = "complete"
                 PROVE  StrongestReported
      BY DEF StrongestReported
    <3>1. Taken /\ Told = list
      BY DEF Last, AnswerInv, AnswerParts, EndedInv
    <3> QED BY <2>1, <3>1, WholeAnswer DEF Taken
  <2> QED BY <2>1, <2>2 DEF AnswerIsWhole
<1> QED
  BY <1>1, <1>2, AnswerStep, PTL DEF Spec
=============================================================================
