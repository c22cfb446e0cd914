----------------------------- MODULE ScanResults -----------------------------
(***************************************************************************)
(* From what the radio hears to the records that report it: the catalogue  *)
(* of a BLE window, the selection of the strongest, and the packing of     *)
(* results, and of logged wardriving records, into `status` records that   *)
(* must fit a protected payload.  Sizes are the real ones; an entry keeps  *)
(* the bytes of it that vary (SSID, name, auth mode) as `text`.            *)
(*                                                                         *)
(* Who may scan when, and what a lost connection does to a scan, is        *)
(* ScanArbiter's; here the connection stays up until a record cannot be    *)
(* built.  The log behind wardriving is WardrivingLog's; scans and drains  *)
(* share nothing here, so one waits for the other (bound).                 *)
(***************************************************************************)
EXTENDS Naturals, Sequences, FiniteSets, SequencesExt, FiniteSetsExt

CONSTANTS
    Strengths,      \* rssi_offset
    Texts,          \* bytes that vary in an entry, 0: a device without a name
    RequestIds,
    WifiRawMax, BleRawMax,  \* FEB_WIFI_SCAN_RAW_MAX, FEB_BLE_SCAN_RAW_MAX
    MaxEntries,     \* FEB_CBOR_MAX_ARRAY_ENTRIES: results kept, entries per record
    MaxPayload,     \* FEB_CBOR_MAX_PAYLOAD
    Headroom,       \* ..._STATUS_ENCODE_HEADROOM
    MaxFound,       \* bound: access points the driver reports
    MaxHeard,       \* bound: advertisements in a window
    MaxLogged       \* bound: wardriving records ever logged

ASSUME SizesAssumption ==
    /\ WifiRawMax \in Nat \ {0} /\ BleRawMax \in Nat \ {0} /\ MaxEntries \in Nat \ {0}
    /\ Headroom \in Nat /\ MaxPayload \in Nat
    /\ MaxPayload >= Headroom + 40          \* room for a record without entries
    /\ Texts \subseteq Nat /\ RequestIds \subseteq Nat /\ Strengths \subseteq Nat
    /\ MaxFound \in Nat /\ MaxHeard \in Nat /\ MaxLogged \in Nat

VARIABLES
    phase,          \* "idle", "scanning", "selecting", "packing", "sent" or "failed"
    source,         \* "wifi", "ble" or "data", of the last batch or scan
    request,        \* request_id of the scan
    heard,          \* history: what the radio reported, as it came
    unfetched,      \* history: the driver did not hand over what it found
    raw,            \* wifi_scan_raw_records, ble_scan_raw_devices
    list,           \* ..._selected, or peeked: what is to be sent
    next,           \* ..._send_next_index, or include_count, from 1
    packed,         \* result: the entries of the record being built
    bytes,          \* their encoded length
    told,           \* history: the records sent, [state, entries]
    pending,        \* logged wardriving records that are not drained
    logged          \* bound: how many were logged

vars ==
    <<phase, source, request, heard, unfetched, raw, list, next, packed, bytes, told, pending, logged>>

Sources == {"wifi", "ble", "data"}
Entry   == [address : Nat, rssi : Nat, text : Texts]    \* address 1, 2, ..: in the order heard

TypeOK ==
    /\ phase \in {"idle", "scanning", "selecting", "packing", "sent", "failed"}
    /\ source \in Sources
    /\ request \in RequestIds \cup {0}
    /\ heard \in Seq(Entry) /\ raw \in Seq(Entry) /\ unfetched \in BOOLEAN
    /\ Len(raw) <= IF source = "ble" THEN BleRawMax ELSE WifiRawMax
    /\ Len(list) <= MaxEntries /\ Len(packed) <= MaxEntries
    /\ list \in Seq(Entry) /\ packed \in Seq(Entry) /\ pending \in Seq(Entry)
    /\ next \in 1..Len(list)+1
    /\ bytes \in Nat
    /\ told \in Seq([state : {"partial", "complete", "data"}, entries : Seq(Entry)])
    /\ logged \in 0..MaxLogged

Init ==
    /\ phase = "idle" /\ source = "wifi" /\ request = 0
    /\ heard = <<>> /\ unfetched = FALSE
    /\ raw = <<>> /\ list = <<>> /\ next = 1
    /\ packed = <<>> /\ bytes = 0 /\ told = <<>>
    /\ pending = <<>> /\ logged = 0

-----------------------------------------------------------------------------
(* Encoded lengths.                                                        *)
HeadLength(n) ==
    IF n < 24 THEN 1 ELSE IF n < 256 THEN 2 ELSE IF n < 65536 THEN 3
    ELSE IF n \div 65536 < 65536 THEN 5 ELSE 9

(* An access point with an empty SSID and auth mode "wep"; a device        *)
(* without a name; a logged device without a name, in its record.  Signal  *)
(* strengths take two bytes, above -105 dBm.                               *)
Fixed(s) == CASE s = "wifi" -> 60 [] s = "ble" -> 47 [] s = "data" -> 127
Size(s, entry) == Fixed(s) + entry.text

(* The result map: its head, its keys, the array's head, the entries, and  *)
(* backlog_remaining in a wardriving record.                               *)
Keys(s) == CASE s = "wifi" -> 4 [] s = "ble" -> 8 [] s = "data" -> 26
ResultLength(s, count, size, backlog) ==
    1 + Keys(s) + HeadLength(count) + size + IF s = "data" THEN HeadLength(backlog) ELSE 0

(* The loops drop an entry that does not fit alone; by the sizes there is  *)
(* none, as their comments say, and the branch is not modelled.            *)
ASSUME EntryFitsAssumption ==
    \A s \in Sources, text \in Texts :
        ResultLength(s, 1, Fixed(s) + text, MaxLogged) + Headroom <= MaxPayload

(* What the status payload adds: {"request_id": n, "state": .., "result":} *)
Wrapper(state, id) ==
    25 + HeadLength(id) + CASE state = "partial" -> 8 [] state = "complete" -> 9 [] state = "data" -> 5

-----------------------------------------------------------------------------
(* What the last scan left in its buffers is written before it is read.    *)
Forgotten == /\ heard' = <<>> /\ unfetched' = FALSE /\ told' = <<>>
             /\ list' = <<>> /\ next' = 1 /\ packed' = <<>> /\ bytes' = 0

(* handle_wifi_scan_command, handle_ble_scan_command.                      *)
StartScan(s, id) ==
    /\ phase \in {"idle", "failed"} /\ pending = <<>>
    /\ phase' = "scanning" /\ source' = s /\ request' = id
    /\ raw' = <<>>
    /\ Forgotten
    /\ UNCHANGED <<pending, logged>>

(* ble_scan_catalog_advertisement: a device is catalogued once, with the   *)
(* strongest signal and the first name it was heard with, while there is   *)
(* room for it.                                                            *)
(* Mutant of Merged: the last signal and name.                             *)
KeepsLast(device, seen) == seen
Merged(device, seen) ==
    [device EXCEPT !.rssi = IF seen.rssi > @ THEN seen.rssi ELSE @,
                   !.text = IF @ = 0 THEN seen.text ELSE @]

Room == Len(raw) < BleRawMax

Advertisement(seen) ==
    /\ phase = "scanning" /\ source = "ble"
    /\ Len(heard) < MaxHeard
    /\ seen.address <= Cardinality({heard[i].address : i \in DOMAIN heard}) + 1
    /\ heard' = Append(heard, seen)
    /\ \/ \E i \in DOMAIN raw :
             /\ raw[i].address = seen.address
             /\ raw' = [raw EXCEPT ![i] = Merged(@, seen)]
       \/ /\ \A i \in DOMAIN raw : raw[i].address # seen.address
          /\ raw' = IF Room THEN Append(raw, seen) ELSE raw
    /\ UNCHANGED <<phase, source, request, unfetched, list, next, packed, bytes, told, pending, logged>>

Kept(results) == IF Len(results) < MaxEntries THEN Len(results) ELSE MaxEntries

(* The selection sort at the end of wifi_scan_done_handler and of          *)
(* ble_scan_window_close_cb: in each of `keep` rounds the first of the     *)
(* strongest left is swapped into place and taken.                         *)
Select(results) ==
    /\ raw' = results
    /\ list' = <<>> /\ next' = 1 /\ packed' = <<>> /\ bytes' = 0
    /\ phase' = IF results = <<>> THEN "packing" ELSE "selecting"

Better(results, i, j) == results[i].rssi > results[j].rssi

Round ==
    /\ phase = "selecting"
    /\ LET k == Len(list) + 1
       IN  \E best \in k..Len(raw) :
              /\ \A i \in k..Len(raw) : ~Better(raw, i, best)
              /\ \A i \in k..best-1 : Better(raw, best, i)
              /\ raw' = [raw EXCEPT ![k] = raw[best], ![best] = raw[k]]
              /\ list' = Append(list, raw[best])
    /\ phase' = IF Len(list) + 1 = Kept(raw) THEN "packing" ELSE "selecting"
    /\ UNCHANGED <<source, request, heard, unfetched, next, packed, bytes, told, pending, logged>>

(* wifi_scan_done_handler: the driver reports in any order, and no more    *)
(* than the raw buffer holds is fetched; when the driver fails to count or *)
(* to hand over what it found, the scan ends as one that found nothing.    *)
WifiScanDone ==
    /\ phase = "scanning" /\ source = "wifi"
    /\ \E n \in 0..MaxFound : \E rssi \in [1..n -> Strengths], text \in [1..n -> Texts] :
          LET found == [i \in 1..n |-> [address |-> i, rssi |-> rssi[i], text |-> text[i]]]
          IN  /\ heard' = found
              /\ \/ /\ unfetched' = FALSE
                    /\ Select(SubSeq(found, 1, IF n > WifiRawMax THEN WifiRawMax ELSE n))
                 \/ /\ unfetched' = TRUE
                    /\ Select(<<>>)
    /\ UNCHANGED <<source, request, told, pending, logged>>

BleWindowCloses ==
    /\ phase = "scanning" /\ source = "ble"
    /\ Select(raw)
    /\ UNCHANGED <<source, request, heard, unfetched, told, pending, logged>>

-----------------------------------------------------------------------------
(* ..._send_next_batch: one iteration of the packing loop is a step.       *)
Backlog(count) == IF Len(pending) >= count THEN Len(pending) - count ELSE 0

(* Mutant of Fits: without the headroom.                                   *)
FitsBare(entry) ==
    ResultLength(source, Len(packed) + 1, bytes + Size(source, entry), Backlog(Len(packed) + 1))
      <= MaxPayload
Fits(entry) ==
    ResultLength(source, Len(packed) + 1, bytes + Size(source, entry), Backlog(Len(packed) + 1))
      + Headroom <= MaxPayload

More == next <= Len(list) /\ Len(packed) < MaxEntries

Pack ==
    /\ phase = "packing" /\ More
    /\ Fits(list[next])
    /\ packed' = Append(packed, list[next])
    /\ bytes' = bytes + Size(source, list[next])
    /\ next' = next + 1
    /\ UNCHANGED <<phase, source, request, heard, unfetched, raw, list, told, pending, logged>>

IsComplete == next > Len(list)
State == IF source = "data" THEN "data" ELSE IF IsComplete THEN "complete" ELSE "partial"

(* feb_cbor_encode_status_payload returns 0 when the record is too long:   *)
(* the scan is over and the connection is closed.                          *)
Added  == Wrapper(State, IF source = "data" THEN 0 ELSE request)
Length == ResultLength(source, Len(packed), bytes, Backlog(next - 1)) + Added

SendBatch ==
    /\ phase = "packing"
    /\ More => packed # <<>> /\ ~Fits(list[next])
    /\ IF Length > MaxPayload
       THEN phase' = "failed" /\ UNCHANGED told
       ELSE /\ told' = Append(told, [state |-> State, entries |-> packed])
            /\ phase' = IF State = "complete" THEN "idle" ELSE "sent"
    /\ UNCHANGED <<source, request, heard, unfetched, raw, list, next, packed, bytes, pending, logged>>

(* Mutant of ContinueScan: TX_DONE_NONE for every record.                  *)
ContinueNothing == phase = "sent" /\ source # "data" /\ UNCHANGED vars

(* write_complete, TX_DONE_CONTINUE_WIFI_SCAN and _BLE_SCAN.               *)
ContinueScan ==
    /\ phase = "sent" /\ source # "data"
    /\ phase' = "packing" /\ packed' = <<>> /\ bytes' = 0
    /\ UNCHANGED <<source, request, heard, unfetched, raw, list, next, told, pending, logged>>

(* Peeks the next records of the log, or ends the drain.                   *)
Peek(records) ==
    /\ list' = SubSeq(records, 1, Kept(records))
    /\ next' = 1 /\ packed' = <<>> /\ bytes' = 0
    /\ phase' = IF records = <<>> THEN "idle" ELSE "packing"

(* TX_DONE_CONTINUE_WARDRIVING: what the last record held is drained.      *)
ContinueWardriving ==
    /\ phase = "sent" /\ source = "data"
    /\ LET left == SubSeq(pending, next, Len(pending))
       IN  pending' = left /\ Peek(left)
    /\ UNCHANGED <<source, request, heard, unfetched, raw, told, logged>>

(* wardriving_maybe_kick_send.                                             *)
Kick ==
    /\ phase \in {"idle", "failed"} /\ pending # <<>>
    /\ source' = "data"
    /\ heard' = <<>> /\ unfetched' = FALSE /\ told' = <<>> /\ raw' = <<>>
    /\ Peek(pending)
    /\ UNCHANGED <<request, pending, logged>>

(* The capture loops log between two handlers, here while no results of a  *)
(* scan are kept (bound).  Only the size of a record matters.              *)
Log(text) ==
    /\ phase \in {"idle", "sent"} /\ heard = <<>>
    /\ logged < MaxLogged
    /\ logged' = logged + 1
    /\ pending' = Append(pending, [address |-> 1, rssi |-> 1, text |-> text])
    /\ UNCHANGED <<phase, source, request, heard, unfetched, raw, list, next, packed, bytes, told>>

Next ==
    \/ \E s \in {"wifi", "ble"}, id \in RequestIds : StartScan(s, id)
    \/ \E address \in 1..MaxHeard, rssi \in Strengths, text \in Texts :
          Advertisement([address |-> address, rssi |-> rssi, text |-> text])
    \/ WifiScanDone \/ BleWindowCloses \/ Round
    \/ Pack \/ SendBatch \/ ContinueScan \/ ContinueWardriving \/ Kick
    \/ \E text \in Texts : Log(text)

(* The loop runs on; a record is written out unless the link is lost,      *)
(* which ends the batches.                                                 *)
Spec == /\ Init /\ [][Next]_vars
        /\ WF_vars(Round) /\ WF_vars(Pack \/ SendBatch) /\ WF_vars(ContinueScan)

-----------------------------------------------------------------------------
(* What a scan should report, from all that was heard: of the networks or  *)
(* devices there was room for, each once; nothing of what the driver kept  *)
(* to itself.                                                              *)
RawMax == IF source = "ble" THEN BleRawMax ELSE WifiRawMax
Known  == {i \in DOMAIN heard :
              /\ \A j \in 1..i-1 : heard[j].address # heard[i].address
              /\ heard[i].address <= RawMax}
Strongest(address) == Max({heard[i].rssi : i \in {j \in DOMAIN heard : heard[j].address = address}})
FirstName(address) ==
    LET named == {i \in DOMAIN heard : heard[i].address = address /\ heard[i].text # 0}
    IN  IF named = {} THEN 0 ELSE heard[Min(named)].text
Candidates ==
    IF unfetched THEN {}
    ELSE {[address |-> heard[i].address, rssi |-> Strongest(heard[i].address),
           text |-> FirstName(heard[i].address)] : i \in Known}

Told == FlattenSeq([i \in DOMAIN told |-> told[i].entries])

(* A scan that ends has reported, over all its records, the strongest it   *)
(* could keep, each once, strongest first, with the strongest signal and   *)
(* the first name it was heard with, whatever the order of the driver's    *)
(* results or of the advertisements, and wherever the records were cut; a  *)
(* scan whose results the driver did not hand over has reported nothing.   *)
StrongestReported ==
    (source # "data" /\ told # <<>> /\ Last(told).state = "complete") =>
        /\ Range(Told) \subseteq Candidates
        /\ Cardinality(Range(Told)) = Len(Told)
        /\ Len(Told) = Min({MaxEntries, Cardinality(Candidates)})
        /\ \A i, j \in DOMAIN Told : i < j => Told[i].rssi >= Told[j].rssi
        /\ \A missed \in Candidates \ Range(Told) : \A i \in DOMAIN Told : Told[i].rssi >= missed.rssi

(* The record that says "complete" is the last of a scan and the scan is   *)
(* over; before it, no record is empty, and an empty one is all a scan has *)
(* to say that found nothing or was not given what it found.               *)
CompletesOnce ==
    \A i \in DOMAIN told :
        /\ told[i].state = "complete" => i = Len(told) /\ phase # "packing" /\ phase # "sent"
        /\ told[i].entries = <<>> => told[i].state = "complete" /\ i = 1 /\ (heard = <<>> \/ unfetched)

(* A record of logged sightings always fits its payload: the wardriving    *)
(* drain never closes the connection over its own batch.                   *)
DataFits == phase = "failed" => source # "data"

(* A record outgrows its payload by no more than the headroom falls short  *)
(* of what the payload adds: the packing itself is never too generous, and *)
(* a connection is closed only for a record whose wrapper is longer than   *)
(* the headroom, never when the headroom covers it.                        *)
OverrunIsBounded ==
    /\ phase \in {"packing", "failed"} => Length + Headroom <= MaxPayload + Added
    /\ phase = "failed" => Headroom < Added

(* Both together: what the packing of a record promises of its size.       *)
RecordsAreSized == DataFits /\ OverrunIsBounded

(* PROTOCOL.md has every record of a scan sized to fit within the cap, and *)
(* the headroom is there for the rest of the payload: no scan is given up  *)
(* and no connection closed because a record came out too long.            *)
BatchFits == phase # "failed"

(* A scan's results are handed over or given up: the selection, the packing *)
(* and the chain of records always come to an end.                                 *)
ResultsEnd == (phase \in {"selecting", "packing"} /\ source # "data") ~> (phase \in {"idle", "failed"})

(* A client that got the record that says "complete" has the whole answer: *)
(* the strongest of what was heard and handed over, cut into records that  *)
(* name each once.                                                         *)
AnswerIsWhole == TypeOK /\ StrongestReported /\ CompletesOnce
=============================================================================
