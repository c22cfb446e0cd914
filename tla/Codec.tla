------------------------------- MODULE Codec --------------------------------
(***************************************************************************)
(* The two copies of the wire codec beside each other.  One firmware       *)
(* encodes a record, the record is damaged up to MaxFaults times on its    *)
(* way (or was made by another version of the protocol), and both copies   *)
(* decode it.  Every kind of record the protocol names is here, with the   *)
(* shapes and the boundary values the applications use.                    *)
(***************************************************************************)
EXTENDS CborItem, TLC

CONSTANT MaxFaults          \* bound: faults in one record

Board   == INSTANCE BoardCodec
Flipper == INSTANCE FlipperCodec

VARIABLES
    kind,       \* which encoder and decoder
    sent,       \* what the encoder was given: [key -> item]
    record,     \* the item on the wire
    faults      \* bound: how often it was damaged

vars == <<kind, sent, record, faults>>

-----------------------------------------------------------------------------
(* What the applications hand to the encoders.                             *)
Header  == [version |-> UInt(1), type |-> Text(64), board_id |-> Text(32)]
Session == [session_id |-> Bytes(8)]
Secret  == [ciphertext |-> Blob(512, "sealed"), tag |-> Blob(16, "tag"), sequence |-> UInt(300)]

Wifi   == [ssid |-> Bytes(32), bssid |-> Bytes(6), rssi_offset |-> UInt(255), channel |-> UInt(13),
           auth |-> Text(9)]
Ap     == Wifi @@ [phy |-> Text(4)]
Ble    == [address |-> Bytes(6), rssi_offset |-> UInt(255)]
Named  == Ble @@ [name |-> Text(31)]
Typed(device) == device @@ [addr_type |-> Text(6)]
Place  == [lat_e7_offset |-> UInt(300), lon_e7_offset |-> UInt(300), utc_timestamp_s |-> UInt(0)]
Gps    == Place @@ [fix_quality |-> UInt(1), satellites |-> UInt(24), hdop_e1 |-> UInt(9),
                    altitude_dm_offset |-> UInt(300), speed_e1_kmh |-> UInt(0)]
Seen(source, payload) ==
    Place @@ [timestamp_ms |-> UInt(300), source |-> Word(source), payload |-> payload]
Start  == [action |-> Text(5), sources |-> Array(<<Text(4), Text(3)>>)]
WifiStart == [wifi_interval_ms |-> UInt(300), wifi_swelling |-> Text(3), country |-> Text(2)]
BleStart  == [ble_window_ms |-> UInt(300), ble_interval_ms |-> UInt(300)]

WifiRecord == Board!WritesRecord(Seen("wifi", Board!WritesWifiSighting(Wifi)))
BleRecord  == Board!WritesRecord(Seen("ble", Board!WritesBleSighting(Named)))
Records    == [records |-> Array(<<WifiRecord, BleRecord>>), backlog_remaining |-> UInt(300)]
Aps        == [aps |-> Array(<<Board!WritesAp(Ap), Board!WritesAp(Ap)>>)]

Inputs ==
    [unencrypted |-> {Header @@ Session @@ [payload |-> p] :
                         p \in {Board!WritesHello([client_nonce |-> Bytes(16)]), Board!WritesQuery(<<>>)}},
     protected   |-> {Header @@ Session @@ Secret},
     pairing     |-> {Header @@ [payload |-> Board!WritesPairInit(
                         [pairing_epoch |-> Bytes(16), device_nonce |-> Bytes(16),
                          esp32_public_key |-> Bytes(32)])]},
     error       |-> {[code |-> Text(64)], [code |-> Text(4), message |-> Text(64)],
                      [code |-> Text(4), request_id |-> UInt(300)],
                      [code |-> Text(4), message |-> Text(64), request_id |-> UInt(1)]},
     query       |-> {<<>>},
     response    |-> {[board |-> Text(5), firmware |-> Text(64), features |-> Array(f)] :
                         f \in {<<>>, [i \in 1..32 |-> Text(9)]}},
     command     |-> {[capability |-> Text(10), request_id |-> UInt(300), arguments |-> a] :
                         a \in {Map(<<>>), Board!WritesStart(Start @@ WifiStart @@ BleStart)}},
     status      |-> {[request_id |-> UInt(300), state |-> Text(7)]}
                     \cup {[request_id |-> UInt(0), state |-> Text(4), result |-> r] :
                            r \in {Board!WritesGps(Gps), Board!WritesRecords(Records), Board!WritesAps(Aps)}},
     ap          |-> {Ap},
     aps         |-> {Aps, [aps |-> Array(<<>>)]},
     device      |-> {Typed(Ble), Typed(Named)},
     devices     |-> {[devices |-> Array(<<Board!WritesDevice(Typed(Named)), Board!WritesDevice(Typed(Ble))>>)]},
     gps         |-> {Gps},
     start       |-> {[action |-> Text(4)], Start, Start @@ WifiStart, Start @@ BleStart,
                      Start @@ WifiStart @@ BleStart},
     wifi        |-> {Wifi},
     ble         |-> {Ble, Named},
     seen        |-> {Seen("wifi", Board!WritesWifiSighting(Wifi)), Seen("ble", Board!WritesBleSighting(Ble))},
     records     |-> {Records},
     pair_init   |-> {[pairing_epoch |-> Bytes(16), device_nonce |-> Bytes(16), esp32_public_key |-> Bytes(32)]},
     pair_reply  |-> {[client_nonce |-> Bytes(16), flipper_public_key |-> Bytes(32), confirmation |-> Bytes(32)]},
     pair_confirm  |-> {[confirmation |-> Bytes(32)]},
     pair_complete |-> {[confirmation |-> Bytes(16)]},
     hello       |-> {[client_nonce |-> Bytes(16)]},
     hello_ack   |-> {[device_nonce |-> Bytes(16), proof |-> Bytes(16)]},
     client_auth |-> {[proof |-> Bytes(16)]}]

Kinds == DOMAIN Inputs

(* The decoder and the encoder of a kind, in either copy.                  *)
BoardReads(k, item) ==
    CASE k = "unencrypted" -> Board!ReadsUnencrypted(item) [] k = "protected" -> Board!ReadsProtected(item)
      [] k = "pairing"  -> Board!ReadsPairingEnvelope(item) [] k = "error"   -> Board!ReadsError(item)
      [] k = "query"    -> Board!ReadsQuery(item)        [] k = "response"   -> Board!ReadsResponse(item)
      [] k = "command"  -> Board!ReadsCommand(item)      [] k = "status"     -> Board!ReadsStatus(item)
      [] k = "ap"       -> Board!ReadsAp(item)           [] k = "aps"        -> Board!ReadsAps(item)
      [] k = "device"   -> Board!ReadsDevice(item)       [] k = "devices"    -> Board!ReadsDevices(item)
      [] k = "gps"      -> Board!ReadsGps(item)          [] k = "start"      -> Board!ReadsStart(item)
      [] k = "wifi"     -> Board!ReadsWifiSighting(item) [] k = "ble"        -> Board!ReadsBleSighting(item)
      [] k = "seen"     -> Board!ReadsRecord(item)       [] k = "records"    -> Board!ReadsRecords(item)
      [] k = "pair_init"    -> Board!ReadsPairInit(item) [] k = "pair_reply" -> Board!ReadsPairReply(item)
      [] k = "pair_confirm" -> Board!ReadsPairConfirm(item)
      [] k = "pair_complete" -> Board!ReadsPairComplete(item)
      [] k = "hello"    -> Board!ReadsHello(item)        [] k = "hello_ack"  -> Board!ReadsHelloAck(item)
      [] k = "client_auth" -> Board!ReadsClientAuth(item)

FlipperReads(k, item) ==
    CASE k = "unencrypted" -> Flipper!ReadsUnencrypted(item) [] k = "protected" -> Flipper!ReadsProtected(item)
      [] k = "pairing"  -> Flipper!ReadsPairingEnvelope(item) [] k = "error" -> Flipper!ReadsError(item)
      [] k = "query"    -> Flipper!ReadsQuery(item)      [] k = "response"   -> Flipper!ReadsResponse(item)
      [] k = "command"  -> Flipper!ReadsCommand(item)    [] k = "status"     -> Flipper!ReadsStatus(item)
      [] k = "ap"       -> Flipper!ReadsAp(item)         [] k = "aps"        -> Flipper!ReadsAps(item)
      [] k = "device"   -> Flipper!ReadsDevice(item)     [] k = "devices"    -> Flipper!ReadsDevices(item)
      [] k = "gps"      -> Flipper!ReadsGps(item)        [] k = "start"      -> Flipper!ReadsStart(item)
      [] k = "wifi"     -> Flipper!ReadsWifiSighting(item) [] k = "ble"      -> Flipper!ReadsBleSighting(item)
      [] k = "seen"     -> Flipper!ReadsRecord(item)     [] k = "records"    -> Flipper!ReadsRecords(item)
      [] k = "pair_init"    -> Flipper!ReadsPairInit(item) [] k = "pair_reply" -> Flipper!ReadsPairReply(item)
      [] k = "pair_confirm" -> Flipper!ReadsPairConfirm(item)
      [] k = "pair_complete" -> Flipper!ReadsPairComplete(item)
      [] k = "hello"    -> Flipper!ReadsHello(item)      [] k = "hello_ack"  -> Flipper!ReadsHelloAck(item)
      [] k = "client_auth" -> Flipper!ReadsClientAuth(item)

BoardWrites(k, fields) ==
    CASE k = "unencrypted" -> Board!WritesUnencrypted(fields) [] k = "protected" -> Board!Encrypts(fields, fields["ciphertext"].n)
      [] k = "pairing"  -> Board!WritesPairingEnvelope(fields) [] k = "error" -> Board!WritesError(fields)
      [] k = "query"    -> Board!WritesQuery(fields)     [] k = "response"   -> Board!WritesResponse(fields)
      [] k = "command"  -> Board!WritesCommand(fields)   [] k = "status"     -> Board!WritesStatus(fields)
      [] k = "ap"       -> Board!WritesAp(fields)        [] k = "aps"        -> Board!WritesAps(fields)
      [] k = "device"   -> Board!WritesDevice(fields)    [] k = "devices"    -> Board!WritesDevices(fields)
      [] k = "gps"      -> Board!WritesGps(fields)       [] k = "start"      -> Board!WritesStart(fields)
      [] k = "wifi"     -> Board!WritesWifiSighting(fields) [] k = "ble"     -> Board!WritesBleSighting(fields)
      [] k = "seen"     -> Board!WritesRecord(fields)    [] k = "records"    -> Board!WritesRecords(fields)
      [] k = "pair_init"    -> Board!WritesPairInit(fields) [] k = "pair_reply" -> Board!WritesPairReply(fields)
      [] k = "pair_confirm" -> Board!WritesPairConfirm(fields)
      [] k = "pair_complete" -> Board!WritesPairComplete(fields)
      [] k = "hello"    -> Board!WritesHello(fields)     [] k = "hello_ack"  -> Board!WritesHelloAck(fields)
      [] k = "client_auth" -> Board!WritesClientAuth(fields)

FlipperWrites(k, fields) ==
    CASE k = "unencrypted" -> Flipper!WritesUnencrypted(fields) [] k = "protected" -> Flipper!Encrypts(fields, fields["ciphertext"].n)
      [] k = "pairing"  -> Flipper!WritesPairingEnvelope(fields) [] k = "error" -> Flipper!WritesError(fields)
      [] k = "query"    -> Flipper!WritesQuery(fields)   [] k = "response"   -> Flipper!WritesResponse(fields)
      [] k = "command"  -> Flipper!WritesCommand(fields) [] k = "status"     -> Flipper!WritesStatus(fields)
      [] k = "ap"       -> Flipper!WritesAp(fields)      [] k = "aps"        -> Flipper!WritesAps(fields)
      [] k = "device"   -> Flipper!WritesDevice(fields)  [] k = "devices"    -> Flipper!WritesDevices(fields)
      [] k = "gps"      -> Flipper!WritesGps(fields)     [] k = "start"      -> Flipper!WritesStart(fields)
      [] k = "wifi"     -> Flipper!WritesWifiSighting(fields) [] k = "ble"   -> Flipper!WritesBleSighting(fields)
      [] k = "seen"     -> Flipper!WritesRecord(fields)  [] k = "records"    -> Flipper!WritesRecords(fields)
      [] k = "pair_init"    -> Flipper!WritesPairInit(fields) [] k = "pair_reply" -> Flipper!WritesPairReply(fields)
      [] k = "pair_confirm" -> Flipper!WritesPairConfirm(fields)
      [] k = "pair_complete" -> Flipper!WritesPairComplete(fields)
      [] k = "hello"    -> Flipper!WritesHello(fields)   [] k = "hello_ack"  -> Flipper!WritesHelloAck(fields)
      [] k = "client_auth" -> Flipper!WritesClientAuth(fields)

-----------------------------------------------------------------------------
Init ==
    /\ kind \in Kinds
    /\ sent \in Inputs[kind]
    /\ record \in {BoardWrites(kind, sent), FlipperWrites(kind, sent)}
    /\ faults = 0

(* One fault, of the outermost map's count or anywhere else.               *)
Damage ==
    /\ faults < MaxFaults
    /\ \E damaged \in Damaged(record) :
          /\ damaged # record
          /\ record' = damaged
    /\ faults' = faults + 1
    /\ UNCHANGED <<kind, sent>>

Miscount ==
    /\ faults < MaxFaults
    /\ record.t = "map"
    /\ \E miscounted \in Miscounted(record) : record' = miscounted
    /\ faults' = faults + 1
    /\ UNCHANGED <<kind, sent>>

Next == Damage \/ Miscount

Spec == Init /\ [][Next]_vars

-----------------------------------------------------------------------------
(* What either firmware encodes is the same record, fits the buffer a      *)
(* record is reassembled in, and the other firmware decodes it to the      *)
(* fields it was given.  The nesting limit of feb_cbor_skip_value is met   *)
(* exactly by the deepest of them.                                         *)
WrittenIsRead ==
    faults = 0 =>
        /\ record = BoardWrites(kind, sent)
        /\ record = FlipperWrites(kind, sent)
        /\ Size(record) <= 768
        /\ BoardReads(kind, record) /\ FlipperReads(kind, record)
        /\ Keys(record) = DOMAIN sent
        /\ \A key \in DOMAIN sent : Get(record, key) = sent[key]

(* The copies accept the same records, so that what one side of the        *)
(* protocol would refuse the other does not let pass ("both firmwares must *)
(* apply it identically or one will accept a record the other rejects",    *)
(* flipper/cbor_records.c:686-688).  Three decoders are known to differ:   *)
(* the Flipper takes any item where a command's arguments or a status's    *)
(* result must be a map, and the board takes wardriving parameters in      *)
(* combinations, and with bytes behind them, that the Flipper's copy does  *)
(* not have a shape for.                                                   *)
FlipperIsLooser == {"command", "status"}
BoardIsLooser   == {"start"}
CopiesReadAlike ==
    /\ BoardReads(kind, record) => FlipperReads(kind, record) \/ kind \in BoardIsLooser
    /\ FlipperReads(kind, record) => BoardReads(kind, record) \/ kind \in FlipperIsLooser

(* A record has one encoding: whatever a decoder accepts is, entry by      *)
(* entry, what the encoder of that firmware makes of the fields it was     *)
(* decoded to -- no other order, no entry twice, no longer head.  Three    *)
(* things are exempt: `version`, which is cut to 32 bits and can have come *)
(* as another number; a query, whose decoders read a list of names that    *)
(* the board's encoder never writes and the Flipper's writes empty; and a  *)
(* protected record, whose encoder seals its plaintext anew (OpensAsSealed *)
(* is about those).                                                        *)
OneEncoding ==
    LET fields  == Fields(record)
        Visible == [record EXCEPT !.e = Counted(record)]
    IN  (kind \notin {"protected", "query"}
         /\ ("version" \in Keys(record) => Get(record, "version").n < VersionModulus)) =>
            /\ BoardReads(kind, record) => BoardWrites(kind, fields) = Visible
            /\ FlipperReads(kind, record) => FlipperWrites(kind, fields) = Visible

(* A protected record opens only as it was sealed and only at the side it  *)
(* was sealed for: every field of its header is under the tag, and the     *)
(* direction is in the nonce.                                              *)
OpensAsSealed ==
    kind = "protected" =>
        LET Opens(direction) ==
                \/ Board!Decrypts(record, direction, sent, "to flipper")
                \/ Flipper!Decrypts(record, direction, sent, "to flipper")
        IN  /\ Opens("to flipper") => Fields(record) = sent
            /\ ~Opens("to board")
            /\ faults = 0 => /\ Board!Decrypts(record, "to flipper", sent, "to flipper")
                             /\ Flipper!Decrypts(record, "to flipper", sent, "to flipper")

(* The two sides derive their keys and proofs from the same bytes, and the *)
(* buffers those are encoded into hold the longest of them (the headers    *)
(* compute 278, 137 and 166 bytes).                                        *)
TranscriptsAgree ==
    kind = "protected" =>
        LET Longest == Header @@ Session @@ [version |-> UInt(100000), sequence |-> UInt(16777215)]
            Pairing == Longest @@ [service_uuid |-> Bytes(16), pairing_epoch |-> Bytes(16),
                                   client_nonce |-> Bytes(16), device_nonce |-> Bytes(16),
                                   esp32_public_key |-> Bytes(32), flipper_public_key |-> Bytes(32)]
        IN  /\ Board!PairingTranscript(Pairing) = Flipper!PairingTranscript(Pairing)
            /\ Board!SessionTranscript(Pairing) = Flipper!SessionTranscript(Pairing)
            /\ Board!AdditionalData(Longest) = Flipper!AdditionalData(Longest)
            /\ Nothing \notin {Board!PairingTranscript(Pairing), Board!SessionTranscript(Pairing),
                               Board!AdditionalData(Longest)}

(* What one side writes the other reads, and what one refuses the other    *)
(* does too.                                                               *)
BothRead == WrittenIsRead /\ CopiesReadAlike

(* Both sides prove and seal the same bytes.                               *)
ProofsAgree == OpensAsSealed /\ TranscriptsAgree
=============================================================================
