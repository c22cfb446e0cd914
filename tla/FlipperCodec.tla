---------------------------- MODULE FlipperCodec ----------------------------
(***************************************************************************)
(* The Flipper's copy of the codec, flipper/cbor_*.c, pairing.c and        *)
(* session.c, written apart from the boards'.  A decoder here takes the    *)
(* number of entries from the head, refuses a number the record cannot     *)
(* have, and then expects one key after the other.                         *)
(***************************************************************************)
EXTENDS CborItem

MaxPayload == 512
MaxNesting == 4
MaxMap     == 8
MaxArray   == 32
MaxText    == 64
MaxBytes   == 512
MaxBoardId == 32

(* decode_head.                                                            *)
ReadsHead(item, kind) == item.t = kind /\ item.head = "shortest"

ReadsUInt(item)         == ReadsHead(item, "uint")
ReadsText(item, limit)  == ReadsHead(item, "text") /\ item.n <= limit
ReadsBytes(item, limit) == ReadsHead(item, "bytes") /\ item.n <= limit
ReadsExactly(item, length) == ReadsBytes(item, length) /\ item.n = length
ReadsByte(item)         == ReadsUInt(item) /\ item.n <= 255

RECURSIVE Skips(_, _)
(* feb_cbor_skip_value: a key is read at its map's own level.              *)
Skips(item, depth) ==
    /\ depth <= MaxNesting
    /\ CASE item.t = "uint"  -> ReadsUInt(item)
         [] item.t = "bytes" -> ReadsBytes(item, MaxBytes)
         [] item.t = "text"  -> ReadsText(item, MaxText)
         [] item.t = "array" -> /\ ReadsHead(item, "array")
                                /\ item.n <= MaxArray
                                /\ \A i \in DOMAIN item.e : Skips(item.e[i].v, depth + 1)
         [] item.t = "map"   -> /\ ReadsHead(item, "map")
                                /\ item.n <= MaxMap
                                /\ \A i, j \in DOMAIN item.e : item.e[i].k = item.e[j].k => i = j
                                /\ \A i \in DOMAIN item.e :
                                      /\ Len(item.e[i].k) <= MaxText
                                      /\ Skips(item.e[i].v, depth + 1)
         [] OTHER -> FALSE

(* decode_expected_key, once per key of the shape the count stands for.    *)
Reads(item, shapes, Fits(_, _)) ==
    /\ ReadsHead(item, "map")
    /\ item.n <= Len(item.e)
    /\ \E names \in shapes :
          /\ item.n = Len(names)
          /\ \A i \in DOMAIN names : item.e[i].k = names[i] /\ Fits(names[i], item.e[i].v)

ReadsArrayOf(item, limit, ReadsElement(_)) ==
    /\ ReadsHead(item, "array")
    /\ item.n <= limit
    /\ \A i \in DOMAIN item.e : ReadsElement(item.e[i].v)

(* The encoders write one key after the other, leaving out what is absent. *)
Writes(fields, names) ==
    LET present == SelectSeq(names, LAMBDA name : name \in DOMAIN fields)
    IN  Map([i \in DOMAIN present |-> [k |-> present[i], v |-> fields[present[i]]]])

Within(item, capacity) == IF Size(item) <= capacity THEN item ELSE Nothing

-----------------------------------------------------------------------------
(* The envelopes.  Only these, and a wardriving command with parameters,   *)
(* ask that nothing follows.                                               *)
Ends(item) == item.n = Len(item.e)

UnencryptedKeys == <<"version", "type", "session_id", "board_id", "payload">>
WritesUnencrypted(fields) ==
    IF Size(fields["payload"]) > MaxPayload THEN Nothing ELSE Writes(fields, UnencryptedKeys)
ReadsUnencrypted(item) ==
    LET Fits(key, value) ==
          CASE key = "version"            -> ReadsUInt(value)
            [] key \in {"type", "board_id"} -> ReadsText(value, MaxText)
            [] key = "session_id"         -> ReadsExactly(value, 8)
            [] key = "payload"            -> Skips(value, 2) /\ Size(value) <= MaxPayload
    IN  Reads(item, {UnencryptedKeys}, Fits) /\ Ends(item)

ProtectedKeys ==
    <<"version", "type", "session_id", "board_id", "sequence", "ciphertext", "tag">>
WritesProtected(fields) == Writes(fields, ProtectedKeys)
ReadsProtected(item) ==
    LET Fits(key, value) ==
          CASE key \in {"version", "sequence"} -> ReadsUInt(value)
            [] key \in {"type", "board_id"}    -> ReadsText(value, MaxText)
            [] key = "session_id" -> ReadsExactly(value, 8)
            [] key = "ciphertext" -> ReadsBytes(value, MaxBytes)
            [] key = "tag"        -> ReadsExactly(value, 16)
    IN  Reads(item, {ProtectedKeys}, Fits) /\ Ends(item)

PairingKeys == <<"version", "type", "board_id", "payload">>
WritesPairingEnvelope(fields) ==
    IF fields["board_id"].n > MaxBoardId THEN Nothing ELSE Writes(fields, PairingKeys)
ReadsPairingEnvelope(item) ==
    LET Fits(key, value) == CASE key = "version"  -> ReadsUInt(value)
                              [] key = "type"     -> ReadsText(value, MaxText)
                              [] key = "board_id" -> ReadsText(value, MaxBoardId)
                              [] key = "payload"  -> Skips(value, 2)
    IN  Reads(item, {PairingKeys}, Fits) /\ Ends(item)

-----------------------------------------------------------------------------
(* Payloads of the protocol's own records.                                 *)
ErrorKeys == <<"code", "message", "request_id">>
WritesError(fields) == Writes(fields, ErrorKeys)
ReadsError(item) ==
    LET Fits(key, value) == IF key = "request_id" THEN ReadsUInt(value) ELSE ReadsText(value, MaxText)
    IN  Reads(item, {<<"code">>, <<"code", "message">>, <<"code", "request_id">>, ErrorKeys}, Fits)

WritesQuery(fields) ==
    IF "requested" \in DOMAIN fields THEN Map(<<[k |-> "requested", v |-> Array(<<>>)]>>) ELSE Map(<<>>)
ReadsQuery(item) ==
    LET ReadsName(value) == ReadsText(value, MaxText)
        Fits(key, value) == ReadsArrayOf(value, MaxArray, ReadsName)
    IN  Reads(item, {<<>>, <<"requested">>}, Fits)

ResponseKeys == <<"board", "firmware", "features">>
WritesResponse(fields) ==
    IF fields["features"].n > MaxArray THEN Nothing ELSE Writes(fields, ResponseKeys)
ReadsResponse(item) ==
    LET ReadsName(value) == ReadsText(value, MaxText)
        Fits(key, value) == IF key = "features" THEN ReadsArrayOf(value, MaxArray, ReadsName)
                            ELSE ReadsText(value, MaxText)
    IN  Reads(item, {ResponseKeys}, Fits)

(* `arguments` and `result` may be any item, where the boards ask for a    *)
(* map.                                                                    *)
CommandKeys == <<"capability", "request_id", "arguments">>
WritesCommand(fields) == Writes(fields, CommandKeys)
ReadsCommand(item) ==
    LET Fits(key, value) == CASE key = "capability" -> ReadsText(value, MaxText)
                              [] key = "request_id" -> ReadsUInt(value)
                              [] key = "arguments"  -> Skips(value, 0)
    IN  Reads(item, {CommandKeys}, Fits)

StatusKeys == <<"request_id", "state", "result">>
WritesStatus(fields) == Writes(fields, StatusKeys)
(* Mutant of ReadsStatus: `result` is one level below the payload.         *)
ReadsStatusFromInside(item) ==
    LET Fits(key, value) == CASE key = "request_id" -> ReadsUInt(value)
                              [] key = "state"      -> ReadsText(value, MaxText)
                              [] key = "result"     -> Skips(value, 3)
    IN  Reads(item, {<<"request_id", "state">>, StatusKeys}, Fits)
ReadsStatus(item) ==
    LET Fits(key, value) == CASE key = "request_id" -> ReadsUInt(value)
                              [] key = "state"      -> ReadsText(value, MaxText)
                              [] key = "result"     -> Skips(value, 0)
    IN  Reads(item, {<<"request_id", "state">>, StatusKeys}, Fits)

-----------------------------------------------------------------------------
(* Results of the capabilities.                                            *)
ApKeys == <<"ssid", "bssid", "rssi_offset", "channel", "phy", "auth">>
WritesAp(fields) ==
    IF fields["ssid"].n > 32 \/ fields["rssi_offset"].n > 255 THEN Nothing ELSE Writes(fields, ApKeys)
ReadsAp(item) ==
    LET Fits(key, value) == CASE key = "ssid"            -> ReadsBytes(value, 32)
                              [] key = "bssid"           -> ReadsExactly(value, 6)
                              [] key = "rssi_offset"     -> ReadsByte(value)
                              [] key = "channel"         -> ReadsUInt(value)
                              [] key \in {"phy", "auth"} -> ReadsText(value, MaxText)
    IN  Reads(item, {ApKeys}, Fits)

WritesAps(fields) == IF fields["aps"].n > MaxArray THEN Nothing ELSE Writes(fields, <<"aps">>)
ReadsAps(item) ==
    LET Fits(key, value) == ReadsArrayOf(value, MaxArray, ReadsAp)
    IN  Reads(item, {<<"aps">>}, Fits)

DeviceKeys == <<"address", "name", "rssi_offset", "addr_type">>
WritesDevice(fields) ==
    IF \/ "name" \in DOMAIN fields /\ fields["name"].n > 31
       \/ fields["rssi_offset"].n > 255
    THEN Nothing ELSE Writes(fields, DeviceKeys)
ReadsDevice(item) ==
    LET Fits(key, value) == CASE key = "address"     -> ReadsExactly(value, 6)
                              [] key = "name"        -> ReadsText(value, 31)
                              [] key = "rssi_offset" -> ReadsByte(value)
                              [] key = "addr_type"   -> ReadsText(value, MaxText)
    IN  Reads(item, {<<"address", "rssi_offset", "addr_type">>, DeviceKeys}, Fits)

WritesDevices(fields) == IF fields["devices"].n > MaxArray THEN Nothing ELSE Writes(fields, <<"devices">>)
ReadsDevices(item) ==
    LET Fits(key, value) == ReadsArrayOf(value, MaxArray, ReadsDevice)
    IN  Reads(item, {<<"devices">>}, Fits)

GpsKeys == <<"lat_e7_offset", "lon_e7_offset", "fix_quality", "satellites", "hdop_e1",
             "utc_timestamp_s", "altitude_dm_offset", "speed_e1_kmh">>
WritesGps(fields) == Writes(fields, GpsKeys)
ReadsGps(item) ==
    LET Fits(key, value) == ReadsUInt(value)
    IN  Reads(item, {GpsKeys}, Fits)

-----------------------------------------------------------------------------
(* Wardriving.                                                             *)
WritesStart(fields) ==
    IF "sources" \in DOMAIN fields /\ fields["sources"].n > 2 THEN Nothing
    ELSE Writes(fields, <<"action", "sources", "wifi_interval_ms", "ble_window_ms",
                          "ble_interval_ms", "wifi_swelling", "country">>)
(* The number of entries decides which blocks follow the sources; nothing  *)
(* may follow those.  An action alone is accepted whatever follows it.     *)
ReadsStart(item) ==
    LET ReadsName(value) == ReadsText(value, MaxText)
        Fits(key, value) ==
          CASE key = "sources" -> ReadsArrayOf(value, 2, ReadsName)
            [] key \in {"wifi_interval_ms", "ble_window_ms", "ble_interval_ms"} -> ReadsUInt(value)
            [] key \in {"action", "wifi_swelling", "country"} -> ReadsText(value, MaxText)
        Sources == <<"action", "sources">>
        Ble     == <<"ble_window_ms", "ble_interval_ms">>
    IN  \/ Reads(item, {<<"action">>}, Fits)
        \/ /\ Reads(item, {Sources, Sources \o Ble,
                           Sources \o <<"wifi_interval_ms", "wifi_swelling", "country">>,
                           Sources \o <<"wifi_interval_ms">> \o Ble \o <<"wifi_swelling", "country">>}, Fits)
           /\ Ends(item)

SightingKeys == <<"ssid", "bssid", "rssi_offset", "channel", "auth">>
WritesWifiSighting(fields) ==
    IF fields["ssid"].n > 32 \/ fields["rssi_offset"].n > 255 THEN Nothing
    ELSE Writes(fields, SightingKeys)
ReadsWifiSighting(item) ==
    LET Fits(key, value) == CASE key = "ssid"        -> ReadsBytes(value, 32)
                              [] key = "bssid"       -> ReadsExactly(value, 6)
                              [] key = "rssi_offset" -> ReadsByte(value)
                              [] key = "channel"     -> ReadsUInt(value)
                              [] key = "auth"        -> ReadsText(value, MaxText)
    IN  Reads(item, {SightingKeys}, Fits)

WritesBleSighting(fields) ==
    IF \/ "name" \in DOMAIN fields /\ fields["name"].n > 31
       \/ fields["rssi_offset"].n > 255
    THEN Nothing ELSE Writes(fields, <<"address", "name", "rssi_offset">>)
ReadsBleSighting(item) ==
    LET Fits(key, value) == CASE key = "address"     -> ReadsExactly(value, 6)
                              [] key = "name"        -> ReadsText(value, 31)
                              [] key = "rssi_offset" -> ReadsByte(value)
    IN  Reads(item, {<<"address", "rssi_offset">>, <<"address", "name", "rssi_offset">>}, Fits)

RecordKeys == <<"timestamp_ms", "utc_timestamp_s", "lat_e7_offset", "lon_e7_offset",
                "source", "payload">>
WritesRecord(fields) == Writes(fields, RecordKeys)
ReadsRecord(item) ==
    LET Fits(key, value) ==
          CASE key = "source"  -> ReadsText(value, MaxText)
            [] key = "payload" -> CASE Get(item, "source").s = "wifi" -> ReadsWifiSighting(value)
                                    [] Get(item, "source").s = "ble"  -> ReadsBleSighting(value)
                                    [] OTHER -> FALSE
            [] OTHER -> ReadsUInt(value)
    IN  Reads(item, {RecordKeys}, Fits)

RecordsKeys == <<"records", "backlog_remaining">>
WritesRecords(fields) == IF fields["records"].n > MaxArray THEN Nothing ELSE Writes(fields, RecordsKeys)
ReadsRecords(item) ==
    LET Fits(key, value) == IF key = "records" THEN ReadsArrayOf(value, MaxArray, ReadsRecord)
                            ELSE ReadsUInt(value)
    IN  Reads(item, {RecordsKeys}, Fits)

-----------------------------------------------------------------------------
(* Pairing and session payloads: decode_fixed_bytes under each key.        *)
ReadsFixed(item, keys, Length) ==
    LET Fits(key, value) == ReadsExactly(value, Length[key])
    IN  Reads(item, {keys}, Fits)

InitKeys == <<"pairing_epoch", "device_nonce", "esp32_public_key">>
WritesPairInit(fields) == Writes(fields, InitKeys)
ReadsPairInit(item) ==
    ReadsFixed(item, InitKeys, [pairing_epoch |-> 16, device_nonce |-> 16, esp32_public_key |-> 32])

ReplyKeys == <<"client_nonce", "flipper_public_key", "confirmation">>
WritesPairReply(fields) == Writes(fields, ReplyKeys)
ReadsPairReply(item) ==
    ReadsFixed(item, ReplyKeys, [client_nonce |-> 16, flipper_public_key |-> 32, confirmation |-> 32])

WritesPairConfirm(fields) == Writes(fields, <<"confirmation">>)
ReadsPairConfirm(item) == ReadsFixed(item, <<"confirmation">>, [confirmation |-> 32])
WritesPairComplete(fields) == Writes(fields, <<"confirmation">>)
ReadsPairComplete(item) == ReadsFixed(item, <<"confirmation">>, [confirmation |-> 16])

WritesHello(fields) == Writes(fields, <<"client_nonce">>)
ReadsHello(item) == ReadsFixed(item, <<"client_nonce">>, [client_nonce |-> 16])
AckKeys == <<"device_nonce", "proof">>
WritesHelloAck(fields) == Writes(fields, AckKeys)
ReadsHelloAck(item) == ReadsFixed(item, AckKeys, [device_nonce |-> 16, proof |-> 16])
WritesClientAuth(fields) == Writes(fields, <<"proof">>)
ReadsClientAuth(item) == ReadsFixed(item, <<"proof">>, [proof |-> 16])

PairingTranscript(fields) ==
    IF fields["board_id"].n > MaxBoardId THEN Nothing
    ELSE Within(Writes(fields, <<"version", "service_uuid", "board_id", "pairing_epoch", "client_nonce",
                                 "device_nonce", "esp32_public_key", "flipper_public_key">>), 288)
(* Mutant of SessionTranscript: the nonces in the other order.             *)
SwappedTranscript(fields) ==
    Within(Writes(fields, <<"version", "board_id", "session_id", "device_nonce", "client_nonce">>), 160)
SessionTranscript(fields) ==
    IF fields["board_id"].n > MaxBoardId THEN Nothing
    ELSE Within(Writes(fields, <<"version", "board_id", "session_id", "client_nonce", "device_nonce">>), 160)
AdditionalData(fields) ==
    IF fields["board_id"].n > MaxBoardId \/ fields["type"].n > MaxText THEN Nothing
    ELSE Within(Writes(fields, <<"version", "type", "session_id", "sequence", "board_id">>), 200)

(* feb_session_build_nonce, feb_session_encrypt_record and                 *)
(* feb_session_decrypt_record.                                             *)
Nonce(fields, direction) ==
    <<fields["session_id"], direction, fields["sequence"].n % 16777216>>
Encrypts(fields, payload) ==
    IF payload > MaxPayload \/ AdditionalData(fields) = Nothing THEN Nothing
    ELSE WritesProtected([key \in Range(ProtectedKeys) |->
                            CASE key = "ciphertext" -> Blob(payload, "sealed")
                              [] key = "tag"        -> Blob(16, "tag")
                              [] OTHER              -> fields[key]])
Decrypts(item, direction, sealed, sealedFor) ==
    /\ ReadsProtected(item)
    /\ LET fields == Fields(item)
       IN  /\ fields["ciphertext"].n <= MaxPayload
           /\ AdditionalData(fields) # Nothing
           /\ AdditionalData(fields) = AdditionalData(sealed)
           /\ Nonce(fields, direction) = Nonce(sealed, sealedFor)
           /\ fields["ciphertext"] = sealed["ciphertext"]
           /\ fields["tag"] = sealed["tag"]
=============================================================================
