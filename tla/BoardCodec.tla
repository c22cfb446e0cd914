----------------------------- MODULE BoardCodec -----------------------------
(***************************************************************************)
(* The boards' copy of the codec, components/feb_protocol: what each       *)
(* encoder writes and which items each decoder accepts.  A decoder here    *)
(* reads as many entries as the head counts, looks every key up in its     *)
(* table of names, and asks afterwards whether a required one was seen.    *)
(***************************************************************************)
EXTENDS CborItem

MaxPayload == 512
MaxNesting == 4
MaxMap     == 8
MaxArray   == 32
MaxText    == 64
MaxBytes   == 512
MaxBoardId == 32

(* Mutant of ReadsHead: a head may be longer than it needs to be.          *)
ReadsLongHead(item, kind) == item.t = kind /\ item.head # "indefinite"

(* decode_head: only the shortest form, never an indefinite length.        *)
ReadsHead(item, kind) == item.t = kind /\ item.head = "shortest"

ReadsUInt(item)         == ReadsHead(item, "uint")
ReadsText(item, limit)  == ReadsHead(item, "text") /\ item.n <= limit
ReadsBytes(item, limit) == ReadsHead(item, "bytes") /\ item.n <= limit
ReadsExactly(item, length) == ReadsBytes(item, length) /\ item.n = length
ReadsByte(item)         == ReadsUInt(item) /\ item.n <= 255

RECURSIVE Skips(_, _)
(* feb_cbor_skip_value: any item of the protocol's subset, no deeper than  *)
(* the limit, whatever its fields mean.  A key is one level down too.      *)
Skips(item, depth) ==
    /\ depth <= MaxNesting
    /\ \/ ReadsUInt(item)
       \/ ReadsText(item, MaxText)
       \/ ReadsBytes(item, MaxBytes)
       \/ /\ ReadsHead(item, "array")
          /\ item.n <= MaxArray
          /\ \A i \in DOMAIN item.e : Skips(item.e[i].v, depth + 1)
       \/ /\ ReadsHead(item, "map")
          /\ item.n <= MaxMap
          /\ \A i \in DOMAIN item.e :
                /\ depth + 1 <= MaxNesting
                /\ Len(item.e[i].k) <= MaxText
                /\ \A j \in 1..i-1 : item.e[j].k # item.e[i].k
                /\ Skips(item.e[i].v, depth + 1)

(* The loop every decoder of this copy has: names[], seen[], next_min.     *)
Reads(item, names, required, Fits(_, _)) ==
    LET Index(i) == CHOOSE p \in DOMAIN names : names[p] = item.e[i].k
    IN  /\ ReadsHead(item, "map")
        /\ item.n <= Len(names)
        /\ item.n <= Len(item.e)
        /\ \A i \in 1..item.n :
              /\ item.e[i].k \in Range(names)
              /\ i > 1 => Index(i) > Index(i - 1)
              /\ Fits(item.e[i].k, item.e[i].v)
        /\ required \subseteq Keys(item)

ReadsArrayOf(item, limit, ReadsElement(_)) ==
    /\ ReadsHead(item, "array")
    /\ item.n <= limit
    /\ \A i \in DOMAIN item.e : ReadsElement(item.e[i].v)

(* The encoders write the fields they are given in the table's order; the  *)
(* count in the head is the number of those.                               *)
Writes(fields, names) ==
    LET present == SelectSeq(names, LAMBDA name : name \in DOMAIN fields)
    IN  Map([i \in DOMAIN present |-> [k |-> present[i], v |-> fields[present[i]]]])

Within(item, capacity) == IF Size(item) <= capacity THEN item ELSE Nothing

-----------------------------------------------------------------------------
(* The envelopes.  Only these ask that nothing follows the record.         *)
Ends(item) == item.n = Len(item.e)

UnencryptedNames == <<"version", "type", "session_id", "board_id", "payload">>
WritesUnencrypted(fields) ==
    IF Size(fields["payload"]) > MaxPayload THEN Nothing ELSE Writes(fields, UnencryptedNames)
ReadsUnencrypted(item) ==
    LET Fits(key, value) ==
          CASE key = "version"    -> ReadsUInt(value)
            [] key = "session_id" -> ReadsExactly(value, 8)
            [] key = "payload"    -> Skips(value, 2) /\ Size(value) <= MaxPayload
            [] OTHER              -> ReadsText(value, MaxText)
    IN  Reads(item, UnencryptedNames, Range(UnencryptedNames), Fits) /\ Ends(item)

ProtectedNames ==
    <<"version", "type", "session_id", "board_id", "sequence", "ciphertext", "tag">>
WritesProtected(fields) == Writes(fields, ProtectedNames)
ReadsProtected(item) ==
    LET Fits(key, value) ==
          CASE key \in {"version", "sequence"} -> ReadsUInt(value)
            [] key = "session_id" -> ReadsExactly(value, 8)
            [] key = "ciphertext" -> ReadsBytes(value, MaxBytes)
            [] key = "tag"        -> ReadsExactly(value, 16)
            [] OTHER              -> ReadsText(value, MaxText)
    IN  Reads(item, ProtectedNames, Range(ProtectedNames), Fits) /\ Ends(item)

PairingNames == <<"version", "type", "board_id", "payload">>
WritesPairingEnvelope(fields) ==
    IF fields["board_id"].n > MaxBoardId THEN Nothing ELSE Writes(fields, PairingNames)
ReadsPairingEnvelope(item) ==
    LET Fits(key, value) ==
          CASE key = "version"  -> ReadsUInt(value)
            [] key = "type"     -> ReadsText(value, MaxText)
            [] key = "board_id" -> ReadsText(value, MaxText) /\ value.n <= MaxBoardId
            [] key = "payload"  -> Skips(value, 2)
    IN  Reads(item, PairingNames, Range(PairingNames), Fits) /\ Ends(item)

-----------------------------------------------------------------------------
(* Payloads of the protocol's own records.                                 *)
ErrorNames == <<"code", "message", "request_id">>
WritesError(fields) == Writes(fields, ErrorNames)
ReadsError(item) ==
    LET Fits(key, value) == IF key = "request_id" THEN ReadsUInt(value) ELSE ReadsText(value, MaxText)
    IN  Reads(item, ErrorNames, {"code"}, Fits)

WritesQuery(fields) == Map(<<>>)        \* `requested` is never written
ReadsQuery(item) ==
    LET ReadsName(value) == ReadsText(value, MaxText)
        Fits(key, value) == ReadsArrayOf(value, MaxArray, ReadsName)
    IN  Reads(item, <<"requested">>, {}, Fits)

ResponseNames == <<"board", "firmware", "features">>
WritesResponse(fields) ==
    IF fields["features"].n > MaxArray THEN Nothing ELSE Writes(fields, ResponseNames)
ReadsResponse(item) ==
    LET ReadsName(value) == ReadsText(value, MaxText)
        Fits(key, value) == IF key = "features" THEN ReadsArrayOf(value, MaxArray, ReadsName)
                            ELSE ReadsText(value, MaxText)
    IN  Reads(item, ResponseNames, Range(ResponseNames), Fits)

CommandNames == <<"capability", "request_id", "arguments">>
WritesCommand(fields) == Writes(fields, CommandNames)
ReadsCommand(item) ==
    LET Fits(key, value) == CASE key = "capability" -> ReadsText(value, MaxText)
                              [] key = "request_id" -> ReadsUInt(value)
                              [] key = "arguments"  -> value.t = "map" /\ Skips(value, 0)
    IN  Reads(item, CommandNames, Range(CommandNames), Fits)

StatusNames == <<"request_id", "state", "result">>
WritesStatus(fields) == Writes(fields, StatusNames)
ReadsStatus(item) ==
    LET Fits(key, value) == CASE key = "request_id" -> ReadsUInt(value)
                              [] key = "state"      -> ReadsText(value, MaxText)
                              [] key = "result"     -> value.t = "map" /\ Skips(value, 0)
    IN  Reads(item, StatusNames, {"request_id", "state"}, Fits)

-----------------------------------------------------------------------------
(* Results of the capabilities.                                            *)
ApNames == <<"ssid", "bssid", "rssi_offset", "channel", "phy", "auth">>
WritesAp(fields) ==
    IF fields["ssid"].n > 32 \/ fields["rssi_offset"].n > 255 THEN Nothing ELSE Writes(fields, ApNames)
ReadsAp(item) ==
    LET Fits(key, value) == CASE key = "ssid"        -> ReadsBytes(value, 32)
                              [] key = "bssid"       -> ReadsExactly(value, 6)
                              [] key = "rssi_offset" -> ReadsByte(value)
                              [] key = "channel"     -> ReadsUInt(value)
                              [] OTHER               -> ReadsText(value, MaxText)
    IN  Reads(item, ApNames, Range(ApNames), Fits)

WritesAps(fields) == IF fields["aps"].n > MaxArray THEN Nothing ELSE Writes(fields, <<"aps">>)
ReadsAps(item) ==
    LET Fits(key, value) == ReadsArrayOf(value, MaxArray, ReadsAp)
    IN  Reads(item, <<"aps">>, {"aps"}, Fits)

DeviceNames == <<"address", "name", "rssi_offset", "addr_type">>
WritesDevice(fields) ==
    IF fields["rssi_offset"].n > 255 THEN Nothing ELSE Writes(fields, DeviceNames)
ReadsDevice(item) ==
    LET Fits(key, value) == CASE key = "address"     -> ReadsExactly(value, 6)
                              [] key = "name"        -> ReadsText(value, 31)
                              [] key = "rssi_offset" -> ReadsByte(value)
                              [] key = "addr_type"   -> ReadsText(value, MaxText)
    IN  Reads(item, DeviceNames, Range(DeviceNames) \ {"name"}, Fits)

WritesDevices(fields) == IF fields["devices"].n > MaxArray THEN Nothing ELSE Writes(fields, <<"devices">>)
ReadsDevices(item) ==
    LET Fits(key, value) == ReadsArrayOf(value, MaxArray, ReadsDevice)
    IN  Reads(item, <<"devices">>, {"devices"}, Fits)

GpsNames == <<"lat_e7_offset", "lon_e7_offset", "fix_quality", "satellites", "hdop_e1",
              "utc_timestamp_s", "altitude_dm_offset", "speed_e1_kmh">>
WritesGps(fields) == Writes(fields, GpsNames)
ReadsGps(item) ==
    LET Fits(key, value) == ReadsUInt(value)
    IN  Reads(item, GpsNames, Range(GpsNames), Fits)

-----------------------------------------------------------------------------
(* Wardriving.                                                             *)
StartNames == <<"action", "sources", "wifi_interval_ms", "ble_window_ms", "ble_interval_ms",
                "wifi_swelling", "country">>
WritesStart(fields) ==
    IF "sources" \in DOMAIN fields /\ fields["sources"].n > 2 THEN Nothing
    ELSE Writes(fields, StartNames)
ReadsStart(item) ==
    LET ReadsName(value) == ReadsText(value, MaxText)
        Fits(key, value) ==
          CASE key = "sources" -> ReadsArrayOf(value, 2, ReadsName)
            [] key \in {"wifi_interval_ms", "ble_window_ms", "ble_interval_ms"} -> ReadsUInt(value)
            [] OTHER -> ReadsText(value, MaxText)
    IN  /\ Reads(item, StartNames, {"action"}, Fits)
        /\ "ble_window_ms" \in Keys(item) <=> "ble_interval_ms" \in Keys(item)

SightingNames == <<"ssid", "bssid", "rssi_offset", "channel", "auth">>
WritesWifiSighting(fields) ==
    IF fields["ssid"].n > 32 \/ fields["rssi_offset"].n > 255 THEN Nothing
    ELSE Writes(fields, SightingNames)
ReadsWifiSighting(item) ==
    LET Fits(key, value) == CASE key = "ssid"        -> ReadsBytes(value, 32)
                              [] key = "bssid"       -> ReadsExactly(value, 6)
                              [] key = "rssi_offset" -> ReadsByte(value)
                              [] key = "channel"     -> ReadsUInt(value)
                              [] key = "auth"        -> ReadsText(value, MaxText)
    IN  Reads(item, SightingNames, Range(SightingNames), Fits)

BleSightingNames == <<"address", "name", "rssi_offset">>
WritesBleSighting(fields) ==
    IF fields["rssi_offset"].n > 255 THEN Nothing ELSE Writes(fields, BleSightingNames)
ReadsBleSighting(item) ==
    LET Fits(key, value) == CASE key = "address"     -> ReadsExactly(value, 6)
                              [] key = "name"        -> ReadsText(value, 31)
                              [] key = "rssi_offset" -> ReadsByte(value)
    IN  Reads(item, BleSightingNames, {"address", "rssi_offset"}, Fits)

RecordNames == <<"timestamp_ms", "utc_timestamp_s", "lat_e7_offset", "lon_e7_offset",
                 "source", "payload">>
WritesRecord(fields) == Writes(fields, RecordNames)
ReadsRecord(item) ==
    LET Source == IF "source" \in Keys(item) THEN Get(item, "source").s ELSE ""
        Fits(key, value) ==
          CASE key = "source"  -> ReadsText(value, MaxText) /\ value.s \in {"wifi", "ble"}
            [] key = "payload" -> \/ Source = "wifi" /\ ReadsWifiSighting(value)
                                  \/ Source = "ble" /\ ReadsBleSighting(value)
            [] OTHER -> ReadsUInt(value)
    IN  Reads(item, RecordNames, Range(RecordNames), Fits)

RecordsNames == <<"records", "backlog_remaining">>
WritesRecords(fields) == IF fields["records"].n > MaxArray THEN Nothing ELSE Writes(fields, RecordsNames)
ReadsRecords(item) ==
    LET Fits(key, value) == IF key = "records" THEN ReadsArrayOf(value, MaxArray, ReadsRecord)
                            ELSE ReadsUInt(value)
    IN  Reads(item, RecordsNames, Range(RecordsNames), Fits)

-----------------------------------------------------------------------------
(* Pairing and session payloads: fields of a fixed length.                 *)
ReadsFixed(item, names, Length) ==
    LET Fits(key, value) == ReadsExactly(value, Length[key])
    IN  Reads(item, names, Range(names), Fits)

InitNames == <<"pairing_epoch", "device_nonce", "esp32_public_key">>
WritesPairInit(fields) == Writes(fields, InitNames)
ReadsPairInit(item) ==
    ReadsFixed(item, InitNames, [pairing_epoch |-> 16, device_nonce |-> 16, esp32_public_key |-> 32])

ReplyNames == <<"client_nonce", "flipper_public_key", "confirmation">>
WritesPairReply(fields) == Writes(fields, ReplyNames)
ReadsPairReply(item) ==
    ReadsFixed(item, ReplyNames, [client_nonce |-> 16, flipper_public_key |-> 32, confirmation |-> 32])

WritesPairConfirm(fields) == Writes(fields, <<"confirmation">>)
ReadsPairConfirm(item) == ReadsFixed(item, <<"confirmation">>, [confirmation |-> 32])
WritesPairComplete(fields) == Writes(fields, <<"confirmation">>)
ReadsPairComplete(item) == ReadsFixed(item, <<"confirmation">>, [confirmation |-> 16])

WritesHello(fields) == Writes(fields, <<"client_nonce">>)
ReadsHello(item) == ReadsFixed(item, <<"client_nonce">>, [client_nonce |-> 16])
AckNames == <<"device_nonce", "proof">>
WritesHelloAck(fields) == Writes(fields, AckNames)
ReadsHelloAck(item) == ReadsFixed(item, AckNames, [device_nonce |-> 16, proof |-> 16])
WritesClientAuth(fields) == Writes(fields, <<"proof">>)
ReadsClientAuth(item) == ReadsFixed(item, <<"proof">>, [proof |-> 16])

(* What both sides derive a key or a proof from, encoded into a buffer of  *)
(* the size the header computes.                                           *)
PairingTranscript(fields) ==
    IF fields["board_id"].n > MaxBoardId THEN Nothing
    ELSE Within(Writes(fields, <<"version", "service_uuid", "board_id", "pairing_epoch", "client_nonce",
                                 "device_nonce", "esp32_public_key", "flipper_public_key">>), 288)
SessionTranscript(fields) ==
    IF fields["board_id"].n > MaxBoardId THEN Nothing
    ELSE Within(Writes(fields, <<"version", "board_id", "session_id", "client_nonce", "device_nonce">>), 160)
AdditionalData(fields) ==
    IF fields["board_id"].n > MaxBoardId \/ fields["type"].n > MaxText THEN Nothing
    ELSE Within(Writes(fields, <<"version", "type", "session_id", "sequence", "board_id">>), 200)

(* feb_session_build_nonce: the session, the direction, 24 bits of the     *)
(* sequence number.                                                        *)
Nonce(fields, direction) ==
    <<fields["session_id"], direction, fields["sequence"].n % 16777216>>

(* feb_session_encrypt_record and feb_session_decrypt_record.  The cipher  *)
(* opens what it sealed: the same nonce, the same additional data, the     *)
(* ciphertext and the tag as they were.                                    *)
Encrypts(fields, payload) ==
    IF \/ payload > MaxPayload
       \/ fields["board_id"].n > MaxBoardId
       \/ fields["type"].n > MaxText
       \/ AdditionalData(fields) = Nothing
    THEN Nothing
    ELSE WritesProtected([key \in Range(ProtectedNames) |->
                            CASE key = "ciphertext" -> Blob(payload, "sealed")
                              [] key = "tag"        -> Blob(16, "tag")
                              [] OTHER              -> fields[key]])
Decrypts(item, direction, sealed, sealedFor) ==
    /\ ReadsProtected(item)
    /\ LET fields == Fields(item)
       IN  /\ fields["ciphertext"].n <= MaxPayload
           /\ AdditionalData(fields) # Nothing
           /\ AdditionalData(fields) = AdditionalData(sealed)
           /\ Nonce(fields, direction) = Nonce(sealed, sealedFor)
           /\ fields["ciphertext"] = sealed["ciphertext"]
           /\ fields["tag"] = sealed["tag"]
=============================================================================
