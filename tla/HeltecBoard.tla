---------------------------- MODULE HeltecBoard ----------------------------
(***************************************************************************)
(* The Heltec firmware, heltec/main/main.c: the search for the Flipper,    *)
(* the discovery of its service, pairing and runtime authentication, the   *)
(* transmit pipeline and the two manual scans, as one module.  For the     *)
(* ESP32 board ScanArbiter, EspTx and Session take these apart; here the   *)
(* scans' batches go through the pipeline that the handshake has set up,   *)
(* fragment by fragment, and a continuation that the pipeline loses is a   *)
(* scan that never ends.                                                   *)
(*                                                                         *)
(* Handlers run on the NimBLE host task, one at a time; only WifiScanDone  *)
(* runs on the event task.  The Flipper, the radio drivers and the link    *)
(* are external: the ATT server answers writes in order and before the     *)
(* application sends its own record; a stopped Wi-Fi scan still ends with  *)
(* an event.  Keys and proofs are abstracted to right and wrong (Session). *)
(* The variables and the properties are in HeltecState.                    *)
(***************************************************************************)
EXTENDS HeltecState, FiniteSets

vars == <<mode, nvs, bleLink, conn, setup, stage, reason, p, scan, wifiRadio, window, disc,
          reconnect, commands, heard, raced>>
radioVars == <<scan, wifiRadio, window, disc, reconnect>>
linkVars == <<mode, nvs, bleLink, conn, setup, reason>>

Record(type) == [type |-> type, seq |-> 0, conn |-> conn]
NoRecord == [type |-> "none", seq |-> 0, conn |-> 0]

PipeIdle ==
  [rec |-> NoRecord,     \* the record in tx_fragment_buf
   left |-> 0,           \* tx_fragment_total - tx_fragment_next
   action |-> "none",    \* tx_done_action
   pending |-> << >>,    \* pending_protected_tx
   seq |-> 0,            \* rt_tx_sequence
   wire |-> << >>,       \* writes issued and not answered
   lost |-> FALSE,       \* history: a continuation was overwritten by a send in the window
   closing |-> FALSE]    \* ble_gap_terminate was called

\* The timing a start of the search adds that NimBLE refuses.
NotSearching(refused) == IF refused THEN {"disc_error"} ELSE {}

ScanIdle == [busy |-> FALSE,   \* *_scan_in_progress
             left |-> 0,       \* batches behind *_scan_send_next_index
             conn |-> 0]       \* history: the connection that asked

Init ==
  /\ \/ mode = "runtime" /\ nvs = 0
     \/ mode = "open" /\ nvs = NoSecret
  /\ bleLink = "none" /\ conn = 0
  /\ setup = "none" /\ stage = "idle" /\ reason = "normal"
  /\ p = PipeIdle
  /\ scan = [k \in Kinds |-> ScanIdle]
  /\ wifiRadio = "idle"
  /\ window = FALSE
  /\ disc \in BOOLEAN
  /\ reconnect = FALSE
  /\ commands = 0
  /\ heard = << >>
  /\ raced = NotSearching(~ disc)

-----------------------------------------------------------------------------
(* The transmit pipeline.  e is what the environment makes of a send: how    *)
(* many fragments the record has, whether NimBLE takes the first write, and  *)
(* whether a batch of results fits a payload at all (ScanResults).           *)

Luck == [n : 1..MaxPieces, ok : BOOLEAN, encodes : BOOLEAN]

Closed(q) == [q EXCEPT !.closing = TRUE]

\* send_next_tx_fragment
Write(q, ok) ==
  IF q.left = 0 THEN q
  ELSE IF ok THEN [q EXCEPT !.left = @ - 1,
                            !.wire = Append(@, [rec |-> q.rec, last |-> q.left = 1])]
  ELSE Closed(q)

\* queue_encoded_record_for_tx and the first fragment.
Load(q, rec, action, e) ==
  Write([q EXCEPT !.rec = rec, !.left = e.n, !.action = action], e.ok)

\* start_protected_send, below the limit of the sequence.
StartProtected(q, rec, action, e) ==
  Load([q EXCEPT !.seq = @ + 1,
                 !.lost = @ \/ (q.wire # << >> /\ q.action \in Kinds)],
       [rec EXCEPT !.seq = q.seq], action, e)

AtLimit(q) == q.seq >= MaxSequence

\* queue_and_send_protected: must the record wait?
Waits(q, dispatching) == q.left > 0 \/ dispatching \/ q.pending # << >>

\* Does queue_and_send_protected refuse the record?
Refused(q, dispatching) ==
  IF Waits(q, dispatching) THEN Len(q.pending) >= QueueDepth ELSE AtLimit(q)

\* queue_and_send_protected; a caller that is refused closes the connection.
Send(q, rec, action, dispatching, e) ==
  IF Refused(q, dispatching) THEN Closed(q)
  ELSE IF Waits(q, dispatching)
  THEN [q EXCEPT !.pending = Append(@, [rec |-> rec, action |-> action])]
  ELSE StartProtected(q, rec, action, e)

\* start_next_pending_protected_send
StartNext(q, e) ==
  IF q.pending = << >> THEN q
  ELSE IF AtLimit(q) THEN Closed(q)
  ELSE LET h == Head(q.pending)
       IN StartProtected([q EXCEPT !.pending = Tail(@)], h.rec, h.action, e)

\* The timings a step of the pipeline adds.
Races(q) == IF q.lost THEN {"send_in_window"} ELSE {}

-----------------------------------------------------------------------------
(* The link.                                                                 *)

Permitted == mode # "closed"

\* start_scan, from discovery d, if it may connect: an error of ble_gap_disc is logged, and
\* nothing tries again.
StartScan(d, permitted, timings) ==
  \E ok \in BOOLEAN :
    /\ disc' = (d \/ (permitted /\ ok))
    /\ raced' = timings \cup NotSearching(permitted /\ ~ d /\ ~ ok)

UnlessSearch == <<mode, nvs, setup, stage, reason, p, scan, wifiRadio, window, commands, heard>>

\* BLE_GAP_EVENT_DISC with a matching advertisement.
FindPeer ==
  /\ disc /\ bleLink = "none"
  /\ disc' = FALSE
  /\ IF ~ Permitted THEN UNCHANGED <<bleLink, reconnect>>
     ELSE \/ bleLink' = "connecting" /\ UNCHANGED reconnect
          \/ reconnect' = TRUE /\ UNCHANGED bleLink
  /\ UNCHANGED <<conn, raced, UnlessSearch>>

ConnectFails ==
  /\ bleLink = "connecting"
  /\ bleLink' = "none"
  /\ reconnect' = (reconnect \/ Permitted)
  /\ UNCHANGED <<conn, disc, raced, UnlessSearch>>

ReconnectTimer ==
  /\ reconnect
  /\ reconnect' = FALSE
  /\ IF bleLink = "none" THEN StartScan(disc, Permitted, raced) ELSE UNCHANGED <<disc, raced>>
  /\ UNCHANGED <<bleLink, conn, UnlessSearch>>

DiscComplete ==
  /\ disc /\ bleLink = "none"
  /\ StartScan(FALSE, ~ reconnect /\ Permitted, raced)
  /\ UNCHANGED <<bleLink, conn, reconnect, UnlessSearch>>

\* pairing_window_is_open, by the clock.
WindowExpires ==
  /\ mode = "open"
  /\ mode' = "closed"
  /\ UNCHANGED <<nvs, bleLink, conn, setup, stage, reason, p, radioVars, commands, heard, raced>>

\* BLE_GAP_EVENT_CONNECT
Connect ==
  /\ bleLink = "connecting" /\ conn < MaxConnections
  /\ bleLink' = "up"
  /\ conn' = conn + 1
  /\ setup' = "mtu"
  /\ stage' = "idle"
  /\ reason' = "normal"
  /\ p' = PipeIdle
  /\ heard' = << >>
  /\ UNCHANGED <<mode, nvs, radioVars, commands, raced>>

\* mtu_exchanged, service_discovered, characteristic_discovered, descriptor_discovered, and
\* behind them the write that subscribes: what is missing closes the connection.
Discover(i) ==
  /\ bleLink = "up" /\ setup = Steps[i]
  /\ \/ setup' = Steps[i + 1] /\ UNCHANGED p
     \/ p' = Closed(p) /\ ~ p.closing /\ UNCHANGED setup
  /\ UNCHANGED <<mode, nvs, bleLink, conn, stage, reason, radioVars, commands, heard, raced>>

\* Mutant: a Flipper that does not know the board is not looked for.
SearchesIfNormal == mode = "runtime" /\ reason = "normal"

\* Does start_scan follow a disconnect?
Searches == mode = "runtime" /\ reason # "auth_failed"

\* BLE_GAP_EVENT_DISCONNECT
Disconnect ==
  /\ bleLink = "up"
  /\ bleLink' = "none"
  /\ setup' = "none"
  /\ stage' = "idle"
  /\ reason' = "normal"
  /\ p' = PipeIdle
  /\ wifiRadio' = IF wifiRadio = "scanning" THEN "event" ELSE wifiRadio
  /\ mode' = IF mode # "runtime" THEN "closed"
             ELSE IF reason = "unknown_board" THEN "open" ELSE "runtime"
  /\ reconnect' = (reconnect \/ (mode = "runtime" /\ reason = "auth_failed"))
  /\ StartScan(disc /\ ~ scan["ble"].busy, Searches,
               raced \cup (IF \E k \in Kinds : Chained(k) THEN {"drop_mid_chain"} ELSE {})
                     \cup (IF window THEN {"drop_in_window"} ELSE {}))
  /\ heard' = << >>
  /\ UNCHANGED <<nvs, conn, scan, window, commands>>

\* A reset: pairing secret or not decides the mode.
Restart ==
  /\ bleLink = "none" /\ mode = "closed"
  /\ mode' = IF nvs # NoSecret THEN "runtime" ELSE "open"
  /\ StartScan(FALSE, TRUE, raced)
  /\ reconnect' = FALSE
  /\ scan' = [k \in Kinds |-> ScanIdle]
  /\ wifiRadio' = "idle"
  /\ window' = FALSE
  /\ UNCHANGED <<nvs, bleLink, conn, setup, stage, reason, p, commands, heard>>

-----------------------------------------------------------------------------
(* Pairing and runtime authentication.                                       *)

\* The pipeline becomes q.
Pipe(q) == p' = q /\ raced' = raced \cup Races(q)

UnlessHandshake == <<nvs, bleLink, conn, setup, radioVars, commands, heard>>

\* fail_pairing_ceremony
FailPairing(e) == Pipe(Load(p, Record("pair_error"), "disconnect", e))

\* The subscription is confirmed: begin_runtime_auth or begin_pairing.
Subscribed ==
  /\ bleLink = "up" /\ setup = "subscribing"
  /\ setup' = "ready"
  /\ \E e \in Luck :
       IF mode = "runtime"
       THEN /\ Pipe(Load(p, Record("hello"), "none", e))
            /\ stage' = "hello_sent"
       ELSE IF mode = "closed"
       THEN FailPairing(e) /\ UNCHANGED stage
       ELSE /\ Pipe(Load(p, Record("pair_init"), "none", e))
            /\ stage' = "init_sent"
  /\ UNCHANGED <<mode, nvs, bleLink, conn, reason, radioVars, commands, heard>>

\* handle_pair_reply, for a reply that proves the Flipper's key.
PairReply ==
  /\ bleLink = "up" /\ stage = "init_sent" /\ Has("pair_init")
  /\ \E e \in Luck : Pipe(Load(p, Record("pair_confirm"), "complete", e))
  /\ stage' = "confirm_sent"
  /\ UNCHANGED <<mode, reason, UnlessHandshake>>

\* Any other record in pairing mode, or none in time (reassembly_timeout_cb): the keys of the
\* ceremony are gone.  A client whose ceremony has failed says no more.
PairingFails ==
  /\ bleLink = "up" /\ mode # "runtime" /\ setup = "ready"
  /\ p.action # "disconnect" /\ ~ p.closing
  /\ stage' = "failed"
  /\ \/ \E e \in Luck : FailPairing(e)
     \/ Pipe(Closed(p))
  /\ UNCHANGED <<mode, reason, UnlessHandshake>>

\* fail_runtime_auth, fail_runtime_auth's timeout, and handle_runtime_auth_unknown_board.
AuthFails ==
  /\ bleLink = "up" /\ stage = "hello_sent"
  /\ reason' \in {"auth_failed", "unknown_board"}
  /\ reason' = "unknown_board" => Has("hello")
  /\ p' = Closed(p)
  /\ UNCHANGED <<mode, stage, raced, UnlessHandshake>>

\* Mutant: the session is up as soon as client_auth is on its way.
UpAtOnce(s) == "authenticated"

StageAfterAck(s) == s

\* handle_hello_ack, for a proof that holds; the Flipper answers a hello once.
HelloAck ==
  /\ bleLink = "up" /\ stage = "hello_sent" /\ Has("hello") /\ p.rec.type = "hello"
  /\ \E e \in Luck : Pipe(Load(p, Record("client_auth"), "authenticated", e))
  /\ stage' = StageAfterAck(stage)
  /\ UNCHANGED <<mode, reason, UnlessHandshake>>

-----------------------------------------------------------------------------
(* The manual scans.                                                         *)

InSession == bleLink = "up" /\ stage = "authenticated"

\* A record of the client that is in turn.  What still comes behind ble_gap_terminate is left out.
Received == InSession /\ ~ p.closing /\ commands < MaxCommands /\ commands' = commands + 1

UnlessCommand == <<linkVars, stage, heard>>

\* handle_capability_query, and a command for what the board cannot do.
Answered ==
  /\ Received
  /\ \E e \in Luck, type \in {"capability_response", "error"} :
       Pipe(Send(p, Record(type), "none", FALSE, e))
  /\ UNCHANGED <<radioVars, UnlessCommand>>

\* A record that does not decrypt or is out of turn, and 30 s without a record.
SessionEnds ==
  /\ InSession
  /\ p' = Closed(p)
  /\ UNCHANGED <<radioVars, UnlessCommand, commands, raced>>

Fresh(k) == [scan EXCEPT ![k] = [busy |-> TRUE, left |-> 0, conn |-> conn]]

\* handle_wifi_scan_command, handle_ble_scan_command: the scan starts.
ScanCommand(k) ==
  /\ Received /\ ~ scan[k].busy
  /\ scan' = Fresh(k)
  /\ IF k = "wifi" THEN /\ wifiRadio = "idle"
                        /\ wifiRadio' = "scanning"
                        /\ UNCHANGED <<window, disc>>
     ELSE window' = TRUE /\ disc' = TRUE /\ UNCHANGED wifiRadio
  /\ UNCHANGED <<reconnect, p, raced, UnlessCommand>>

\* One is running, or the driver refuses: an error.
ScanRefused(k) ==
  /\ Received
  /\ \E e \in Luck : Pipe(Send(p, Record("error"), "none", FALSE, e))
  /\ UNCHANGED <<radioVars, UnlessCommand>>

\* Mutant: only a completion chains the next batch, not the batch itself.
NoContinuation(k, last) == "none"

\* The next_action of a batch.
Continuation(k, last) == IF last THEN "none" ELSE k

\* wifi_scan_send_next_batch and ble_scan_send_next_batch, with n batches left.  The record is
\* refused by queue_and_send_protected, or does not encode (payload_len is 0): both give the
\* claim back and close the connection.
SendBatch(k, n, dispatching, q, e) ==
  LET last == n = 1
      rec == [Record(IF last THEN "complete" ELSE "partial") EXCEPT !.conn = scan[k].conn]
      refused == Refused(q, dispatching) \/ ~ e.encodes
      q2 == IF refused THEN Closed(q) ELSE Send(q, rec, Continuation(k, last), dispatching, e)
  IN [pipe |-> q2,
      scan |-> [scan EXCEPT ![k].busy = ~ last /\ ~ refused, ![k].left = n - 1]]

UnlessScan == <<linkVars, stage, reconnect, commands, heard>>

\* The Wi-Fi scan ends, and wifi_scan_done_handler hands over to the host task.
WifiScanEnds ==
  /\ wifiRadio = "scanning"
  /\ wifiRadio' = "event"
  /\ UNCHANGED <<p, scan, window, disc, raced, UnlessScan>>

WifiScanDone ==
  /\ wifiRadio = "event"
  /\ wifiRadio' = "done"
  /\ UNCHANGED <<p, scan, window, disc, raced, UnlessScan>>

Discards == ~ InSession

Discarded(k) == [scan EXCEPT ![k].busy = FALSE]

\* wifi_scan_done_cb and ble_scan_window_close_cb, once the results are selected.
Results(k) ==
  IF Discards
  THEN scan' = Discarded(k) /\ UNCHANGED <<p, raced>>
  ELSE \E n \in 1..MaxBatches, e \in Luck :
         LET b == SendBatch(k, n, FALSE, p, e)
         IN Pipe(b.pipe) /\ scan' = b.scan

WifiScanDoneCb ==
  /\ wifiRadio = "done"
  /\ wifiRadio' = "idle"
  /\ Results("wifi")
  /\ UNCHANGED <<window, disc, UnlessScan>>

BleWindowCloses ==
  /\ window
  /\ window' = FALSE
  /\ disc' = FALSE
  /\ Results("ble")
  /\ UNCHANGED <<wifiRadio, UnlessScan>>

-----------------------------------------------------------------------------
(* write_complete.                                                           *)

\* finish_pairing_after_confirm
Completes(q, stored, e) ==
  Load(q, Record(IF stored THEN "pair_complete" ELSE "pair_error"), "disconnect", e)

\* What the completion of a record does, from the pipeline q; its action is taken.
Finish(q, e) ==
  CASE p.action = "complete" ->
         \E stored \in BOOLEAN :
           /\ Pipe(StartNext(Completes(q, stored, e), e))
           /\ nvs' = IF stored THEN conn ELSE nvs
           /\ stage' = IF stored THEN "complete_sent" ELSE stage
           /\ UNCHANGED scan
    [] p.action = "disconnect" ->
         Pipe(Closed(StartNext(q, e))) /\ UNCHANGED <<nvs, stage, scan>>
    [] p.action = "authenticated" ->
         /\ p' = StartNext([q EXCEPT !.seq = 1], e)
         /\ raced' = raced \cup (IF \E k \in Kinds : scan[k].busy THEN {"fast_reconnect"} ELSE {})
         /\ stage' = "authenticated"
         /\ UNCHANGED <<nvs, scan>>
    [] p.action \in Kinds ->
         LET b == SendBatch(p.action, scan[p.action].left, TRUE, q, e)
         IN /\ Pipe(StartNext(b.pipe, e))
            /\ scan' = b.scan
            /\ UNCHANGED <<nvs, stage>>
    [] OTHER -> Pipe(StartNext(q, e)) /\ UNCHANGED <<nvs, stage, scan>>

UnlessWrite ==
  <<mode, bleLink, conn, setup, reason, wifiRadio, window, disc, reconnect, commands>>

\* A write is answered; the Flipper has what it carried.
WriteComplete ==
  /\ bleLink = "up" /\ p.wire # << >>
  /\ LET w == Head(p.wire)
         q == [p EXCEPT !.wire = Tail(@)]
     IN /\ heard' = IF w.last THEN Append(heard, w.rec) ELSE heard
        /\ \E e \in Luck :
             IF q.left > 0 THEN Pipe(Write(q, e.ok)) /\ UNCHANGED <<nvs, stage, scan>>
             ELSE Finish([q EXCEPT !.action = "none"], e)
  /\ UNCHANGED UnlessWrite

WriteFails ==
  /\ bleLink = "up" /\ p.wire # << >>
  /\ p' = Closed([p EXCEPT !.wire = Tail(@)])
  /\ UNCHANGED <<nvs, stage, scan, heard, raced, UnlessWrite>>

-----------------------------------------------------------------------------
Lands == WifiScanEnds \/ WifiScanDone \/ WifiScanDoneCb \/ BleWindowCloses

Step ==
  \/ FindPeer \/ ConnectFails \/ ReconnectTimer \/ DiscComplete \/ WindowExpires
  \/ Connect \/ Disconnect \/ Restart
  \/ \E i \in 1..4 : Discover(i)
  \/ Subscribed \/ PairReply \/ PairingFails \/ AuthFails \/ HelloAck
  \/ Answered \/ SessionEnds
  \/ \E k \in Kinds : ScanCommand(k) \/ ScanRefused(k)
  \/ Lands \/ WriteComplete \/ WriteFails

Next == Step /\ Cardinality(raced') <= MaxRaces

\* The driver ends its scans, callouts fire, and the link answers or breaks.
Fairness ==
  /\ WF_vars(WifiScanEnds) /\ WF_vars(WifiScanDone) /\ WF_vars(WifiScanDoneCb)
  /\ WF_vars(BleWindowCloses)
  /\ WF_vars(WriteComplete \/ WriteFails) /\ WF_vars(p.closing /\ Disconnect)

Spec == Init /\ [][Next]_vars /\ Fairness

=============================================================================
