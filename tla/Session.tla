------------------------------ MODULE Session ------------------------------
(***************************************************************************)
(* Pairing and runtime authentication, both ends and the link between      *)
(* them: the ESP32 (esp32/main/main.c, the BLE central) and the Flipper    *)
(* application (flipper/flipper_esp32_over_ble.c, the peripheral).         *)
(*                                                                         *)
(* Cryptography is symbolic.  A secret is the number of the pairing        *)
(* attempt it was derived in, a session is a number drawn by the ESP32,    *)
(* and a proof or a protected record carries the secret it was made with.  *)
(* The session key is the pair of session and secret.  0 is "none".        *)
(*                                                                         *)
(* On the ESP32 every handler runs on the NimBLE host task and is one      *)
(* action.  The Flipper has two threads: the BLE worker, which handles a   *)
(* record at a time, and the main thread, which handles the event queue.   *)
(* BLE is external: writes of the ESP32 arrive, are confirmed and handled  *)
(* in this order; a notification of the Flipper may be lost; a             *)
(* confirmation overtakes no notification.                                 *)
(*                                                                         *)
(* LateReset admits the timing in which the Flipper's main thread handles  *)
(* the event of a connection only after that connection's first record.    *)
(***************************************************************************)
EXTENDS Integers, Sequences, Functions

CONSTANTS
  NSecrets,      \* bound: secrets in use at a time
  NSessions,     \* bound: session ids in use at a time
  SequenceMax,   \* FEB_SESSION_SEQUENCE_MAX, on both sides
  MaxFails,      \* FEB_RUNTIME_AUTH_BACKOFF_MAX_EXP + 1: the slow cadence
  EventCap,      \* length of the Flipper's event queue (8)
  MaxBacklog,    \* bound: captures waiting in the flash log
  MaxFaults,     \* bound: failures, losses, resets and interventions of the user
  LateReset      \* the timing above is admitted

ASSUME SessionAssumption ==
  /\ NSecrets \in Nat \ {0} /\ NSessions \in Nat \ {0}
  /\ SequenceMax \in Nat \ {0} /\ MaxFails \in Nat \ {0} /\ EventCap \in Nat \ {0}
  /\ MaxBacklog \in Nat /\ MaxFaults \in Nat
  /\ LateReset \in BOOLEAN

VARIABLES
  board,    \* the ESP32, see BoardAtBoot
  flip,     \* the Flipper, see FlipperOff
  link,     \* "up" or "down"
  closing,  \* a side asked for the link to be closed
  toF,      \* writes of the ESP32 in the air
  inbox,    \* records the Flipper's stack confirmed and its BLE worker has yet to handle
  toB,      \* confirmations and notifications on their way to the ESP32
  faults,   \* faults left
  forgot,   \* history: the ESP32 gave the common secret up and is not paired again since, see Next
  unread    \* history: the Flipper could not read its record, on the connection that is up or on
            \* the one that opened the pairing window

system == <<board, flip, link, closing, toF, inbox, toB, faults>>
vars == <<system, forgot, unread>>

\* A record: its type; the pairing attempt or the session it belongs to; the secret its proof
\* or encryption was made with; its sequence number.
Msg(type, id, secret, seq) == [type |-> type, id |-> id, secret |-> secret, seq |-> seq]
Ack == Msg("ack", 0, 0, 0)

\* app_main: a stored secret decides between runtime authentication and a pairing window.
BoardAtBoot(nvs, backlog) ==
  [nvs |-> nvs,           \* the stored pairing secret; its copy in RAM is used in runtime mode
   mode |-> IF nvs # 0 THEN "runtime" ELSE "pairing",   \* boot_mode
   window |-> nvs = 0,    \* pairing mode: the window is not closed
   conn |-> "none",       \* connection_handle; "up" once notifications are subscribed
   st |-> "idle",         \* pairing_state and runtime_auth_state
   attempt |-> 0,         \* the keys of the pairing attempt
   sid |-> 0,             \* rt_session_id
   key |-> 0,             \* rt_session_key, by the secret it was derived from
   seq |-> 0,             \* rt_tx_sequence
   rx |-> 0,              \* rt_rx_sequence
   waiting |-> FALSE,     \* hello_ack_start_ms or pair_reply_wait_start_ms is set
   done |-> "none",       \* tx_done_action
   pending |-> << >>,     \* pending_protected_tx
   inFlight |-> FALSE,    \* wardriving_tx_in_flight
   backlog |-> backlog,   \* captures in the flash log
   reason |-> "normal",   \* pending_disconnect_reason
   fails |-> 0,           \* runtime_auth_failure_count
   delay |-> 0]           \* the exponent of the delay before the next connection

FlipperOff(file, cached) ==
  [up |-> FALSE,          \* the application runs and its profile advertises
   conn |-> FALSE,        \* its stack knows of a connection
   file |-> file,         \* the secret saved for the board
   cached |-> cached,     \* the capability record saved for the board
   stage |-> "none",      \* pair_stage
   pair |-> 0,            \* pair_secret and pair_k_confirm
   sess |-> "none",       \* session_stage
   sid |-> 0,             \* session_id_bytes
   secret |-> 0,          \* session_pairing_secret
   key |-> 0,             \* session_key, by the secret it was derived from
   out |-> 0,             \* session_seq_out
   in |-> 0,              \* session_seq_in
   known |-> FALSE,       \* app.capability_has_wifi_scan
   phase |-> "none",      \* app.pairing_phase
   events |-> << >>]      \* app.queue

\* Never paired, paired, or paired and the ESP32 erased since.
Init ==
  /\ \E nvs \in {0, 1}, file \in {0, 1} :
       /\ nvs # 0 => file = nvs
       /\ board = BoardAtBoot(nvs, MaxBacklog)
       /\ flip = FlipperOff(file, FALSE)
       /\ forgot = (nvs # file)
  /\ link = "down"
  /\ closing = FALSE
  /\ toF = << >>
  /\ inbox = << >>
  /\ toB = << >>
  /\ faults = MaxFaults
  /\ unread = FALSE

Records == Range(toF) \cup Range(inbox) \cup Range(toB)

\* esp_fill_random: a value no one holds.
SecretsInUse ==
  {board.nvs, board.attempt, board.key, flip.file, flip.pair, flip.secret, flip.key}
    \cup {m.id : m \in Records} \cup {m.secret : m \in Records}
SessionsInUse == {board.sid, flip.sid} \cup {m.id : m \in Records}
FreshSecret == CHOOSE n \in 1 .. NSecrets : n \notin SecretsInUse
FreshSession == CHOOSE n \in 1 .. NSessions : n \notin SessionsInUse
NamesLeft ==
  /\ \E n \in 1 .. NSecrets : n \notin SecretsInUse
  /\ \E n \in 1 .. NSessions : n \notin SessionsInUse

-----------------------------------------------------------------------------
(* The ESP32.  h is the state of a handler that is running: the board, the  *)
(* writes it issued, whether the link is to be closed, and whether a record *)
(* that is to be sent has to queue.                                         *)

Unanswered == toF # << >> \/ Ack \in Range(toB)

OnBoard(busy) == [b |-> board, toF |-> toF, toB |-> toB, closing |-> closing, busy |-> busy]

BoardReturns(h) ==
  /\ board' = h.b
  /\ toF' = h.toF
  /\ toB' = h.toB
  /\ closing' = h.closing

\* ble_gap_terminate of a link that is up: what is written from now on does not get out.
Terminate(h) == [h EXCEPT !.closing = (link = "up")]

\* encode_and_queue_*_record and send_next_tx_fragment; fragments are EspTx's business.
Send(h, m, done) ==
  [h EXCEPT !.b.done = done, !.toF = IF h.closing \/ link = "down" THEN @ ELSE Append(@, m)]

\* fail_pairing_ceremony.
FailPairing(h) ==
  Send([h EXCEPT !.b.attempt = 0], Msg("pair_error", 0, 0, 0), "disconnect")

\* begin_pairing.
BeginPairing(h) ==
  IF ~ h.b.window THEN FailPairing(h)
  ELSE Send([h EXCEPT !.b.attempt = FreshSecret, !.b.st = "init_sent", !.b.waiting = TRUE],
            Msg("pair_init", FreshSecret, 0, 0), "none")

\* handle_pair_reply: with the keys of the attempt gone, the confirmation does not match.
HandlePairReply(h, m) ==
  LET a == [h EXCEPT !.b.waiting = FALSE]
  IN IF m.id # a.b.attempt THEN FailPairing(a)
     ELSE Send([a EXCEPT !.b.st = "confirm_sent"], Msg("pair_confirm", m.id, m.id, 0), "complete")

\* finish_pairing_after_confirm; persists: the secret could be written.
FinishPairing(h, persists) ==
  IF ~ persists THEN FailPairing(h)
  ELSE Send([h EXCEPT !.b.nvs = h.b.attempt, !.b.attempt = 0, !.b.st = "complete_sent"],
            Msg("pair_complete", h.b.attempt, h.b.attempt, 0), "disconnect")

\* BLE_GAP_EVENT_NOTIFY_RX in pairing mode.
PairingRecord(h, m) ==
  IF h.b.st # "init_sent" THEN FailPairing(h)
  ELSE IF m.type = "pair_reply" THEN HandlePairReply(h, m)
  ELSE IF m.type = "pair_error" THEN Terminate([h EXCEPT !.b.attempt = 0])
  ELSE FailPairing(h)


\* Mutant: the link is left open.
FailAuthOpen(h) ==
  [h EXCEPT !.b.fails = IF @ < MaxFails THEN @ + 1 ELSE @, !.b.waiting = FALSE,
            !.b.reason = "auth_failed", !.b.key = 0]

\* fail_runtime_auth.
FailAuth(h) ==
  Terminate([h EXCEPT !.b.fails = IF @ < MaxFails THEN @ + 1 ELSE @, !.b.waiting = FALSE,
                      !.b.reason = "auth_failed", !.b.key = 0])

\* handle_runtime_auth_unknown_board.
UnknownBoard(h) ==
  Terminate([h EXCEPT !.b.waiting = FALSE, !.b.reason = "unknown_board", !.b.key = 0])

\* begin_runtime_auth.
BeginAuth(h) ==
  Send([h EXCEPT !.b.sid = FreshSession, !.b.st = "hello_sent", !.b.waiting = TRUE],
       Msg("hello", FreshSession, 0, 0), "none")

\* Mutant: the proof is not compared.
HandleHelloAckUnchecked(h, m) ==
  Send([h EXCEPT !.b.waiting = FALSE, !.b.fails = 0, !.b.key = h.b.nvs],
       Msg("client_auth", h.b.sid, h.b.nvs, 0), "authenticated")

\* Mutant: any answer, not only a proven one, ends the series of failures.
HandleHelloAckForgiving(h, m) ==
  LET a == [h EXCEPT !.b.waiting = FALSE, !.b.fails = 0]
  IN IF m.secret # h.b.nvs THEN FailAuth(a)
     ELSE Send([a EXCEPT !.b.key = h.b.nvs],
               Msg("client_auth", h.b.sid, h.b.nvs, 0), "authenticated")

\* handle_hello_ack: the proof must be made with the stored secret.
HandleHelloAck(h, m) ==
  LET a == [h EXCEPT !.b.waiting = FALSE]
  IN IF m.secret # h.b.nvs THEN FailAuth(a)
     ELSE Send([a EXCEPT !.b.fails = 0, !.b.key = h.b.nvs],
               Msg("client_auth", h.b.sid, h.b.nvs, 0), "authenticated")

\* start_next_pending_protected_send.
StartNext(h) ==
  IF h.b.pending = << >> THEN h
  ELSE IF h.b.seq >= SequenceMax THEN Terminate(h)
  ELSE Send([h EXCEPT !.b.pending = Tail(@), !.b.seq = @ + 1],
            Msg(Head(h.b.pending), h.b.sid, h.b.key, h.b.seq),
            IF Head(h.b.pending) = "batch" THEN "drained" ELSE "none")

\* queue_and_send_protected.
SendProtected(h, type) ==
  LET queued == [h EXCEPT !.b.pending = Append(@, type)]
  IN IF h.busy \/ h.b.pending # << >> THEN queued ELSE StartNext(queued)

\* wardriving_maybe_kick_send and wardriving_send_next_batch, one capture a batch.
KickSend(h) ==
  IF h.b.inFlight \/ h.b.backlog = 0 THEN h
  ELSE SendProtected([h EXCEPT !.b.inFlight = TRUE], "batch")
NextBatch(h) ==
  KickSend([h EXCEPT !.b.inFlight = FALSE, !.b.backlog = @ - 1])

\* feb_session_decrypt_record and the checks behind it.
Authentic(m, sid, key, expected) ==
  m.id = sid /\ m.secret = key /\ m.seq = expected /\ m.seq < SequenceMax

\* A protected record: handle_capability_query or handle_command answers it.
ProtectedRecord(h, m) ==
  IF ~ Authentic(m, h.b.sid, h.b.key, h.b.rx) THEN Terminate(h)
  ELSE SendProtected([h EXCEPT !.b.rx = @ + 1],
                     IF m.type = "query" THEN "capability" ELSE "status")

\* BLE_GAP_EVENT_NOTIFY_RX in runtime mode.
RuntimeRecord(h, m) ==
  IF h.b.st = "authenticated" THEN ProtectedRecord(h, m)
  ELSE IF h.b.st = "hello_sent" /\ m.type = "hello_ack" /\ m.id = h.b.sid
       THEN HandleHelloAck(h, m)
  ELSE IF h.b.st = "hello_sent" /\ m.type = "unknown_board" THEN UnknownBoard(h)
  ELSE FailAuth(h)

\* Mutant: the sequence numbers stay as CONNECT left them.
AuthenticatedAtZero(h) == [h EXCEPT !.b.st = "authenticated"]

\* client_auth is out: both directions count from 1.
Authenticated(h) == [h EXCEPT !.b.st = "authenticated", !.b.seq = 1, !.b.rx = 1]

\* write_complete behind the last fragment: what was to be done when the record is out.
Completed(h, action, persists) ==
  CASE action = "complete" -> FinishPairing(h, persists)
    [] action = "disconnect" -> Terminate(h)
    [] action = "authenticated" -> KickSend(Authenticated(h))
    [] action = "drained" -> NextBatch(h)
    [] OTHER -> h

\* write_complete: what the completion sends is queued until it returns.
WriteComplete(h, persists) ==
  StartNext(Completed([h EXCEPT !.toB = Tail(@), !.b.done = "none", !.busy = TRUE],
                      h.b.done, persists))

-----------------------------------------------------------------------------
(* The Flipper.  h is the state of a handler of the BLE worker, or of a     *)
(* turn of the main thread's event loop; lost says that what it notifies    *)
(* does not arrive.                                                         *)

OnFlipper(lost) == [f |-> flip, toB |-> toB, lost |-> lost]

\* send_pairing_record: a notification to whoever is subscribed.
Notify(h, m) ==
  IF h.lost \/ link = "down" \/ board.conn # "up" THEN h ELSE [h EXCEPT !.toB = Append(@, m)]

\* post_pairing_phase, post_session_fatal, bt_status_callback: dropped when the queue is full.
Post(h, event) == [h EXCEPT !.f.events = IF Len(@) < EventCap THEN Append(@, event) ELSE @]

\* pairing_reset_state and session_reset_state.
ResetPairing(h) == [h EXCEPT !.f.stage = "none", !.f.pair = 0]
ResetSession(h) ==
  [h EXCEPT !.f.sess = "none", !.f.sid = 0, !.f.secret = 0, !.f.key = 0, !.f.out = 0, !.f.in = 0]

\* abort_pairing.
Abort(h) == Post(ResetPairing(Notify(h, Msg("pair_error", 0, 0, 0))), "failed")

\* handle_pair_init: a new ceremony replaces one that is under way.
HandlePairInit(h, m) ==
  Post(Notify([h EXCEPT !.f.pair = m.id, !.f.stage = "init"], Msg("pair_reply", m.id, 0, 0)),
       "confirming")

\* handle_pair_confirm.
HandlePairConfirm(h, m) ==
  IF h.f.stage # "init" THEN h
  ELSE IF m.secret # h.f.pair THEN Abort(h)
  ELSE Post([h EXCEPT !.f.stage = "confirm"], "saving")

\* handle_pair_complete and pairing_storage_save, which removes the old record before it
\* renames the new one; failure: the step of the save that fails.
HandlePairComplete(h, m, failure) ==
  IF h.f.stage # "confirm" THEN h
  ELSE IF m.secret # h.f.pair THEN Abort(h)
  ELSE Post(ResetPairing([h EXCEPT !.f.file = CASE failure = "write" -> @
                                                [] failure = "rename" -> 0
                                                [] OTHER -> h.f.pair]),
            IF failure = "none" THEN "done" ELSE "failed")

\* handle_hello; failure: pairing_storage_load reads the record not, or not in full, and answers
\* as it does when there is none.  A record that stays unreadable is as good as RecordRemoved.
HandleHello(h, m, failure) ==
  LET r == ResetSession(h)
  IN IF h.f.file = 0 \/ failure = "unreadable" THEN Notify(r, Msg("unknown_board", 0, 0, 0))
     ELSE Post(Notify([r EXCEPT !.f.sess = "hello", !.f.sid = m.id, !.f.secret = h.f.file],
                      Msg("hello_ack", m.id, h.f.file, 0)),
               "authenticating")

\* A protected record, numbered; at the cap of the sequence nothing is sent.
NotifyProtected(h, type) ==
  IF h.f.out >= SequenceMax THEN h
  ELSE [Notify(h, Msg(type, h.f.sid, h.f.key, h.f.out)) EXCEPT !.f.out = @ + 1]

\* capability_bootstrap.
Bootstrap(h) == IF h.f.cached THEN Post(h, "capability") ELSE NotifyProtected(h, "query")

\* send_wardriving_status_query, which the phase main has yet to take over mostly prevents.
QueryStatus(h) ==
  IF h.f.known /\ h.f.phase = "active" THEN NotifyProtected(h, "command") ELSE h

\* handle_client_auth.
HandleClientAuth(h, m) ==
  IF h.f.sess # "hello" \/ m.id # h.f.sid THEN h
  ELSE IF m.secret # h.f.secret THEN Post(ResetSession(Post(h, "failed")), "fatal")
  ELSE QueryStatus(Bootstrap(Post(
         [h EXCEPT !.f.sess = "active", !.f.key = h.f.secret, !.f.secret = 0, !.f.out = 1, !.f.in = 1],
         "active")))

\* A protected record: profile_event_handler's last branch, handle_capability_response.
HandleProtected(h, m) ==
  LET taken == [h EXCEPT !.f.in = @ + 1]
  IN IF h.f.sess # "active" THEN h
     ELSE IF ~ Authentic(m, h.f.sid, h.f.key, h.f.in) THEN Post(ResetSession(h), "fatal")
     ELSE IF m.type = "capability" THEN Post([taken EXCEPT !.f.cached = TRUE], "capability")
     ELSE taken

\* profile_event_handler: a record is routed by its envelope and its type.
Handled(h, m, failure) ==
  CASE m.type = "pair_init" -> HandlePairInit(h, m)
    [] m.type = "pair_confirm" -> HandlePairConfirm(h, m)
    [] m.type = "pair_complete" -> HandlePairComplete(h, m, failure)
    [] m.type = "pair_error" -> h
    [] m.type = "hello" -> HandleHello(h, m, failure)
    [] m.type = "client_auth" -> HandleClientAuth(h, m)
    [] OTHER -> HandleProtected(h, m)

\* What can fail while a record of this type is handled.
Failures(type) ==
  CASE type \in {"pair_init", "client_auth"} -> {"none", "notification"}
    [] type = "hello" -> {"none", "notification"} \cup {x \in {"unreadable"} : flip.file # 0}
    [] type = "pair_complete" -> {"none", "write", "rename"}
    [] OTHER -> {"none"}

-----------------------------------------------------------------------------
(* Steps.  A failure costs one of the faults left.                          *)

Fault == faults > 0 /\ faults' = faults - 1
FaultIf(condition) == IF condition THEN Fault ELSE UNCHANGED faults

LinkDown ==
  /\ link' = "down"
  /\ closing' = FALSE
  /\ toF' = << >>
  /\ toB' = << >>

\* Scanning, setting up a connection and finding its services take long against the turns of the
\* main thread's loop: unless LateReset, its queue is empty again.
MainKeepsUp == LateReset \/ flip.events = << >>

\* BLE_GAP_EVENT_CONNECT on the ESP32, the status of the connection on the Flipper.
Connect ==
  /\ link = "down" /\ board.conn = "none"
  /\ flip.up /\ ~ flip.conn
  /\ board.mode = "runtime" \/ board.window
  /\ MainKeepsUp
  /\ link' = "up"
  /\ board' = [board EXCEPT !.conn = "connecting", !.st = "idle", !.reason = "normal",
                            !.waiting = FALSE, !.seq = 0, !.rx = 0, !.done = "none",
                            !.pending = << >>, !.inFlight = FALSE, !.delay = 0]
  /\ flip' = [Post(OnFlipper(FALSE), "connected").f EXCEPT !.conn = TRUE]
  /\ unread' = (unread /\ board.mode = "pairing")
  /\ UNCHANGED <<closing, toF, inbox, toB, faults>>

\* MTU and services are known and notifications subscribed: the dialogue begins.  The bounds
\* NSecrets and NSessions are wide enough when no behaviour is stopped by NamesLeft.
Subscribed ==
  /\ link = "up" /\ board.conn = "connecting"
  /\ MainKeepsUp
  /\ NamesLeft
  /\ LET h == [OnBoard(FALSE) EXCEPT !.b.conn = "up"]
     IN BoardReturns(IF board.mode = "runtime" THEN BeginAuth(h) ELSE BeginPairing(h))
  /\ UNCHANGED <<flip, link, inbox, faults>>

\* A write reaches the Flipper's stack, which confirms it.
Delivered ==
  /\ toF # << >>
  /\ toF' = Tail(toF)
  /\ inbox' = Append(inbox, Head(toF))
  /\ toB' = Append(toB, Ack)
  /\ UNCHANGED <<board, flip, link, closing, faults>>

\* profile_event_handler, on the BLE worker.
FlipperHandles ==
  /\ inbox # << >>
  /\ inbox' = Tail(inbox)
  /\ \E failure \in Failures(Head(inbox).type) :
       LET h == Handled(OnFlipper(failure = "notification"), Head(inbox), failure)
       IN /\ FaultIf(failure # "none")
          /\ flip' = h.f
          /\ toB' = h.toB
          /\ unread' = (unread \/ failure = "unreadable")
  /\ UNCHANGED <<board, link, closing, toF>>

\* The NimBLE host task: the answer of a write, or a notification.
BoardReceives ==
  /\ toB # << >>
  /\ LET m == Head(toB)
         rest(h) == [h EXCEPT !.toB = Tail(@)]
     IN IF m = Ack
        THEN \E persists \in BOOLEAN :
               /\ FaultIf(~ persists)
               /\ persists \/ board.done = "complete"
               /\ BoardReturns(WriteComplete(OnBoard(FALSE), persists))
        ELSE /\ UNCHANGED faults
             /\ IF board.mode = "pairing"
                THEN BoardReturns(PairingRecord(rest(OnBoard(FALSE)), m))
                ELSE \E busy \in BOOLEAN :
                       /\ busy => Unanswered
                       /\ BoardReturns(RuntimeRecord(rest(OnBoard(busy)), m))
  /\ UNCHANGED <<flip, link, inbox>>

\* write_complete, with an error.
WriteError ==
  /\ toF # << >>
  /\ Fault
  /\ BoardReturns(Terminate([OnBoard(FALSE) EXCEPT !.toF = Tail(@), !.b.attempt = 0, !.b.key = 0]))
  /\ UNCHANGED <<flip, link, inbox>>

\* reassembly_timeout_cb.  An answer that is not lost takes longer only by a fault.
Overdue ==
  /\ board.waiting /\ board.conn = "up"
  /\ toF = << >> /\ toB = << >>
  /\ FaultIf(inbox # << >>)

HelloTimeout ==
  /\ Overdue
  /\ board.st = "hello_sent"
  /\ BoardReturns(FailAuth(OnBoard(FALSE)))
  /\ UNCHANGED <<flip, link, inbox>>

PairReplyTimeout ==
  /\ Overdue
  /\ board.st = "init_sent"
  /\ BoardReturns(FailPairing([OnBoard(FALSE) EXCEPT !.b.waiting = FALSE]))
  /\ UNCHANGED <<flip, link, inbox>>

IdleTimeout ==
  /\ board.conn = "up" /\ board.st = "authenticated"
  /\ toF = << >> /\ inbox = << >> /\ toB = << >>
  /\ ~ closing /\ link = "up"
  /\ BoardReturns(Terminate(OnBoard(FALSE)))
  /\ UNCHANGED <<flip, link, inbox, faults>>

\* pairing_window_is_open, once its time has passed.
WindowExpires ==
  /\ board.mode = "pairing" /\ board.window
  /\ board' = [board EXCEPT !.window = FALSE]
  /\ UNCHANGED <<flip, link, closing, toF, inbox, toB, faults>>

\* A capture is appended to the log (WardrivingLog) and wardriving_maybe_kick_send called.
Capture ==
  /\ board.backlog < MaxBacklog
  /\ \E busy \in BOOLEAN :
       LET h == [OnBoard(busy) EXCEPT !.b.backlog = @ + 1]
       IN /\ busy => Unanswered
          /\ BoardReturns(IF board.st = "authenticated" THEN KickSend(h) ELSE h)
  /\ UNCHANGED <<flip, link, inbox, faults>>

\* The link goes down because a side asked for it, or out of range.
LinkCloses ==
  /\ link = "up" /\ closing
  /\ LinkDown
  /\ UNCHANGED <<board, flip, inbox, faults>>

LinkLost ==
  /\ link = "up" /\ ~ closing
  /\ Fault
  /\ LinkDown
  /\ UNCHANGED <<board, flip, inbox>>

\* Mutant: every failed authentication opens a pairing window.
AfterwardsOpen(b, reason) ==
  IF b.mode = "pairing" THEN [b EXCEPT !.window = FALSE]
  ELSE IF reason # "normal" THEN [b EXCEPT !.mode = "pairing", !.window = TRUE]
  ELSE b

\* BLE_GAP_EVENT_DISCONNECT: what the board turns to, by the reason noted before.
Afterwards(b, reason) ==
  IF b.mode = "pairing" THEN [b EXCEPT !.window = FALSE]
  ELSE IF reason = "unknown_board" THEN [b EXCEPT !.mode = "pairing", !.window = TRUE]
  ELSE IF reason = "auth_failed" THEN [b EXCEPT !.delay = b.fails]
  ELSE b

BoardDisconnect ==
  /\ link = "down" /\ board.conn # "none"
  /\ board' = Afterwards([board EXCEPT !.conn = "none", !.st = "idle", !.waiting = FALSE,
                                      !.reason = "normal", !.done = "none", !.pending = << >>,
                                      !.attempt = 0, !.key = 0, !.inFlight = FALSE],
                         board.reason)
  /\ UNCHANGED <<flip, link, closing, toF, inbox, toB, faults>>

\* The Flipper's stack advertises again, behind the records it has dispatched.
FlipperDisconnect ==
  /\ link = "down" /\ flip.conn /\ inbox = << >>
  /\ flip' = [Post(OnFlipper(FALSE), "advertising").f EXCEPT !.conn = FALSE]
  /\ UNCHANGED <<board, link, closing, toF, inbox, toB, faults>>

\* The main thread takes an event.
MainHandles ==
  /\ flip.events # << >>
  /\ LET event == Head(flip.events)
         f == [flip EXCEPT !.events = Tail(@)]
         reset == ResetSession(ResetPairing([OnFlipper(FALSE) EXCEPT !.f = f])).f
     IN /\ flip' = CASE event = "connected" -> [reset EXCEPT !.phase = "exchanging"]
                      [] event = "advertising" ->
                           IF flip.phase = "done" THEN f ELSE [reset EXCEPT !.phase = "waiting"]
                      [] event = "fatal" -> [f EXCEPT !.phase = "failed"]
                      [] event = "capability" -> [f EXCEPT !.known = TRUE]
                      [] OTHER -> [f EXCEPT !.phase = event]
        /\ closing' = (closing \/ (event = "fatal" /\ link = "up"))
  /\ UNCHANGED <<board, link, toF, inbox, toB, faults>>

\* send_wifi_scan_command on the main thread; bound: one command in the air.
UserCommand ==
  /\ flip.up /\ flip.phase = "active" /\ flip.known
  /\ "command" \notin {m.type : m \in Range(toB)}
  /\ LET h == NotifyProtected(OnFlipper(FALSE), "command")
     IN flip' = h.f /\ toB' = h.toB
  /\ UNCHANGED <<board, link, closing, toF, inbox, faults>>

\* start_profile.
FlipperStart ==
  /\ ~ flip.up
  /\ flip' = [flip EXCEPT !.up = TRUE, !.phase = "waiting"]
  /\ UNCHANGED <<board, link, closing, toF, inbox, toB, faults>>

\* stop_service and the end of the application; or a loss of power while pairing_storage_save
\* has removed the old record and not yet renamed the new one.
FlipperStops ==
  /\ flip.up
  /\ Fault
  /\ \E file \in {flip.file, 0} :
       /\ file = flip.file \/ (/\ inbox # << >> /\ Head(inbox).type = "pair_complete"
                              /\ flip.stage = "confirm" /\ Head(inbox).secret = flip.pair)
       /\ flip' = FlipperOff(file, flip.cached)
  /\ inbox' = << >>
  /\ LinkDown
  /\ UNCHANGED <<board>>

\* The user deletes the pairing record from the Flipper's storage.
RecordRemoved ==
  /\ flip.file # 0
  /\ Fault
  /\ flip' = [flip EXCEPT !.file = 0]
  /\ UNCHANGED <<board, link, closing, toF, inbox, toB>>

\* A reset of the ESP32; a long press of the button, which erases the secret first.
Restart ==
  /\ Fault
  /\ board' = BoardAtBoot(board.nvs, board.backlog)
  /\ LinkDown
  /\ UNCHANGED <<flip, inbox>>

FactoryReset ==
  /\ board.nvs # 0
  /\ Fault
  /\ board' = BoardAtBoot(0, board.backlog)
  /\ LinkDown
  /\ forgot' = TRUE
  /\ UNCHANGED <<flip, inbox, unread>>

\* The ESP32 gives the common secret up by a factory reset, or by pairing anew in a window that
\* opened although the Flipper had a record; until both sides hold a common one.
GivenUp == unread /\ board'.nvs # board.nvs
PairedAgain == flip'.file # 0 /\ flip'.file = board'.nvs

Next ==
  \/ /\ \/ Connect \/ FlipperHandles
        \/ /\ \/ Subscribed \/ Delivered \/ BoardReceives \/ WriteError \/ HelloTimeout
              \/ PairReplyTimeout \/ IdleTimeout \/ WindowExpires \/ Capture \/ LinkCloses
              \/ LinkLost \/ BoardDisconnect \/ FlipperDisconnect \/ MainHandles
              \/ UserCommand \/ FlipperStart \/ FlipperStops \/ RecordRemoved \/ Restart
           /\ UNCHANGED unread
     /\ forgot' = ((forgot \/ GivenUp) /\ ~ PairedAgain)
  \/ FactoryReset

\* Tasks and threads run, the stacks deliver, the timers fire, a user who wants to use the board
\* opens the application.  Failures, the user's commands, captures and the ends of windows and
\* of idle sessions are not bound to happen.
Fairness ==
  /\ WF_system(Connect) /\ WF_system(Subscribed)
  /\ WF_system(Delivered) /\ WF_system(FlipperHandles) /\ WF_system(BoardReceives)
  /\ WF_system(HelloTimeout) /\ WF_system(PairReplyTimeout)
  /\ WF_system(LinkCloses) /\ WF_system(BoardDisconnect) /\ WF_system(FlipperDisconnect)
  /\ WF_system(MainHandles) /\ WF_system(FlipperStart)

Spec == Init /\ [][Next]_vars /\ Fairness

-----------------------------------------------------------------------------
(* Properties.                                                             *)

Types == {"pair_init", "pair_reply", "pair_confirm", "pair_complete", "pair_error", "hello",
          "hello_ack", "unknown_board", "client_auth", "query", "capability", "command",
          "status", "batch", "ack"}
Secret == 0 .. NSecrets
Message == [type : Types, id : 0 .. NSecrets + NSessions, secret : Secret, seq : 0 .. SequenceMax - 1]

\* Every component keeps to its kind of values; what the ESP32 has in RAM and in flash, and the
\* Flipper in its statics and on its card.
TypeOK ==
  /\ board \in [nvs : Secret, mode : {"runtime", "pairing"}, window : BOOLEAN,
                conn : {"none", "connecting", "up"},
                st : {"idle", "init_sent", "confirm_sent", "complete_sent", "hello_sent",
                      "authenticated"},
                attempt : Secret, sid : 0 .. NSessions, key : Secret,
                seq : 0 .. SequenceMax, rx : 0 .. SequenceMax, waiting : BOOLEAN,
                done : {"none", "complete", "disconnect", "authenticated", "drained"},
                pending : Seq({"capability", "status", "batch"}), inFlight : BOOLEAN,
                backlog : 0 .. MaxBacklog, reason : {"normal", "auth_failed", "unknown_board"},
                fails : 0 .. MaxFails, delay : 0 .. MaxFails]
  /\ flip \in [up : BOOLEAN, conn : BOOLEAN, file : Secret, cached : BOOLEAN,
               stage : {"none", "init", "confirm"}, pair : Secret,
               sess : {"none", "hello", "active"}, sid : 0 .. NSessions, secret : Secret,
               key : Secret, out : 0 .. SequenceMax, in : 0 .. SequenceMax, known : BOOLEAN,
               phase : {"none", "waiting", "exchanging", "confirming", "saving", "done", "failed",
                        "authenticating", "active"},
               events : Seq({"connected", "advertising", "fatal", "capability", "confirming",
                             "saving", "done", "failed", "authenticating", "active"})]
  /\ link \in {"up", "down"} /\ closing \in BOOLEAN /\ forgot \in BOOLEAN /\ unread \in BOOLEAN
  /\ toF \in Seq(Message) /\ inbox \in Seq(Message) /\ toB \in Seq(Message)
  /\ faults \in 0 .. MaxFaults
  /\ Len(flip.events) <= EventCap

\* The two saves of a new secret are not atomic: the ESP32 writes it before pair_complete, the
\* Flipper behind it.  Whatever is lost in between, the sides end with different secrets only if
\* the ESP32 was erased and the Flipper not, or paired anew when the Flipper had failed to read
\* its record and could not replace it: else the Flipper has no record and says unknown_board
\* (docs/PAIRING.md step 5, finish_pairing_after_confirm, handle_pair_complete,
\* pairing_storage_load).
OnlyForgottenSecretsDiffer ==
  board.nvs # 0 /\ flip.file # 0 /\ board.nvs # flip.file => forgot

\* A proof that does not match never opens a pairing window: the ESP32 leaves runtime mode only
\* while the Flipper has no record of it, or behind the connection on which it could not read
\* the one it has, whatever failed or came late on that connection (docs/PROTOCOL.md "Runtime
\* auth failure handling", BLE_GAP_EVENT_DISCONNECT).
WindowOnlyWhenUnknown ==
  [][board.mode = "runtime" /\ board'.mode = "pairing" /\ board'.nvs # 0
       => flip.file = 0 \/ unread]_vars

\* "The ESP32 must rate-limit failed authentication attempts": a connection that ended by a proof
\* of another secret is followed by the delay of all failures in a row, though late answers and
\* the answers of the link layer still come in; and only a proof that matches, or a restart,
\* ends the row (fail_runtime_auth, handle_hello_ack, schedule_runtime_auth_backoff).
RateLimitedWhileDesynced ==
  [][/\ BoardDisconnect /\ board.reason = "auth_failed" /\ flip.file \notin {0, board.nvs}
          => board'.delay = board.fails /\ board.fails > 0
     /\ board'.fails < board.fails /\ board'.conn # "none"
          => board'.fails = 0 /\ board'.key # 0]_vars

\* What the ESP32 takes for an authenticated session, the Flipper does too, under the same key.
Consumed(type) == \A m \in Range(toF) \cup Range(inbox) : m.type # type
BothEndsAgree ==
  board.st = "authenticated" /\ link = "up" /\ ~ closing /\ Consumed("client_auth")
    => flip.sess = "active" /\ flip.sid = board.sid /\ flip.key = board.key

\* Along one session every record on its way has a number of its own, below the sender's counter
\* and not below the receiver's: no nonce is used twice under a key.  On a live link the Flipper
\* misses none (start_protected_send, profile_event_handler, feb_session_build_nonce).
Numbered(s) ==
  {i \in DOMAIN s : s[i].type \in {"query", "capability", "command", "status", "batch"}}
Rising(s, low, high) ==
  \A i \in Numbered(s) : /\ s[i].seq \in low .. high - 1
                         /\ \A j \in Numbered(s) : j < i => s[j].seq < s[i].seq
StreamsInStep ==
  flip.sess = "active" /\ board.st = "authenticated" /\ flip.sid = board.sid =>
    LET out == inbox \o toF
    IN /\ Rising(out, flip.in, board.seq)
       /\ link = "up" /\ ~ closing
             => {out[i].seq : i \in Numbered(out)} = flip.in .. board.seq - 1
       /\ Rising(toB, 1, flip.out)

\* The ESP32 removes a capture from its log when the link has confirmed the batch: as long as no
\* side has given the connection up, the Flipper's application takes what is confirmed
\* (wardriving_send_next_batch: the re-entry "is what confirms full delivery of the batch").
DrainedIsAccepted ==
  [][FlipperHandles /\ Head(inbox).type = "batch" /\ link = "up" /\ ~ closing
       => flip'.in = flip.in + 1]_vars

\* With a common secret and the application open, the sides come to an authenticated session, and
\* do so again after every failure (reassembly_timeout_cb, BLE_GAP_EVENT_DISCONNECT, the main
\* loop's resets).  Sessions that use up their sequence numbers, few here, are left out.
BothActive ==
  link = "up" /\ board.st = "authenticated" /\ flip.sess = "active" /\ flip.sid = board.sid
Recovers ==
  <>[](flip.up /\ board.mode = "runtime" /\ board.nvs = flip.file /\ board.seq < SequenceMax)
    => []<>BothActive

\* The ends of a session agree: on the session and its key, and on where each of its streams of
\* numbered records is (handle_client_auth, profile_event_handler).
EndsAgree == TypeOK /\ BothEndsAgree /\ StreamsInStep

\* What an authentication that fails leads to: a pairing window only when the Flipper has no
\* record, and else a delay by the whole row of failures (BLE_GAP_EVENT_DISCONNECT).
FailuresAreAnswered == WindowOnlyWhenUnknown /\ RateLimitedWhileDesynced
=============================================================================
