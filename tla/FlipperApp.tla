----------------------------- MODULE FlipperApp -----------------------------
(***************************************************************************)
(* The Flipper application behind an authenticated session:                *)
(* flipper/flipper_esp32_over_ble.c from handle_client_auth on.  Commands  *)
(* leave it, answers come back, and the user looks at screens made from    *)
(* the answers.                                                            *)
(*                                                                         *)
(* Two threads run it.  The BLE worker authenticates, asks for the board's *)
(* capabilities and handles every record; what it learns it posts to a     *)
(* queue of QueueDepth events and never waits for room.  The main thread   *)
(* takes events and keys from that queue, draws, and sends the commands.   *)
(* Sending is two steps of either thread, Encode (take the sequence number,*)
(* fill the buffers, remember the command) and Transmit (the fragments, and*)
(* only then the next number), and the threads share all of it.            *)
(*                                                                         *)
(* The board is external here (ScanArbiter models it): it checks sequence  *)
(* numbers, answers commands in order, and speaks unasked when a drain     *)
(* delivers captures or its engine stops itself.  The link loses nothing   *)
(* but itself; Session and Framing treat records that get lost.  A scan is *)
(* over before its client has reconnected (ScanArbiter's "fast_reconnect").*)
(*                                                                         *)
(* One slot, pending, stands for the command an answer belongs to, and     *)
(* answers carry no other name that the code reads.  raced records which   *)
(* of the timings that defeat this have happened; a property that needs    *)
(* one of them to be absent says so:                                       *)
(*   "two_senders"   a thread encodes while the other is sending           *)
(*   "overflow"      an event found the queue full                         *)
(*   "crossed"       a command is sent while another is unanswered         *)
(*   "unsolicited"   the engine stops itself while a command is unanswered *)
(*   "drain_stopped" a batch of the backlog comes while nothing is captured*)
(*   "button"        the engine is switched at the board                   *)
(*   "late_keys"     a scan is asked for while the queue holds events of   *)
(*                   the scan before                                       *)
(*   "reset_on_gps"  the session changes while the GPS screen is open      *)
(***************************************************************************)
EXTENDS Integers, Sequences, FiniteSets

CONSTANTS
  MaxCommands,  \* bound: commands sent behind handle_client_auth
  MaxSessions,  \* bound: sessions
  MaxUnasked,   \* bound: things the board does unasked
  MaxRaces,     \* bound: different timings of raced in one behaviour
  MaxInAir,     \* bound: records under way in one direction
  QueueDepth    \* events the queue of the main thread holds

ASSUME FlipperAppAssumption ==
  /\ MaxCommands \in Nat /\ MaxUnasked \in Nat /\ MaxRaces \in Nat
  /\ MaxSessions \in Nat \ {0} /\ MaxInAir \in Nat \ {0} /\ QueueDepth \in Nat \ {0}

VARIABLES
  ui,       \* what the main thread keeps and draws, see AtStart
  events,   \* app->queue
  pending,  \* pending_command_kind
  seqOut,   \* session_seq_out
  buf,      \* cmd_record_buf
  mid,      \* the record each thread is in the middle of sending
  worker,   \* how far handle_client_auth has come
  cached,   \* a capability file exists for the board
  link,     \* "down", "up", or "auth": authenticated
  session,  \* sessions so far
  toB, toF, \* records under way to the board and to the Flipper
  board,    \* external: the engine, the scans it owes results of, the next sequence number
  count,    \* commands so far
  unasked,  \* things the board did unasked so far
  owed,     \* history: commands whose last answer the worker has not handled
  raced     \* history: the timings that have happened, see above

vars == <<ui, events, pending, seqOut, buf, mid, worker, cached, link, session, toB, toF, board,
          count, unasked, owed, raced>>

ScanKinds == {"wifi", "ble"}
Threads == {"main", "worker"}
NoRecord == [seq |-> 0]
NoScan == [id |-> 0, more |-> FALSE]

\* One kind of scan on the screen: *_in_progress, and which scans the rows are of.
NoList == [progress |-> FALSE, rows |-> {}]

\* flipper_esp32_over_ble_app: the initial Esp32App.
AtStart ==
  [screen |-> "home", active |-> FALSE, caps |-> FALSE, known |-> FALSE, running |-> FALSE,
   scan |-> [k \in ScanKinds |-> NoList], gpsTimer |-> FALSE]

Init ==
  /\ ui = AtStart
  /\ events = << >>
  /\ pending = "none"
  /\ seqOut = 0
  /\ buf = NoRecord
  /\ mid = [t \in Threads |-> NoRecord]
  /\ worker = "idle"
  /\ cached \in BOOLEAN
  /\ link = "down"
  /\ session = 0
  /\ toB = << >> /\ toF = << >>
  /\ board = [engine |-> FALSE, scan |-> [k \in ScanKinds |-> NoScan], seqIn |-> 0,
              refused |-> FALSE]
  /\ count = 0 /\ unasked = 0
  /\ owed = {}
  /\ raced = {}

-----------------------------------------------------------------------------
(* Events.                                                                  *)

\* furi_message_queue_put with no time to wait: what does not fit is gone.
Posted(es) == SubSeq(events \o es, 1, IF Len(events \o es) < QueueDepth
                                      THEN Len(events \o es) ELSE QueueDepth)
Dropped(es) == IF Len(events \o es) > QueueDepth THEN {"overflow"} ELSE {}

Event(type) == [type |-> type]
Waits(types) == \E i \in DOMAIN events : events[i].type \in types
Queued(types, k) ==
  \E i \in DOMAIN events : events[i].type \in types /\ events[i].kind = k
RunState(running) == [type |-> "run", running |-> running]
Row(k, id) == [type |-> "row", kind |-> k, id |-> id]
ScanOver(k, type, id) == [type |-> type, kind |-> k, id |-> id]

\* AppEventWardrivingRunState: the two wardriving screens follow the state.
WardrivingScreen(u) ==
  IF u.screen \in {"wd_running", "wd_stopped"}
  THEN [u EXCEPT !.screen = IF u.running THEN "wd_running" ELSE "wd_stopped"] ELSE u

\* Mutant: what was known of the engine outlives the session.
KeepsRunState(u) == [u EXCEPT !.scan = [k \in ScanKinds |-> NoList], !.gpsTimer = FALSE]

\* reset_scan_ui_state_impl, but for the export (Export) and the pending command.
Cleared(u) ==
  [u EXCEPT !.scan = [k \in ScanKinds |-> NoList], !.known = FALSE, !.running = FALSE,
            !.gpsTimer = FALSE]

\* A key on a menu or a scan's OK: nothing of the scan before is left.
Fresh(u, k) == [u EXCEPT !.scan[k] = NoList]

-----------------------------------------------------------------------------
(* Sending, by either thread.                                               *)

Command(kind, id) == [kind |-> kind, id |-> id]

\* Mutant: the GPS poll takes the slot as well.
AnySlot(kind) == IF kind = "caps" THEN pending ELSE kind

\* Which slot a command takes; the GPS poll and the capability query take none.
Slot(kind) == IF kind \in {"gps", "caps"} THEN pending ELSE kind

\* Mutant: the number is taken once, for the query and for what follows it.
Unstepped(n) == n
NextNumber(n) == n + 1

\* send_*_command and capability_bootstrap up to send_pairing_record.
Encode(t, kind, id) ==
  /\ mid[t] = NoRecord
  /\ LET r == [seq |-> seqOut, session |-> session, cmd |-> Command(kind, id)]
     IN /\ mid' = [mid EXCEPT ![t] = r]
        /\ buf' = IF kind = "caps" THEN buf ELSE r
  /\ pending' = Slot(kind)
  /\ owed' = IF id = 0 THEN owed ELSE owed \cup {id}
  /\ raced' = raced
       \cup (IF \E o \in Threads \ {t} : mid[o] # NoRecord THEN {"two_senders"} ELSE {})
       \cup (IF id # 0 /\ owed # {} THEN {"crossed"} ELSE {})
       \cup (IF kind \in ScanKinds /\ Queued({"row", "done", "error"}, kind)
             THEN {"late_keys"} ELSE {})

\* send_pairing_record, and session_seq_out++ behind it.  The capability query has buffers of
\* its own; a command goes out as the shared one now is.
Transmit(t) ==
  /\ mid[t] # NoRecord
  /\ Len(toB) < MaxInAir
  /\ toB' = IF link # "auth" THEN toB
            ELSE Append(toB, IF mid[t].cmd.kind = "caps" THEN mid[t] ELSE buf)
  /\ seqOut' = NextNumber(seqOut)
  /\ mid' = [mid EXCEPT ![t] = NoRecord]
  /\ buf' = IF \E o \in Threads \ {t} : mid[o] # NoRecord THEN buf ELSE NoRecord
  /\ UNCHANGED <<ui, events, pending, worker, cached, link, session, toF, board, count,
                 unasked, owed, raced>>

-----------------------------------------------------------------------------
(* The BLE worker.                                                          *)

Worker == mid.worker = NoRecord /\ link = "auth"

\* handle_client_auth: the session is up.  The main thread has dealt with the connection by
\* then (Session's LateReset): only an event of it that was dropped has not been handled.
Authenticate ==
  /\ link = "up" /\ mid.worker = NoRecord
  /\ ~ Waits({"connected", "advertising"})
  /\ link' = "auth"
  /\ session' = session + 1
  /\ seqOut' = 1
  /\ board' = [board EXCEPT !.seqIn = 1]
  /\ events' = Posted(<<Event("active")>>)
  /\ raced' = raced \cup Dropped(<<Event("active")>>)
  /\ worker' = "bootstrap"
  /\ UNCHANGED <<ui, pending, buf, mid, cached, toB, toF, count, unasked, owed>>

\* capability_bootstrap: the cached capabilities, or a query.
BootstrapCached ==
  /\ Worker /\ worker = "bootstrap" /\ cached
  /\ events' = Posted(<<Event("caps")>>)
  /\ raced' = raced \cup Dropped(<<Event("caps")>>)
  /\ worker' = "ask"
  /\ UNCHANGED <<ui, pending, seqOut, buf, mid, cached, link, session, toB, toF, board, count,
                 unasked, owed>>

BootstrapQuery ==
  /\ Worker /\ worker = "bootstrap" /\ ~ cached
  /\ Encode("worker", "caps", 0)
  /\ worker' = "ask"
  /\ UNCHANGED <<ui, events, seqOut, cached, link, session, toB, toF, board, count, unasked>>

\* The end of handle_client_auth: what the main thread shows decides whether to ask.
AskStatus ==
  /\ Worker /\ worker = "ask"
  /\ worker' = "idle"
  /\ IF ui.caps /\ ~ ui.known /\ ui.active
     THEN /\ Encode("worker", "status", count + 1)
          /\ count' = count + 1
     ELSE UNCHANGED <<mid, buf, pending, owed, raced, count>>
  /\ UNCHANGED <<ui, events, seqOut, cached, link, session, toB, toF, board, unasked>>

\* A record of the board is taken off the link; es is posted, the slot becomes p.
Handle(es, p) ==
  /\ Worker /\ worker = "idle" /\ toF # << >>
  /\ toF' = Tail(toF)
  /\ events' = Posted(es)
  /\ pending' = p
  /\ owed' = IF Head(toF).last THEN owed \ {Head(toF).id} ELSE owed
  /\ raced' = raced \cup Dropped(es)
       \cup (IF Head(toF).id = 0 /\ Head(toF).state \in {"stopped", "internal_error"}
                /\ owed # {} THEN {"unsolicited"} ELSE {})
  /\ UNCHANGED <<ui, seqOut, buf, mid, worker, link, session, toB, board, count, unasked>>

First == Head(toF)
Arrives(states) == toF # << >> /\ First.state \in states

\* handle_capability_response
HandleCapabilities ==
  /\ Arrives({"caps"})
  /\ Handle(<<Event("caps")>>, pending)
  /\ cached' = TRUE

\* Results of the other kind do not decode and are dropped, the word "complete" with them.
ScanStatus(k) ==
  /\ Arrives({"partial", "complete"})
  /\ LET decodes == First.kind = k
         over == First.state = "complete"
     IN Handle(IF ~ decodes THEN << >>
               ELSE IF over THEN <<Row(k, First.id), ScanOver(k, "done", First.id)>>
               ELSE <<Row(k, First.id)>>,
               IF decodes /\ over THEN "none" ELSE pending)
  /\ UNCHANGED cached

\* profile_event_handler lets the slot choose between the two.
HandleWifiScanStatus == pending # "ble" /\ ScanStatus("wifi")
HandleBleScanStatus == pending = "ble" /\ ScanStatus("ble")

\* handle_gps_status
HandleGps ==
  /\ Arrives({"gps"})
  /\ Handle(<<Event("gps")>>, pending)
  /\ UNCHANGED cached

\* handle_wardriving_status: "started", "stopped", and "data", whose rows Export follows.
HandleWardriving ==
  /\ Arrives({"started", "stopped", "data"})
  /\ Handle(<<RunState(First.state # "stopped")>>,
            IF First.state = "data" THEN pending ELSE "none")
  /\ UNCHANGED cached

\* Mutant: an error is logged only.
SilentErrors(code) == << >>

\* handle_runtime_error: whose error it is, the slot decides.
ErrorEvents(code) ==
  CASE code \in {"busy", "internal_error"} /\ pending \in ScanKinds ->
         <<ScanOver(pending, "error", First.id)>>
    [] code = "busy" /\ pending = "start" -> <<RunState(TRUE)>>
    [] code = "not_running" /\ pending = "stop" -> <<RunState(FALSE)>>
    [] code = "internal_error" /\ pending \in {"start", "stop"} -> <<RunState(FALSE)>>
    [] OTHER -> << >>

HandleError ==
  /\ Arrives({"busy", "not_running", "internal_error"})
  /\ Handle(ErrorEvents(First.state), "none")
  /\ UNCHANGED cached

-----------------------------------------------------------------------------
(* The main thread.                                                         *)

Main == mid.main = NoRecord
UnlessUi == <<seqOut, worker, cached, link, session, toB, toF, board, unasked>>

\* What the main loop makes of an event.
Seen(e) ==
  CASE e.type \in {"connected", "advertising"} -> [Cleared(ui) EXCEPT !.active = FALSE]
    [] e.type = "active" -> [ui EXCEPT !.active = TRUE]
    [] e.type = "caps" -> [ui EXCEPT !.caps = TRUE]
    [] e.type = "row" -> [ui EXCEPT !.scan[e.kind].rows = @ \cup {e.id}]
    [] e.type \in {"done", "error"} -> [ui EXCEPT !.scan[e.kind].progress = FALSE]
    [] e.type = "run" -> WardrivingScreen([ui EXCEPT !.known = TRUE, !.running = e.running])
    [] OTHER -> ui

PollDue ==
  events # << >> /\ Head(events).type = "tick" /\ ui.screen = "gps" /\ ui.caps /\ ui.active

MainEvent ==
  /\ Main /\ events # << >> /\ ~ PollDue
  /\ LET e == Head(events)
         reset == e.type \in {"connected", "advertising"}
     IN /\ ui' = Seen(e)
        /\ events' = Tail(events)
        /\ pending' = IF reset THEN "none" ELSE pending
        /\ raced' = IF reset /\ ui.screen = "gps" THEN raced \cup {"reset_on_gps"} ELSE raced
  /\ UNCHANGED <<mid, buf, owed, count, UnlessUi>>

\* AppEventGpsPollTick while the GPS screen is open: send_gps_command.
PollGps ==
  /\ Main /\ PollDue
  /\ count < MaxCommands
  /\ count' = count + 1
  /\ events' = Tail(events)
  /\ Encode("main", "gps", 0)
  /\ UNCHANGED <<ui, UnlessUi>>

\* A key after which the screen shows u, and what the key sends, if anything can be sent.
Sends(u, kind) ==
  /\ Main
  /\ ui' = u
  /\ IF ui.active
     THEN /\ count < MaxCommands
          /\ count' = count + 1
          /\ Encode("main", kind, count + 1)
     ELSE UNCHANGED <<mid, buf, pending, owed, raced, count>>
  /\ UNCHANGED <<events, UnlessUi>>

Shows(u, p) ==
  /\ Main
  /\ ui' = u
  /\ pending' = p
  /\ UNCHANGED <<events, mid, buf, owed, raced, count, UnlessUi>>

\* OK on the scan menu, or in the results: a new scan.
KeyScan(k) ==
  /\ ui.screen \in {"home", k} /\ ui.caps /\ ~ ui.scan[k].progress
  /\ Sends([Fresh(ui, k) EXCEPT !.scan[k].progress = ui.active,
                                !.screen = IF ui.active THEN k ELSE @],
           k)

KeyWifiScan == KeyScan("wifi")
KeyBleScan == KeyScan("ble")

\* OK on Home, Wardriving.
KeyWardriving ==
  /\ ui.screen = "home"
  /\ LET u == [ui EXCEPT !.screen = IF ui.known /\ ui.running THEN "wd_running" ELSE "wd_stopped",
                         !.gpsTimer = FALSE]
     IN IF ui.active /\ ui.caps /\ ~ ui.known THEN Sends(u, "status") ELSE Shows(u, pending)

\* OK on the two wardriving screens.
KeyStart == ui.screen = "wd_stopped" /\ ui.caps /\ Sends(ui, "start")
KeyStop == ui.screen = "wd_running" /\ Sends(ui, "stop")

Polls(u) == TRUE

\* OK on Home, GPS.
KeyGps ==
  /\ ui.screen = "home" /\ ui.caps
  /\ Shows([ui EXCEPT !.screen = "gps", !.gpsTimer = Polls(ui)], pending)

\* Back: out of a scan's results everything is discarded, out of the others nothing.
Left(u) ==
  IF u.screen \in ScanKinds THEN [Cleared(u) EXCEPT !.screen = "home"]
  ELSE [u EXCEPT !.screen = "home", !.gpsTimer = FALSE]

KeyBack ==
  /\ ui.screen # "home"
  /\ Shows(Left(ui), IF ui.screen \in ScanKinds THEN "none" ELSE pending)

\* gps_poll_timer_callback, one tick at a time.
GpsTick ==
  /\ ui.gpsTimer /\ count < MaxCommands
  /\ ~ Waits({"tick"})
  /\ Len(events) < QueueDepth
  /\ events' = Append(events, Event("tick"))
  /\ UNCHANGED <<ui, pending, seqOut, buf, mid, worker, cached, link, session, toB, toF, board,
                 count, unasked, owed, raced>>

-----------------------------------------------------------------------------
(* The link and the board.                                                  *)

\* bt_status_callback
Connect ==
  /\ link = "down" /\ session < MaxSessions /\ mid.worker = NoRecord
  /\ link' = "up"
  /\ events' = Posted(<<Event("connected")>>)
  /\ raced' = raced \cup Dropped(<<Event("connected")>>)
  /\ UNCHANGED <<ui, pending, seqOut, buf, mid, worker, cached, session, toB, toF, board, count,
                 unasked, owed>>

\* The link is gone; the worker finishes what it is in, nothing is left on the way.
Gone ==
  /\ link' = "down"
  /\ toB' = << >> /\ toF' = << >>
  /\ events' = Posted(<<Event("advertising")>>)
  /\ raced' = raced \cup Dropped(<<Event("advertising")>>)
  /\ worker' = "idle"
  /\ owed' = {}
  /\ UNCHANGED <<ui, pending, seqOut, buf, mid, cached, session, count, unasked>>

Disconnect ==
  /\ link # "down"
  /\ Gone
  /\ board' = [board EXCEPT !.scan = [k \in ScanKinds |-> NoScan]]

Reply(state, kind, id, last) == [state |-> state, kind |-> kind, id |-> id, last |-> last]

\* What the board's command handlers make of a command: <<its state, its answer>>.
Answers(c) ==
  CASE c.kind = "caps" -> {<<board, Reply("caps", "none", 0, TRUE)>>}
    [] c.kind = "gps" -> {<<board, Reply("gps", "gps", 0, TRUE)>>}
    [] c.kind = "status" ->
         {<<board, Reply(IF board.engine THEN "started" ELSE "stopped", "wd", c.id, TRUE)>>}
    [] c.kind = "stop" ->
         IF board.engine
         THEN {<<[board EXCEPT !.engine = FALSE], Reply("stopped", "wd", c.id, TRUE)>>}
         ELSE {<<board, Reply("not_running", "wd", c.id, TRUE)>>}
    [] c.kind = "start" ->
         IF board.engine \/ \E k \in ScanKinds : board.scan[k] # NoScan
         THEN {<<board, Reply("busy", "wd", c.id, TRUE)>>}
         ELSE {<<[board EXCEPT !.engine = TRUE], Reply("started", "wd", c.id, TRUE)>>,
               <<board, Reply("internal_error", "wd", c.id, TRUE)>>}
    [] OTHER ->
         (IF board.scan[c.kind] = NoScan
          THEN {<<[board EXCEPT !.scan[c.kind] = [id |-> c.id, more |-> TRUE]],
                  Reply("silence", c.kind, c.id, FALSE)>>,
                <<board, Reply("internal_error", c.kind, c.id, TRUE)>>}
          ELSE {})
         \cup (IF ~ board.scan[c.kind] = NoScan \/ board.engine
               THEN {<<board, Reply("busy", c.kind, c.id, TRUE)>>} ELSE {})

\* A record reaches the board: out of turn it costs the session, else it is answered.
BoardHandles ==
  /\ link = "auth" /\ toB # << >> /\ Len(toF) < MaxInAir
  /\ LET r == Head(toB)
     IN IF r.seq # board.seqIn \/ r.session # session
        THEN /\ Gone
             /\ board' = [board EXCEPT !.scan = [k \in ScanKinds |-> NoScan], !.refused = TRUE]
        ELSE /\ \E a \in Answers(r.cmd) :
                  /\ board' = [a[1] EXCEPT !.seqIn = @ + 1]
                  /\ toF' = IF a[2].state = "silence" THEN toF ELSE Append(toF, a[2])
             /\ toB' = Tail(toB)
             /\ UNCHANGED <<ui, events, pending, seqOut, buf, mid, worker, cached, link, session,
                            count, unasked, owed, raced>>

BoardSays(records) ==
  /\ link = "auth" /\ Len(toF) < MaxInAir
  /\ toF' = toF \o records
  /\ UNCHANGED <<ui, events, pending, seqOut, buf, mid, worker, cached, link, session, toB,
                 count, owed>>

\* A batch of results, of which a scan has one or two here.
Partial(k) ==
  /\ board.scan[k].more
  /\ BoardSays(<<Reply("partial", k, board.scan[k].id, FALSE)>>)
  /\ board' = [board EXCEPT !.scan[k].more = FALSE]
  /\ UNCHANGED <<unasked, raced>>

Complete(k) ==
  /\ board.scan[k] # NoScan
  /\ BoardSays(<<Reply("complete", k, board.scan[k].id, TRUE)>>)
  /\ board' = [board EXCEPT !.scan[k] = NoScan]
  /\ UNCHANGED <<unasked, raced>>

\* wardriving_send_next_batch, also when only the backlog is left.
Drain ==
  /\ unasked < MaxUnasked
  /\ BoardSays(<<Reply("data", "wd", 0, FALSE)>>)
  /\ unasked' = unasked + 1
  /\ raced' = IF board.engine THEN raced ELSE raced \cup {"drain_stopped"}
  /\ UNCHANGED board

\* wardriving_self_stop: an error and the state, neither of them asked for.
SelfStop ==
  /\ unasked < MaxUnasked /\ board.engine
  /\ BoardSays(<<Reply("internal_error", "wd", 0, FALSE), Reply("stopped", "wd", 0, FALSE)>>)
  /\ unasked' = unasked + 1
  /\ board' = [board EXCEPT !.engine = FALSE]
  /\ UNCHANGED raced

\* The board's button switches the engine and tells nobody.
Button ==
  /\ unasked < MaxUnasked
  /\ unasked' = unasked + 1
  /\ board' = [board EXCEPT !.engine = ~ @]
  /\ raced' = IF link = "auth" THEN raced \cup {"button"} ELSE raced
  /\ UNCHANGED <<ui, events, pending, seqOut, buf, mid, worker, cached, link, session, toB, toF,
                 count, owed>>

WorkerStep ==
  \/ BootstrapCached \/ BootstrapQuery \/ AskStatus
  \/ HandleCapabilities \/ HandleWifiScanStatus \/ HandleBleScanStatus \/ HandleGps
  \/ HandleWardriving \/ HandleError
UserStep ==
  \/ KeyWifiScan \/ KeyBleScan
  \/ KeyWardriving \/ KeyStart \/ KeyStop \/ KeyGps \/ KeyBack

Step ==
  \/ Connect \/ Authenticate \/ Disconnect
  \/ WorkerStep \/ MainEvent \/ PollGps \/ UserStep \/ GpsTick
  \/ \E t \in Threads : Transmit(t)
  \/ BoardHandles \/ Drain \/ SelfStop \/ Button
  \/ \E k \in ScanKinds : Partial(k) \/ Complete(k)

Next == Step /\ Cardinality(raced') <= MaxRaces

\* Both threads run, the link carries, the board answers and ends its scans.
Fairness ==
  /\ WF_vars(WorkerStep) /\ WF_vars(MainEvent \/ PollGps) /\ WF_vars(BoardHandles)
  /\ WF_vars(\E t \in Threads : Transmit(t))
  /\ WF_vars(\E k \in ScanKinds : Complete(k))

Spec == Init /\ [][Next]_vars /\ Fairness

-----------------------------------------------------------------------------
(* Properties.                                                              *)

Commands == {"none", "wifi", "ble", "status", "start", "stop"}
Timings == {"two_senders", "overflow", "crossed", "unsolicited", "drain_stopped", "button",
            "reset_on_gps", "late_keys"}
But(timings) == raced \cap timings # {}

\* Types of the variables: one slot, a bounded queue, known timings.
TypeOK ==
  /\ ui.screen \in ScanKinds \cup {"home", "wd_running", "wd_stopped", "gps"}
  /\ \A k \in ScanKinds : ui.scan[k].progress \in BOOLEAN /\ ui.scan[k].rows \subseteq 1..count
  /\ {ui.active, ui.caps, ui.known, ui.running, ui.gpsTimer, cached, board.engine} \subseteq BOOLEAN
  /\ Len(events) <= QueueDepth
  /\ pending \in Commands
  /\ link \in {"down", "up", "auth"} /\ session \in 0..MaxSessions
  /\ worker \in {"idle", "bootstrap", "ask"}
  /\ owed \subseteq 1..count
  /\ raced \subseteq Timings

\* send_wifi_scan_command's comment (flipper_esp32_over_ble.c:2644): the threads that share the
\* session's counter and buffers are safe from each other.  The board never gets a record out
\* of turn, unless one thread encodes while the other is sending.
InStep == board.refused => But({"two_senders", "overflow"})

Quiet == events = << >> /\ toF = << >> /\ toB = << >> /\ mid = [t \in Threads |-> NoRecord]

\* When nothing is under way, what the wardriving screens say is what the engine does
\* (handle_wardriving_status, handle_runtime_error, reset_scan_ui_state).
RunStateAgrees ==
  Quiet /\ link = "auth" /\ ui.known =>
    \/ ui.running = board.engine
    \/ But({"drain_stopped", "button", "overflow", "crossed"})

\* The wardriving screen that is open is the one of the run state that is known.
WardrivingScreenFollows ==
  /\ ui.screen = "wd_running" => ui.running \/ ~ ui.known
  /\ ui.screen = "wd_stopped" => ~ ui.running

\* The rows of a results screen are those of one scan (reset_scan_ui_state, the keys' resets).
ListIsOneScan ==
  \A k \in ScanKinds : Cardinality(ui.scan[k].rows) <= 1 \/ But({"crossed", "late_keys"})

\* An answer of the board that ends the wait for a scan of kind k.
Ends(r, k) == r.kind = k /\ r.last

\* While the screen says a scan is running, something is under way that will end it: its end
\* or its error, in the queue, on the link or at the board, and the slot to route it by; or
\* the session is gone, which resets the screen.
ScanIsAwaited ==
  \A k \in ScanKinds :
    ui.scan[k].progress =>
      \/ Waits({"connected", "advertising"})
      \/ Queued({"done", "error"}, k)
      \/ /\ pending = k
         /\ \/ mid.main # NoRecord /\ mid.main.cmd.kind = k
            \/ \E i \in DOMAIN toB : toB[i].cmd.kind = k
            \/ board.scan[k] # NoScan
            \/ \E i \in DOMAIN toF : Ends(toF[i], k)
      \/ But({"overflow", "crossed", "unsolicited"})

\* An error that arrives is shown to the user as the error of the command it answers, or of
\* none (handle_runtime_error reads no request_id).
Owner(slot) == IF slot \in ScanKinds THEN slot ELSE "wd"
ErrorFindsItsCommand ==
  Worker /\ worker = "idle" /\ Arrives({"busy", "not_running", "internal_error"})
    /\ First.id # 0 /\ pending # "none" =>
      Owner(pending) = First.kind \/ But({"crossed"})

\* handle_runtime_error's comment (flipper_esp32_over_ble.c:2580): a refused start means that
\* the engine was running already.
BusyMeansRunning ==
  Worker /\ worker = "idle" /\ Arrives({"busy"}) /\ First.kind = "wd" /\ unasked = 0 =>
    board.engine

\* The GPS screen is polled for as long as it is open (KeyGps, reset_scan_ui_state_impl).
GpsScreenIsFed == ui.screen = "gps" => ui.gpsTimer \/ But({"reset_on_gps"})

\* A scan the screen shows as running ends, one way or another.
ScansEnd ==
  \A k \in ScanKinds : ui.scan[k].progress ~> ~ ui.scan[k].progress \/ raced # {}

\* Two threads send over one session and post to one queue: no number is used twice, and the
\* queue is never over its limit (send_wifi_scan_command, furi_message_queue_put).
SendsInStep == TypeOK /\ InStep

\* What the screens show of the engine and of the GPS is so, or is on its way to be
\* (handle_wardriving_status, handle_runtime_error, reset_scan_ui_state_impl).
ScreensAreTrue == RunStateAgrees /\ WardrivingScreenFollows /\ GpsScreenIsFed

\* Answers go with the command that is waited for, although they carry no name the code reads
\* and one slot stands for all commands (pending_command_kind).
AnswersFindTheirCommand == ScanIsAwaited /\ ListIsOneScan /\ ErrorFindsItsCommand
=============================================================================
