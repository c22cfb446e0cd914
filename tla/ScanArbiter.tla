---------------------------- MODULE ScanArbiter ----------------------------
(***************************************************************************)
(* Who has the radios of the ESP32: esp32/main/main.c runs one Wi-Fi       *)
(* driver and one BLE discovery for three users, the manual scans a client *)
(* asks for, the capture cycles of wardriving, and the search for the      *)
(* Flipper while no client is connected.                                   *)
(*                                                                         *)
(* All handlers run on the NimBLE host task, one at a time; only           *)
(* wifi_scan_done_handler runs on the event task.  The Wi-Fi driver and    *)
(* the NimBLE discovery are external: a started scan ends with a SCAN_DONE *)
(* event, also when it is stopped, and a cancelled discovery is just off.  *)
(*                                                                         *)
(* Races selects the unlucky timings and the fault a run admits:           *)
(*   "drop_in_window"  the link is lost while the callout that ends a BLE  *)
(*                     window is armed and wardriving does not own it      *)
(*   "drop_mid_chain"  the link is lost between two batches of scan results*)
(*   "stop_while_down" wardriving stops while no client is connected       *)
(*   "stale_scan_done" a scan is asked for while the end of a stopped one  *)
(*                     is on its way: the SCAN_DONE, or the callout of a   *)
(*                     window, if NimBLE refuses the scan asked for        *)
(*   "fast_reconnect"  a client authenticates before the scan of the lost  *)
(*                     connection is over                                  *)
(*   "disc_error"      NimBLE refuses to start the search                  *)
(***************************************************************************)
EXTENDS Integers, Sequences

CONSTANTS
  MaxRequests,  \* bound: manual scans asked for
  MaxEvents,    \* bound: SCAN_DONE events pending
  Races         \* the timings admitted, see above

ASSUME ScanAssumption ==
  /\ MaxRequests \in Nat /\ MaxEvents \in Nat \ {0}
  /\ Races \subseteq {"drop_in_window", "drop_mid_chain", "stop_while_down",
                      "stale_scan_done", "fast_reconnect", "disc_error"}

VARIABLES
  mode,       \* boot_mode: "runtime", or pairing with its window "open" or "closed"
  link,       \* connection_handle and runtime_auth_state
  disc,       \* BLE discovery is running
  reconnect,  \* reconnect_task_active: reconnect_co is armed
  wifi,       \* the Wi-Fi scan flags and callouts, see WifiIdle
  ble,        \* the BLE scan flags and callouts, see BleIdle
  radio,      \* the Wi-Fi driver: the scan it runs, and its pending SCAN_DONE events
  chain,      \* records in the transmit pipeline that continue a scan's results
  want,       \* wardriving_persisted: the sources of the last start
  enabled,    \* wardriving_persisted.enabled
  requests,   \* manual scans asked for so far
  answers     \* history: what was sent in answer to manual scans

vars == <<mode, link, disc, reconnect, wifi, ble, radio, chain, want, enabled, requests,
          answers>>

NoScan == -1
WardrivingScan == 0

WifiIdle ==
  [busy |-> FALSE,        \* wifi_scan_in_progress
   manual |-> TRUE,       \* wifi_scan_active_source
   active |-> FALSE,      \* wardriving_wifi_active
   interval |-> FALSE,    \* wardriving_wifi_interval_co is armed
   done |-> FALSE,        \* wifi_scan_done_co is armed
   selected |-> NoScan,   \* the scan whose results are in wifi_scan_selected
   request |-> 0,         \* wifi_scan_request_id
   live |-> FALSE]        \* history: the connection that asked is still there

BleIdle ==
  [busy |-> FALSE,        \* ble_scan_in_progress
   manual |-> TRUE,       \* ble_scan_active_source
   active |-> FALSE,      \* wardriving_ble_active
   interval |-> FALSE,    \* wardriving_ble_interval_co is armed
   window |-> FALSE,      \* ble_scan_done_co is armed
   request |-> 0,         \* ble_scan_request_id
   live |-> FALSE]        \* history: the connection that asked is still there

RadioIdle == [scan |-> NoScan, events |-> << >>]
NoChain == [wifi |-> 0, ble |-> 0]

\* app_main: whether a pairing secret is stored decides the mode.
BootModes == {"runtime", "open"}

Init ==
  /\ mode \in BootModes
  /\ link = "none"
  /\ disc = TRUE
  /\ reconnect = FALSE
  /\ wifi = WifiIdle
  /\ ble = BleIdle
  /\ radio = RadioIdle
  /\ chain = NoChain
  /\ want = [wifi |-> TRUE, ble |-> TRUE]
  /\ enabled = FALSE
  /\ requests = 0
  /\ answers = {}

Running == wifi.active \/ ble.active
ManualPending == (wifi.busy /\ wifi.manual) \/ (ble.busy /\ ble.manual)

-----------------------------------------------------------------------------
(* What handlers share.                                                     *)

\* esp_wifi_scan_start and esp_wifi_scan_stop.
Scanning(r, scan) == [r EXCEPT !.scan = scan]
Halted(r) ==
  IF r.scan = NoScan THEN r ELSE [scan |-> NoScan, events |-> Append(r.events, r.scan)]

\* start_scan: what discovery may be behind it, with the link l, in mode m, from d.
StartScan(l, m, d) ==
  IF l # "none" \/ ble.active \/ m = "closed" THEN {d}
  ELSE IF "disc_error" \in Races THEN {d, TRUE} ELSE {TRUE}

\* Mutant: the source is not given back.
StoppedHalf(s) == [s EXCEPT !.active = FALSE, !.interval = FALSE]

\* wardriving_stop_internal for one source.
Stopped(s) ==
  IF s.active THEN [s EXCEPT !.active = FALSE, !.busy = FALSE, !.interval = FALSE] ELSE s

\* wardriving_stop_internal, from the state w, b, d a handler left behind.
StopInternal(w, b, d) ==
  /\ b.active /\ link \in {"none", "connecting"} => "stop_while_down" \in Races
  /\ Len(radio.events) < MaxEvents
  /\ wifi' = Stopped(w)
  /\ ble' = Stopped(b)
  /\ radio' = IF w.active THEN Halted(radio) ELSE radio
  /\ disc' = (d /\ ~ b.active)

\* Both of the sources asked for come up, or none.
WifiComesUp(wifiOk, bleOk) == wifiOk /\ bleOk

\* wardriving_start_internal with sources s: does it start?
MayStart(s) == ~ Running /\ ~ (s.wifi /\ wifi.busy) /\ ~ (s.ble /\ ble.busy)

\* wardriving_start_internal with sources s; wifiOk and bleOk: the scan of the source, if
\* asked for, could be started.  From discovery d with link l.
StartInternal(s, wifiOk, bleOk, l, d) ==
  LET up == WifiComesUp(wifiOk, ~ s.ble \/ bleOk)
      reached == ~ s.wifi \/ wifiOk
  IN /\ s.wifi /\ wifiOk => radio.scan = NoScan
     /\ s.ble /\ bleOk => l # "connecting"
     /\ Len(radio.events) < MaxEvents
     /\ wifi' = IF s.wifi
                THEN [wifi EXCEPT !.manual = FALSE, !.busy = up, !.active = up] ELSE wifi
     /\ radio' = IF ~ s.wifi \/ ~ wifiOk THEN radio
                 ELSE IF up THEN Scanning(radio, WardrivingScan)
                 ELSE Halted(Scanning(radio, WardrivingScan))
     /\ ble' = IF s.ble /\ reached
               THEN [ble EXCEPT !.manual = FALSE, !.busy = bleOk, !.active = bleOk,
                                !.window = @ \/ bleOk]
               ELSE ble
     /\ disc' = (d \/ (s.ble /\ reached /\ bleOk))

Starts(s, wifiOk, bleOk) == (s.wifi => wifiOk) /\ (s.ble => bleOk)

-----------------------------------------------------------------------------
(* The link and the search for the Flipper.                                 *)

\* Mutant: a failed connection attempt is not retried.
NoRetry == reconnect

\* schedule_reconnect.
ScheduleReconnect == reconnect \/ mode # "closed"

\* BLE_GAP_EVENT_DISC with a matching advertisement: connect, or try again later.
FindPeer ==
  /\ disc /\ link = "none"
  /\ disc' = FALSE
  /\ IF mode = "closed" THEN UNCHANGED <<link, reconnect>>
     ELSE \/ link' = "connecting" /\ UNCHANGED reconnect
          \/ reconnect' = ScheduleReconnect /\ UNCHANGED link
  /\ UNCHANGED <<mode, wifi, ble, radio, chain, want, enabled, requests, answers>>

ConnectFails ==
  /\ link = "connecting"
  /\ link' = "none"
  /\ reconnect' = ScheduleReconnect
  /\ UNCHANGED <<mode, disc, wifi, ble, radio, chain, want, enabled, requests, answers>>

Connect ==
  /\ link = "connecting"
  /\ link' = "up"
  /\ chain' = NoChain
  /\ UNCHANGED <<mode, disc, reconnect, wifi, ble, radio, want, enabled, requests, answers>>

Authenticate ==
  /\ link = "up" /\ mode = "runtime"
  /\ ManualPending => "fast_reconnect" \in Races
  /\ link' = "auth"
  /\ UNCHANGED <<mode, disc, reconnect, wifi, ble, radio, chain, want, enabled, requests,
                 answers>>

\* The mode a disconnect leaves behind: a connection uses up the pairing window, and a
\* Flipper that does not know the board opens it.
ModeAfter(reason) ==
  IF mode # "runtime" THEN "closed"
  ELSE IF reason = "unknown_board" THEN "open" ELSE "runtime"

\* How the search for the Flipper goes on.
SearchAfter(reason) ==
  IF mode # "runtime" THEN "none" ELSE IF reason = "auth_failed" THEN "backoff" ELSE "scan"

\* The scans the lost connection asked for lose their client.
Dropped(s) == [s EXCEPT !.live = FALSE]

Disconnect ==
  /\ link \in {"up", "auth"}
  /\ ble.window /\ ~ ble.active => "drop_in_window" \in Races
  /\ chain # NoChain => "drop_mid_chain" \in Races
  /\ Len(radio.events) < MaxEvents
  /\ \E reason \in {"normal", "unknown_board", "auth_failed"} :
       LET d == disc /\ ~ (ble.busy /\ ble.manual)
           search == SearchAfter(reason)
       IN /\ reason # "normal" => link = "up" /\ mode = "runtime"
          /\ mode' = ModeAfter(reason)
          /\ disc' \in IF search = "scan" THEN StartScan("none", ModeAfter(reason), d)
                                          ELSE {d}
          /\ reconnect' = (reconnect \/ search = "backoff")
  /\ link' = "none"
  /\ chain' = NoChain
  /\ radio' = IF wifi.busy /\ wifi.manual THEN Halted(radio) ELSE radio
  /\ wifi' = Dropped(wifi)
  /\ ble' = Dropped(ble)
  /\ UNCHANGED <<want, enabled, requests, answers>>

\* reconnect_timer_cb.
ReconnectTimer ==
  /\ reconnect
  /\ reconnect' = FALSE
  /\ disc' \in StartScan(link, mode, disc)
  /\ UNCHANGED <<mode, link, wifi, ble, radio, chain, want, enabled, requests, answers>>

\* BLE_GAP_EVENT_DISC_COMPLETE: NimBLE gave the discovery up on its own.
DiscComplete ==
  /\ disc
  /\ disc' \in IF reconnect THEN {FALSE} ELSE StartScan(link, mode, FALSE)
  /\ UNCHANGED <<mode, link, reconnect, wifi, ble, radio, chain, want, enabled, requests,
                 answers>>

\* pairing_window_is_open: the window ends by the clock.
WindowExpires ==
  /\ mode = "open"
  /\ mode' = "closed"
  /\ UNCHANGED <<link, disc, reconnect, wifi, ble, radio, chain, want, enabled, requests,
                 answers>>

-----------------------------------------------------------------------------
(* Manual scans.                                                            *)

\* Mutant: a scan waits only for other manual scans.
WifiFreeForManual == ~ (wifi.busy /\ wifi.manual)

WifiFree == ~ wifi.busy

\* The race of a request with the SCAN_DONE of a stopped scan.
DoneIsPending == radio.events # << >> \/ wifi.done

\* handle_wifi_scan_command, when the driver takes the scan.
WifiScanCommand ==
  /\ link = "auth" /\ WifiFree
  /\ DoneIsPending => "stale_scan_done" \in Races
  /\ requests < MaxRequests
  /\ radio.scan = NoScan
  /\ requests' = requests + 1
  /\ radio' = Scanning(radio, requests + 1)
  /\ wifi' = [wifi EXCEPT !.busy = TRUE, !.manual = TRUE, !.request = requests + 1,
                          !.live = TRUE]
  /\ UNCHANGED <<mode, link, disc, reconnect, ble, chain, want, enabled, answers>>

\* The driver refuses the scan: the source is marked manual all the same.
WifiScanRefused ==
  /\ link = "auth" /\ WifiFree
  /\ DoneIsPending => "stale_scan_done" \in Races
  /\ requests < MaxRequests
  /\ requests' = requests + 1
  /\ wifi' = [wifi EXCEPT !.manual = TRUE, !.request = requests + 1, !.live = TRUE]
  /\ UNCHANGED <<mode, link, disc, reconnect, ble, radio, chain, want, enabled, answers>>

\* Mutant: a scan waits only for other manual scans.
BleFreeForManual == ~ (ble.busy /\ ble.manual)

BleFree == ~ ble.busy

\* handle_ble_scan_command, when discovery runs.
BleScanCommand ==
  /\ link = "auth" /\ BleFree
  /\ requests < MaxRequests
  /\ requests' = requests + 1
  /\ disc' = TRUE
  /\ ble' = [ble EXCEPT !.busy = TRUE, !.manual = TRUE, !.window = TRUE,
                        !.request = requests + 1, !.live = TRUE]
  /\ UNCHANGED <<mode, link, reconnect, wifi, radio, chain, want, enabled, answers>>

\* ble_gap_disc fails: the flag is taken back, the source and the request stay overwritten.
BleScanRefused ==
  /\ link = "auth" /\ BleFree
  /\ ble.window => "stale_scan_done" \in Races
  /\ requests < MaxRequests
  /\ requests' = requests + 1
  /\ ble' = [ble EXCEPT !.manual = TRUE, !.request = requests + 1, !.live = TRUE]
  /\ UNCHANGED <<mode, link, disc, reconnect, wifi, radio, chain, want, enabled, answers>>

\* The driver is done with the scan it runs.
RadioDone ==
  /\ radio.scan # NoScan
  /\ Len(radio.events) < MaxEvents
  /\ radio' = Halted(radio)
  /\ UNCHANGED <<mode, link, disc, reconnect, wifi, ble, chain, want, enabled, requests,
                 answers>>

\* wifi_scan_done_handler, on the event task: it selects results for a manual scan, and
\* hands over to the host task.
WifiScanDoneHandler ==
  /\ radio.events # << >>
  /\ radio' = [radio EXCEPT !.events = Tail(@)]
  /\ wifi' = [wifi EXCEPT !.done = TRUE,
                          !.selected = IF wifi.manual THEN Head(radio.events) ELSE @]
  /\ UNCHANGED <<mode, link, disc, reconnect, ble, chain, want, enabled, requests, answers>>

\* Mutant: only the connection is tested.
ClientConnected == link \in {"up", "auth"}

\* Is there a client to send results to?
ClientThere == link = "auth"

Answer(scan, request, live) == [scan |-> scan, request |-> request, live |-> live]

\* Does the source stay claimed behind a batch?
BusyAfter(outcome) == outcome = "partial"

\* A batch of results: more to come, the last one, or one that could not be sent.
Outcomes == {"partial", "complete", "failed"}
Sent(outcome, a) == IF outcome = "failed" THEN answers ELSE answers \cup {a}

\* wifi_scan_send_next_batch, from w with c continuations pending.
WifiSendNextBatch(w, c) ==
  \E outcome \in Outcomes :
    /\ wifi' = [w EXCEPT !.busy = @ /\ BusyAfter(outcome)]
    /\ chain' = [chain EXCEPT !.wifi = IF outcome = "partial" THEN c + 1 ELSE c]
    /\ answers' = Sent(outcome, Answer(w.selected, w.request, w.live))

\* ble_scan_send_next_batch.
BleSendNextBatch(b, c) ==
  \E outcome \in Outcomes :
    /\ ble' = [b EXCEPT !.busy = @ /\ BusyAfter(outcome)]
    /\ chain' = [chain EXCEPT !.ble = IF outcome = "partial" THEN c + 1 ELSE c]
    /\ answers' = Sent(outcome, Answer(b.request, b.request, b.live))

\* write_complete with TX_DONE_CONTINUE_WIFI_SCAN, TX_DONE_CONTINUE_BLE_SCAN.
ContinueWifi ==
  /\ link = "auth" /\ chain.wifi > 0
  /\ WifiSendNextBatch(wifi, chain.wifi - 1)
  /\ UNCHANGED <<mode, link, disc, reconnect, ble, radio, want, enabled, requests>>

ContinueBle ==
  /\ link = "auth" /\ chain.ble > 0
  /\ BleSendNextBatch(ble, chain.ble - 1)
  /\ UNCHANGED <<mode, link, disc, reconnect, wifi, radio, want, enabled, requests>>

\* Mutant: the Wi-Fi pass is not followed by another.
NotArmed(s) == s

\* The source's next pass is scheduled.
Armed(s) == [s EXCEPT !.interval = TRUE]

\* wifi_scan_done_cb behind a manual scan: the results are discarded when the client is gone.
WifiScanDoneManual ==
  /\ wifi.done /\ wifi.manual
  /\ LET w == [wifi EXCEPT !.done = FALSE]
     IN IF ClientThere THEN WifiSendNextBatch(w, chain.wifi)
        ELSE /\ wifi' = [w EXCEPT !.busy = FALSE]
             /\ UNCHANGED <<chain, answers>>
  /\ UNCHANGED <<mode, link, disc, reconnect, ble, radio, want, enabled, requests>>

\* wifi_scan_done_cb behind a wardriving pass; the flash log may have failed too often.
WifiScanDoneWardriving ==
  /\ wifi.done /\ ~ wifi.manual
  /\ LET w == [wifi EXCEPT !.done = FALSE]
     IN \/ /\ wifi' = IF w.active THEN Armed(w) ELSE w
           /\ UNCHANGED <<ble, radio, disc>>
        \/ StopInternal(w, ble, disc)
  /\ UNCHANGED <<mode, link, reconnect, chain, want, enabled, requests, answers>>

\* ble_scan_window_close_cb behind a manual scan.
WindowCloseManual ==
  /\ ble.window /\ ble.manual
  /\ disc' = FALSE
  /\ LET b == [ble EXCEPT !.window = FALSE]
     IN IF ClientThere THEN BleSendNextBatch(b, chain.ble)
        ELSE /\ ble' = [b EXCEPT !.busy = FALSE]
             /\ UNCHANGED <<chain, answers>>
  /\ UNCHANGED <<mode, link, reconnect, wifi, radio, want, enabled, requests>>

\* ble_scan_window_close_cb behind a wardriving window.
WindowCloseWardriving ==
  /\ ble.window /\ ~ ble.manual
  /\ LET b == [ble EXCEPT !.window = FALSE]
     IN \/ /\ ble' = IF b.active THEN Armed(b) ELSE b
           /\ disc' = FALSE
           /\ UNCHANGED <<wifi, radio>>
        \/ StopInternal(wifi, b, FALSE)
  /\ UNCHANGED <<mode, link, reconnect, chain, want, enabled, requests, answers>>

-----------------------------------------------------------------------------
(* Wardriving.                                                              *)

\* wardriving_wifi_interval_cb: the next pass, or the end when the driver refuses.
WifiInterval ==
  /\ wifi.interval
  /\ LET w == [wifi EXCEPT !.interval = FALSE]
     IN \/ /\ radio.scan = NoScan
           /\ wifi' = w
           /\ radio' = Scanning(radio, WardrivingScan)
           /\ UNCHANGED <<ble, disc>>
        \/ StopInternal(w, ble, disc)
  /\ UNCHANGED <<mode, link, reconnect, chain, want, enabled, requests, answers>>

\* wardriving_ble_interval_cb: the next window, later while a connection is being set up.
BleInterval ==
  /\ ble.interval
  /\ LET b == [ble EXCEPT !.interval = FALSE]
     IN \/ /\ link = "connecting"
           /\ ble' = Armed(b)
           /\ UNCHANGED <<wifi, radio, disc>>
        \/ /\ link # "connecting"
           /\ ble' = [b EXCEPT !.window = TRUE]
           /\ disc' = TRUE
           /\ UNCHANGED <<wifi, radio>>
        \/ StopInternal(wifi, b, disc)
  /\ UNCHANGED <<mode, link, reconnect, chain, want, enabled, requests, answers>>

\* Sources a start may name; ble_passive alone asks for neither of the two.
Sources == [wifi : BOOLEAN, ble : BOOLEAN]

\* A start with sources s, from the button or a command; it is saved when it succeeds.
Start(s) ==
  /\ MayStart(s)
  /\ \E wifiOk, bleOk \in BOOLEAN :
       /\ StartInternal(s, wifiOk, bleOk, link, disc)
       /\ want' = IF Starts(s, wifiOk, bleOk) THEN s ELSE want
       /\ enabled' = (enabled \/ Starts(s, wifiOk, bleOk))
  /\ UNCHANGED <<mode, link, reconnect, chain, requests, answers>>

\* A stop, from the button or a command; it is saved.
Stop ==
  /\ Running
  /\ StopInternal(wifi, ble, disc)
  /\ enabled' = FALSE
  /\ UNCHANGED <<mode, link, reconnect, chain, want, requests, answers>>

\* handle_wardriving_command.
WardrivingCommand == link = "auth" /\ (Stop \/ \E s \in Sources : Start(s))

\* wardriving_button_toggle_cb, one press.
ButtonToggle == IF Running THEN Stop ELSE Start(want)

-----------------------------------------------------------------------------

\* The board restarts with its saved settings: host_synced starts wardriving again, and then
\* the search for the Flipper.
Restart ==
  /\ mode' \in BootModes
  /\ link' = "none"
  /\ reconnect' = FALSE
  /\ chain' = NoChain
  /\ requests' = requests
  /\ \E wifiOk, bleOk \in BOOLEAN :
       LET s == IF enabled THEN want ELSE [wifi |-> FALSE, ble |-> FALSE]
           up == Starts(s, wifiOk, bleOk)
       IN /\ wifi' = [WifiIdle EXCEPT !.manual = ~ s.wifi, !.busy = s.wifi /\ up,
                                      !.active = s.wifi /\ up]
          /\ ble' = [BleIdle EXCEPT !.manual = ~ (s.ble /\ (s.wifi => wifiOk)),
                                    !.busy = s.ble /\ up, !.active = s.ble /\ up,
                                    !.window = s.ble /\ up]
          /\ radio' = IF ~ s.wifi \/ ~ wifiOk THEN RadioIdle
                      ELSE IF up THEN Scanning(RadioIdle, WardrivingScan)
                      ELSE Halted(Scanning(RadioIdle, WardrivingScan))
  /\ disc' \in IF "disc_error" \in Races /\ ~ ble'.active THEN BOOLEAN ELSE {TRUE}
  /\ UNCHANGED <<want, enabled, answers>>

Next ==
  \/ FindPeer \/ ConnectFails \/ Connect \/ Authenticate \/ Disconnect
  \/ ReconnectTimer \/ DiscComplete \/ WindowExpires
  \/ WifiScanCommand \/ WifiScanRefused \/ BleScanCommand \/ BleScanRefused
  \/ RadioDone \/ WifiScanDoneHandler
  \/ WifiScanDoneManual \/ WifiScanDoneWardriving
  \/ WindowCloseManual \/ WindowCloseWardriving
  \/ ContinueWifi \/ ContinueBle
  \/ WifiInterval \/ BleInterval
  \/ WardrivingCommand \/ ButtonToggle
  \/ Restart

Spec == Init /\ [][Next]_vars

-----------------------------------------------------------------------------
(* Properties.                                                              *)

TypeOK ==
  /\ mode \in {"runtime", "open", "closed"}
  /\ link \in {"none", "connecting", "up", "auth"}
  /\ disc \in BOOLEAN /\ reconnect \in BOOLEAN
  /\ wifi \in [busy : BOOLEAN, manual : BOOLEAN, active : BOOLEAN, interval : BOOLEAN,
               done : BOOLEAN, selected : -1 .. MaxRequests, request : 0 .. MaxRequests,
               live : BOOLEAN]
  /\ ble \in [busy : BOOLEAN, manual : BOOLEAN, active : BOOLEAN, interval : BOOLEAN,
              window : BOOLEAN, request : 0 .. MaxRequests, live : BOOLEAN]
  /\ radio \in [scan : -1 .. MaxRequests, events : Seq(0 .. MaxRequests)]
  /\ Len(radio.events) <= MaxEvents
  /\ chain \in [wifi : 0 .. 1, ble : 0 .. 1]
  /\ want \in Sources /\ enabled \in BOOLEAN
  /\ requests \in 0 .. MaxRequests
  /\ answers \subseteq [scan : -1 .. MaxRequests, request : 0 .. MaxRequests, live : BOOLEAN]

\* The board never stops looking for the Flipper: while it may connect and is not connected,
\* a discovery runs, a retry is scheduled, or wardriving's next BLE window is.
KeepsLookingForPeer ==
  link = "none" /\ mode # "closed" =>
    disc \/ reconnect \/ (ble.active /\ (ble.window \/ ble.interval))

\* Wardriving never stalls: a source that is on has a scan, an event or a callout under way
\* that leads to its next pass, through stops and starts, connections and failures.
DutyCycleAlive ==
  /\ wifi.active => radio.scan # NoScan \/ radio.events # << >> \/ wifi.done \/ wifi.interval
  /\ ble.active => ble.window \/ ble.interval

\* A manual scan is locked out of a source as long as wardriving holds it, from its start to
\* its end and not only while a pass is under way.
WardrivingHoldsItsSources ==
  /\ wifi.active => wifi.busy /\ ~ wifi.manual
  /\ ble.active => ble.busy /\ ~ ble.manual

\* "Start is atomic": wardriving runs on all of the sources of the last start, or on none.
AllSourcesOrNone == Running => wifi.active = want.wifi /\ ble.active = want.ble

\* A claimed source is given back: wardriving's claim ends with wardriving, and for the claim
\* of a manual scan something is under way that will end it.
BusyIsReleased ==
  /\ wifi.busy /\ ~ wifi.manual => wifi.active
  /\ ble.busy /\ ~ ble.manual => ble.active
  /\ wifi.busy /\ wifi.manual =>
       radio.scan # NoScan \/ radio.events # << >> \/ wifi.done \/ chain.wifi > 0
  /\ ble.busy /\ ble.manual => ble.window \/ chain.ble > 0

\* A Wi-Fi scan is answered with the results of the scan that was started for it.
AnswersOwnScan == \A a \in answers : a.scan = a.request

\* Results go only to the connection that asked for them.
AnswersLiveRequest == \A a \in answers : a.live

\* Wardriving has all of the sources it was started on, each for itself alone, or none, behind
\* failed starts, losses of the link and restarts (wardriving_start_internal).
WardrivingIsWhole == TypeOK /\ AllSourcesOrNone /\ WardrivingHoldsItsSources
=============================================================================
