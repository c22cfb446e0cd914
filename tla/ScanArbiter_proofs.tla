------------------------- MODULE ScanArbiter_proofs -------------------------
(***************************************************************************)
(* For any number of requests and pending events: the arbitration of the   *)
(* radios keeps its promises as long as the timings in Races that break    *)
(* them do not occur.  Each theorem names, as its assumption, the timings  *)
(* that have to stay away; all others may occur.                           *)
(*                                                                         *)
(* The first part is about who holds the radios and lets go of them; the   *)
(* second about whose scan a client is answered with, who gets the answer, *)
(* and that the search for the Flipper goes on.                            *)
(***************************************************************************)
EXTENDS ScanArbiter, TLAPS

-----------------------------------------------------------------------------
(* The inductive invariant: who may claim a source, and where its results   *)
(* can be.                                                                  *)

\* Wardriving is active exactly while it has the claim, only an active source waits for its
\* next pass, and the driver scans only for a claim.
WifiClaim ==
  /\ wifi.active <=> wifi.busy /\ ~ wifi.manual
  /\ wifi.interval => wifi.active
  /\ radio.scan # NoScan => wifi.busy

\* A manual scan is in one place at a time: in the driver, in an event, on its way to the
\* host task, or in the pipeline.
WifiOnePlace ==
  /\ wifi.manual /\ radio.scan # NoScan => radio.events = << >> /\ ~ wifi.done
  /\ wifi.manual /\ radio.events # << >> => Len(radio.events) = 1 /\ ~ wifi.done
  /\ wifi.manual /\ (radio.events # << >> \/ wifi.done) => wifi.busy
  /\ chain.wifi > 0 => /\ wifi.busy /\ wifi.manual /\ ~ wifi.done
                       /\ radio.scan = NoScan /\ radio.events = << >>

\* The same of the BLE source, whose results stay with the host task.
BleClaim ==
  /\ ble.active <=> ble.busy /\ ~ ble.manual
  /\ ble.interval => ble.active
  /\ ble.manual /\ ble.window => ble.busy
  /\ chain.ble > 0 => ble.busy /\ ble.manual /\ ~ ble.window

ArbiterInv ==
  /\ TypeOK
  /\ WifiClaim
  /\ WifiOnePlace
  /\ BleClaim
  /\ DutyCycleAlive
  /\ AllSourcesOrNone

-----------------------------------------------------------------------------
(* What the shared operations do to the flags.                              *)

WifiState ==
  [busy : BOOLEAN, manual : BOOLEAN, active : BOOLEAN, interval : BOOLEAN, done : BOOLEAN,
   selected : -1 .. MaxRequests, request : 0 .. MaxRequests, live : BOOLEAN]
BleState ==
  [busy : BOOLEAN, manual : BOOLEAN, active : BOOLEAN, interval : BOOLEAN, window : BOOLEAN,
   request : 0 .. MaxRequests, live : BOOLEAN]
RadioState == [scan : -1 .. MaxRequests, events : Seq(0 .. MaxRequests)]
Answers == SUBSET [scan : -1 .. MaxRequests, request : 0 .. MaxRequests, live : BOOLEAN]

\* start_scan leaves discovery on or off, whatever it starts from.
LEMMA StartScanType ==
  ASSUME NEW l, NEW m, NEW d \in BOOLEAN
  PROVE  StartScan(l, m, d) \subseteq BOOLEAN
BY DEF StartScan

\* A halted driver runs nothing; a scan it ran becomes an event.
LEMMA HaltedOK ==
  ASSUME NEW r \in RadioState
  PROVE  /\ Halted(r) \in RadioState
         /\ Halted(r).scan = NoScan
         /\ r.scan = NoScan => Halted(r) = r
         /\ r.scan # NoScan => Halted(r).events = Append(r.events, r.scan)
         /\ Len(Halted(r).events) <= Len(r.events) + 1
BY ScanAssumption DEF Halted, RadioState, NoScan

\* A batch touches the claim and the pipeline; the claim stays exactly when another batch
\* follows.
LEMMA WifiBatchOK ==
  ASSUME NEW w \in WifiState, WifiSendNextBatch(w, 0),
         chain \in [wifi : 0 .. 1, ble : 0 .. 1], answers \in Answers
  PROVE  /\ \E busy \in BOOLEAN : wifi' = [w EXCEPT !.busy = busy] /\ (busy => w.busy)
         /\ chain' \in [wifi : 0 .. 1, ble : 0 .. 1] /\ chain'.ble = chain.ble
         /\ chain'.wifi > 0 => wifi'.busy = w.busy
         /\ answers' \in {answers, answers \cup {Answer(w.selected, w.request, w.live)}}
         /\ answers' \in Answers
<1>1. PICK outcome \in Outcomes :
        /\ wifi' = [w EXCEPT !.busy = @ /\ BusyAfter(outcome)]
        /\ chain' = [chain EXCEPT !.wifi = IF outcome = "partial" THEN 0 + 1 ELSE 0]
        /\ answers' = Sent(outcome, Answer(w.selected, w.request, w.live))
  BY DEF WifiSendNextBatch
<1>2. Answer(w.selected, w.request, w.live) \in
        [scan : -1 .. MaxRequests, request : 0 .. MaxRequests, live : BOOLEAN]
  BY DEF Answer, WifiState
<1>3. CASE outcome = "partial"
  BY <1>1, <1>2, <1>3 DEF BusyAfter, Sent, WifiState, Answers
<1>4. CASE outcome # "partial"
  <2>1. wifi' = [w EXCEPT !.busy = FALSE] /\ chain' = [chain EXCEPT !.wifi = 0]
    BY <1>1, <1>4 DEF BusyAfter, WifiState
  <2>2. /\ answers' \in {answers, answers \cup {Answer(w.selected, w.request, w.live)}}
        /\ answers' \in Answers
    BY <1>1, <1>2 DEF Sent, Answers
  <2>3. \E busy \in BOOLEAN : wifi' = [w EXCEPT !.busy = busy] /\ (busy => w.busy)
    <3> WITNESS FALSE \in BOOLEAN
    <3> QED BY <2>1
  <2>4. chain' \in [wifi : 0 .. 1, ble : 0 .. 1] /\ chain'.ble = chain.ble /\ chain'.wifi = 0
    BY <2>1
  <2> QED BY <2>2, <2>3, <2>4
<1> QED BY <1>3, <1>4

\* The same of a batch of BLE results.
LEMMA BleBatchOK ==
  ASSUME NEW b \in BleState, BleSendNextBatch(b, 0),
         chain \in [wifi : 0 .. 1, ble : 0 .. 1], answers \in Answers
  PROVE  /\ \E busy \in BOOLEAN : ble' = [b EXCEPT !.busy = busy] /\ (busy => b.busy)
         /\ chain' \in [wifi : 0 .. 1, ble : 0 .. 1] /\ chain'.wifi = chain.wifi
         /\ chain'.ble > 0 => ble'.busy = b.busy
         /\ answers' \in {answers, answers \cup {Answer(b.request, b.request, b.live)}}
         /\ answers' \in Answers
<1>1. PICK outcome \in Outcomes :
        /\ ble' = [b EXCEPT !.busy = @ /\ BusyAfter(outcome)]
        /\ chain' = [chain EXCEPT !.ble = IF outcome = "partial" THEN 0 + 1 ELSE 0]
        /\ answers' = Sent(outcome, Answer(b.request, b.request, b.live))
  BY DEF BleSendNextBatch
<1>2. Answer(b.request, b.request, b.live) \in
        [scan : -1 .. MaxRequests, request : 0 .. MaxRequests, live : BOOLEAN]
  BY ScanAssumption DEF Answer, BleState
<1>3. CASE outcome = "partial"
  BY <1>1, <1>2, <1>3 DEF BusyAfter, Sent, BleState, Answers
<1>4. CASE outcome # "partial"
  <2>1. ble' = [b EXCEPT !.busy = FALSE] /\ chain' = [chain EXCEPT !.ble = 0]
    BY <1>1, <1>4 DEF BusyAfter, BleState
  <2>2. /\ answers' \in {answers, answers \cup {Answer(b.request, b.request, b.live)}}
        /\ answers' \in Answers
    BY <1>1, <1>2 DEF Sent, Answers
  <2>3. \E busy \in BOOLEAN : ble' = [b EXCEPT !.busy = busy] /\ (busy => b.busy)
    <3> WITNESS FALSE \in BOOLEAN
    <3> QED BY <2>1
  <2>4. chain' \in [wifi : 0 .. 1, ble : 0 .. 1] /\ chain'.wifi = chain.wifi /\ chain'.ble = 0
    BY <2>1
  <2> QED BY <2>2, <2>3, <2>4
<1> QED BY <1>3, <1>4

\* The parts of TypeOK that steps change one at a time.
LEMMA TypeParts ==
  TypeOK <=> /\ mode \in {"runtime", "open", "closed"}
             /\ link \in {"none", "connecting", "up", "auth"}
             /\ disc \in BOOLEAN /\ reconnect \in BOOLEAN
             /\ wifi \in WifiState /\ ble \in BleState
             /\ radio \in RadioState /\ Len(radio.events) <= MaxEvents
             /\ chain \in [wifi : 0 .. 1, ble : 0 .. 1]
             /\ want \in Sources /\ enabled \in BOOLEAN
             /\ requests \in 0 .. MaxRequests
             /\ answers \in Answers
BY DEF TypeOK, WifiState, BleState, RadioState, Answers

\* Stopping wardriving from a state in which at most callouts were taken away leaves both
\* sources unclaimed by it, and manual scans as they were.
LEMMA StopInternalOK ==
  ASSUME ArbiterInv,
         NEW w \in WifiState, NEW b \in BleState, NEW d \in BOOLEAN,
         w.active = wifi.active, w.busy = wifi.busy, w.manual = wifi.manual,
         w.interval => wifi.interval, w.done => wifi.done,
         b.active = ble.active, b.busy = ble.busy, b.manual = ble.manual,
         b.interval => ble.interval, b.window => ble.window,
         StopInternal(w, b, d), chain' = chain
  PROVE  /\ wifi' \in WifiState /\ ble' \in BleState /\ disc' \in BOOLEAN
         /\ radio' \in RadioState /\ Len(radio'.events) <= MaxEvents
         /\ WifiClaim' /\ WifiOnePlace' /\ BleClaim' /\ DutyCycleAlive' /\ AllSourcesOrNone'
<1> USE TypeParts DEF ArbiterInv
<1>1. /\ wifi' = Stopped(w) /\ ble' = Stopped(b)
      /\ radio' = IF w.active THEN Halted(radio) ELSE radio
      /\ disc' = (d /\ ~ b.active)
      /\ Len(radio.events) < MaxEvents
  BY DEF StopInternal
<1>2. /\ wifi' \in WifiState /\ ~ wifi'.active /\ ~ wifi'.interval
      /\ wifi'.manual = w.manual /\ wifi'.done = w.done
      /\ wifi'.busy <=> w.busy /\ ~ w.active
  BY <1>1 DEF Stopped, WifiState, WifiClaim
<1>3. /\ ble' \in BleState /\ ~ ble'.active /\ ~ ble'.interval
      /\ ble'.manual = b.manual /\ ble'.window = b.window
      /\ ble'.busy <=> b.busy /\ ~ b.active
  BY <1>1 DEF Stopped, BleState, BleClaim
<1>4. radio' \in RadioState /\ Len(radio'.events) <= MaxEvents
  BY <1>1, HaltedOK, ScanAssumption DEF RadioState
<1>5. w.active => radio'.scan = NoScan
  BY <1>1, HaltedOK
<1>6. ~ w.active => radio' = radio
  BY <1>1
<1>7. WifiClaim' /\ WifiOnePlace'
  BY <1>2, <1>5, <1>6 DEF WifiClaim, WifiOnePlace
<1>8. BleClaim'
  BY <1>3 DEF BleClaim
<1> QED BY <1>1, <1>2, <1>3, <1>4, <1>7, <1>8 DEF DutyCycleAlive, AllSourcesOrNone, Running

\* Starting wardriving claims all of the sources asked for, or none.
LEMMA StartOK ==
  ASSUME ArbiterInv, NEW s \in Sources, Start(s)
  PROVE  ArbiterInv'
<1> USE TypeParts DEF ArbiterInv
<1>1. PICK wifiOk \in BOOLEAN, bleOk \in BOOLEAN :
        /\ StartInternal(s, wifiOk, bleOk, link, disc)
        /\ want' = IF Starts(s, wifiOk, bleOk) THEN s ELSE want
        /\ enabled' = (enabled \/ Starts(s, wifiOk, bleOk))
  BY DEF Start
<1>2. /\ MayStart(s)
      /\ UNCHANGED <<mode, link, reconnect, chain, requests, answers>>
  BY DEF Start
<1>3. ~ wifi.active /\ ~ ble.active /\ (s.wifi => ~ wifi.busy) /\ (s.ble => ~ ble.busy)
  BY <1>2 DEF MayStart, Running
<1> DEFINE up == wifiOk /\ (~ s.ble \/ bleOk)
           reached == ~ s.wifi \/ wifiOk
<1>4. s.wifi \in BOOLEAN /\ s.ble \in BOOLEAN
  BY DEF Sources
<1>5. /\ wifi' \in WifiState /\ wifi'.done = wifi.done /\ wifi'.interval = wifi.interval
      /\ s.wifi => ~ wifi'.manual /\ wifi'.busy = up /\ wifi'.active = up
      /\ ~ s.wifi => wifi' = wifi
  BY <1>1, <1>4 DEF StartInternal, WifiComesUp, WifiState
<1>6. /\ ble' \in BleState /\ ble'.interval = ble.interval
      /\ s.ble /\ reached => ~ ble'.manual /\ ble'.busy = bleOk /\ ble'.active = bleOk
      /\ s.ble /\ reached /\ bleOk => ble'.window
      /\ ~ (s.ble /\ reached) => ble' = ble
  BY <1>1, <1>4 DEF StartInternal, BleState
<1>7. /\ radio' \in RadioState /\ Len(radio'.events) <= MaxEvents
      /\ ~ s.wifi => radio' = radio
      /\ s.wifi /\ up => radio'.scan # NoScan
      /\ s.wifi /\ ~ up => radio'.scan = NoScan
  <2>1. Len(radio.events) < MaxEvents /\ (s.wifi /\ wifiOk => radio.scan = NoScan)
    BY <1>1 DEF StartInternal
  <2>2. /\ Scanning(radio, WardrivingScan) \in RadioState
        /\ Scanning(radio, WardrivingScan).events = radio.events
        /\ Scanning(radio, WardrivingScan).scan = WardrivingScan
    BY ScanAssumption DEF Scanning, RadioState, WardrivingScan
  <2>3. radio' = IF ~ s.wifi \/ ~ wifiOk THEN radio
                 ELSE IF up THEN Scanning(radio, WardrivingScan)
                 ELSE Halted(Scanning(radio, WardrivingScan))
    BY <1>1, <1>4 DEF StartInternal, WifiComesUp
  <2>4. s.wifi => radio.scan = NoScan
    BY <1>3 DEF WifiClaim
  <2>5. Len(radio.events) \in Nat /\ MaxEvents \in Nat
    BY ScanAssumption DEF RadioState
  <2> QED BY <1>4, <2>1, <2>2, <2>3, <2>4, <2>5, HaltedOK DEF NoScan, WardrivingScan
<1>8. disc' \in BOOLEAN /\ enabled' \in BOOLEAN /\ want' \in Sources
  BY <1>1, <1>4 DEF StartInternal, Starts
<1>9. TypeOK'
  BY <1>2, <1>5, <1>6, <1>7, <1>8 DEF TypeOK, WifiState, BleState, RadioState, Answers
<1>10. WifiClaim' /\ WifiOnePlace'
  BY <1>2, <1>3, <1>4, <1>5, <1>7 DEF WifiClaim, WifiOnePlace
<1>11. BleClaim' /\ DutyCycleAlive'
  BY <1>2, <1>3, <1>4, <1>5, <1>6, <1>7 DEF BleClaim, DutyCycleAlive
<1>12. AllSourcesOrNone'
  <2>1. CASE Starts(s, wifiOk, bleOk)
    <3>0. want' = s
      BY <1>1, <2>1
    <3>1. want' = s /\ (s.wifi => up) /\ reached /\ (s.ble => bleOk)
      BY <1>4, <2>1, <3>0 DEF Starts
    <3>2. wifi.active = FALSE /\ ble.active = FALSE
      BY <1>3 DEF WifiState, BleState
    <3>3. wifi'.active = s.wifi
      BY <1>4, <1>5, <3>1, <3>2
    <3>4. ble'.active = s.ble
      BY <1>4, <1>6, <3>1, <3>2
    <3> QED BY <3>1, <3>3, <3>4 DEF AllSourcesOrNone
  <2>2. CASE ~ Starts(s, wifiOk, bleOk)
    <3>1. (s.wifi /\ ~ wifiOk) \/ (s.ble /\ ~ bleOk)
      BY <1>4, <2>2 DEF Starts
    <3>2. ~ wifi'.active
      BY <1>3, <1>4, <1>5, <3>1
    <3>3. ~ ble'.active
      BY <1>3, <1>4, <1>6, <3>1
    <3> QED BY <3>2, <3>3 DEF AllSourcesOrNone, Running
  <2> QED BY <2>1, <2>2
<1> QED BY <1>9, <1>10, <1>11, <1>12

-----------------------------------------------------------------------------
(* The steps.                                                               *)

\* A step of the link or of the search for the Flipper leaves the claims alone, apart from
\* the disconnect, which stops a manual scan in the driver.
LEMMA LinkStep ==
  ASSUME ArbiterInv,
         \/ FindPeer \/ ConnectFails \/ Connect \/ Authenticate
         \/ ReconnectTimer \/ DiscComplete \/ WindowExpires
  PROVE  ArbiterInv'
<1> USE TypeParts DEF ArbiterInv
<1>1. /\ UNCHANGED <<wifi, ble, radio, want, enabled, requests, answers>>
      /\ chain' \in {chain, NoChain}
  BY DEF FindPeer, ConnectFails, Connect, Authenticate, ReconnectTimer, DiscComplete,
         WindowExpires
<1>2. /\ mode' \in {"runtime", "open", "closed"}
      /\ link' \in {"none", "connecting", "up", "auth"}
      /\ reconnect' \in BOOLEAN
  BY DEF FindPeer, ConnectFails, Connect, Authenticate, ReconnectTimer, DiscComplete,
         WindowExpires, ScheduleReconnect
<1>3. disc' \in BOOLEAN
  BY StartScanType DEF FindPeer, ConnectFails, Connect, Authenticate, ReconnectTimer,
                       DiscComplete, WindowExpires
<1>4. chain' \in [wifi : 0 .. 1, ble : 0 .. 1]
  BY <1>1 DEF NoChain
<1>5. TypeOK'
  BY <1>1, <1>2, <1>3, <1>4 DEF TypeOK
<1> QED BY <1>1, <1>5 DEF WifiClaim, WifiOnePlace, BleClaim, DutyCycleAlive, AllSourcesOrNone,
                          Running, NoChain

\* A lost connection turns a manual scan in the driver into an event, and cuts off the
\* continuation of its results.
LEMMA DisconnectStep ==
  ASSUME ArbiterInv, Disconnect
  PROVE  ArbiterInv'
<1> USE TypeParts DEF ArbiterInv
<1>1. /\ wifi' = Dropped(wifi) /\ ble' = Dropped(ble)
      /\ radio' = IF wifi.busy /\ wifi.manual THEN Halted(radio) ELSE radio
      /\ chain' = NoChain /\ link' = "none"
      /\ Len(radio.events) < MaxEvents
      /\ UNCHANGED <<want, enabled, requests, answers>>
  BY DEF Disconnect
<1>2. /\ wifi' \in WifiState /\ wifi'.busy = wifi.busy /\ wifi'.manual = wifi.manual
      /\ wifi'.active = wifi.active /\ wifi'.interval = wifi.interval
      /\ wifi'.done = wifi.done
  BY <1>1 DEF Dropped, WifiState
<1>3. /\ ble' \in BleState /\ ble'.busy = ble.busy /\ ble'.manual = ble.manual
      /\ ble'.active = ble.active /\ ble'.interval = ble.interval
      /\ ble'.window = ble.window
  BY <1>1 DEF Dropped, BleState
<1>4. /\ radio' \in RadioState /\ Len(radio'.events) <= MaxEvents
      /\ ~ (wifi.busy /\ wifi.manual) => radio' = radio
      /\ wifi.busy /\ wifi.manual =>
           /\ radio'.scan = NoScan
           /\ radio.scan = NoScan => radio' = radio
           /\ radio.scan # NoScan => radio'.events = Append(radio.events, radio.scan)
  BY <1>1, HaltedOK, ScanAssumption DEF RadioState
<1>5. \E reason \in {"normal", "unknown_board", "auth_failed"} :
        /\ mode' = ModeAfter(reason)
        /\ LET d == disc /\ ~ (ble.busy /\ ble.manual)
           IN disc' \in IF SearchAfter(reason) = "scan"
                        THEN StartScan("none", ModeAfter(reason), d) ELSE {d}
        /\ reconnect' = (reconnect \/ SearchAfter(reason) = "backoff")
  BY DEF Disconnect
<1>6. /\ mode' \in {"runtime", "open", "closed"} /\ reconnect' \in BOOLEAN
  BY <1>5 DEF ModeAfter
<1>7. disc' \in BOOLEAN
  BY <1>5, StartScanType
<1>8. chain' \in [wifi : 0 .. 1, ble : 0 .. 1] /\ chain'.wifi = 0 /\ chain'.ble = 0
  BY <1>1 DEF NoChain
<1>9. TypeOK'
  BY <1>1, <1>2, <1>3, <1>4, <1>6, <1>7, <1>8 DEF TypeOK, WifiState, BleState, RadioState
<1>10. WifiClaim' /\ BleClaim' /\ AllSourcesOrNone'
  BY <1>1, <1>2, <1>3, <1>4, <1>8 DEF WifiClaim, BleClaim, AllSourcesOrNone, Running
<1>11. DutyCycleAlive'
  BY <1>1, <1>2, <1>3, <1>4 DEF DutyCycleAlive, WifiClaim
<1>12. WifiOnePlace'
  <2>1. CASE radio' = radio
    BY <1>2, <1>8, <2>1 DEF WifiOnePlace
  <2>2. CASE radio' # radio
    <3>1. wifi.busy /\ wifi.manual /\ radio.scan # NoScan
      BY <1>4, <2>2
    <3>2. radio.events = << >> /\ ~ wifi.done
      BY <3>1 DEF WifiOnePlace
    <3>3. radio'.scan = NoScan /\ Len(radio'.events) = 1
      <4>1. radio'.events = Append(radio.events, radio.scan) /\ radio'.scan = NoScan
        BY <1>4, <3>1
      <4>2. radio.events \in Seq(Int) /\ Len(radio.events) = 0 /\ radio.scan \in Int
        BY <3>2 DEF RadioState
      <4> QED BY <4>1, <4>2
    <3> QED BY <1>2, <1>8, <3>1, <3>2, <3>3 DEF WifiOnePlace
  <2> QED BY <2>1, <2>2
<1> QED BY <1>9, <1>10, <1>11, <1>12

\* A manual scan is started, or refused by the driver.
LEMMA ScanCommandStep ==
  ASSUME ArbiterInv, "stale_scan_done" \notin Races,
         WifiScanCommand \/ WifiScanRefused \/ BleScanCommand \/ BleScanRefused
  PROVE  ArbiterInv'
<1> USE TypeParts, ScanAssumption DEF ArbiterInv
<1>1. CASE WifiScanCommand
  <2>1. /\ wifi' \in WifiState /\ wifi'.busy /\ wifi'.manual
        /\ wifi'.active = wifi.active /\ wifi'.interval = wifi.interval
        /\ wifi'.done = wifi.done
    <3>1. requests + 1 \in 0 .. MaxRequests
      BY <1>1 DEF WifiScanCommand
    <3>2. wifi' = [wifi EXCEPT !.busy = TRUE, !.manual = TRUE, !.request = requests + 1,
                               !.live = TRUE]
      BY <1>1 DEF WifiScanCommand
    <3> QED BY <3>1, <3>2 DEF WifiState
  <2>2. /\ ~ wifi.busy /\ radio.events = << >> /\ ~ wifi.done
        /\ UNCHANGED <<mode, link, disc, reconnect, ble, chain, want, enabled, answers>>
    BY <1>1 DEF WifiScanCommand, WifiFree, DoneIsPending
  <2>3. radio' \in RadioState /\ radio'.events = radio.events /\ radio'.scan # NoScan
    BY <1>1 DEF WifiScanCommand, Scanning, RadioState, NoScan
  <2>4. requests' \in 0 .. MaxRequests
    BY <1>1 DEF WifiScanCommand
  <2>5. TypeOK'
    BY <2>1, <2>2, <2>3, <2>4 DEF TypeOK, WifiState, RadioState
  <2> QED BY <2>1, <2>2, <2>3, <2>5 DEF WifiClaim, WifiOnePlace, BleClaim, DutyCycleAlive,
                                        AllSourcesOrNone, Running
<1>2. CASE WifiScanRefused
  <2>1. /\ wifi' \in WifiState /\ ~ wifi'.busy /\ wifi'.manual
        /\ wifi'.active = wifi.active /\ wifi'.interval = wifi.interval
        /\ wifi'.done = wifi.done
    <3>1. requests + 1 \in 0 .. MaxRequests
      BY <1>2 DEF WifiScanRefused
    <3>2. wifi' = [wifi EXCEPT !.manual = TRUE, !.request = requests + 1, !.live = TRUE]
      BY <1>2 DEF WifiScanRefused
    <3>3. ~ wifi.busy
      BY <1>2 DEF WifiScanRefused, WifiFree
    <3> QED BY <3>1, <3>2, <3>3 DEF WifiState
  <2>2. /\ ~ wifi.busy /\ radio.events = << >> /\ ~ wifi.done
        /\ UNCHANGED <<mode, link, disc, reconnect, ble, radio, chain, want, enabled,
                       answers>>
    BY <1>2 DEF WifiScanRefused, WifiFree, DoneIsPending
  <2>3. requests' \in 0 .. MaxRequests
    BY <1>2 DEF WifiScanRefused
  <2>4. TypeOK'
    BY <2>1, <2>2, <2>3 DEF TypeOK, WifiState
  <2> QED BY <2>1, <2>2, <2>4 DEF WifiClaim, WifiOnePlace, BleClaim, DutyCycleAlive,
                                  AllSourcesOrNone, Running
<1>3. CASE BleScanCommand
  <2>1. /\ ble' \in BleState /\ ble'.busy /\ ble'.manual /\ ble'.window
        /\ ble'.active = ble.active /\ ble'.interval = ble.interval
    <3>1. requests + 1 \in 0 .. MaxRequests
      BY <1>3 DEF BleScanCommand
    <3>2. ble' = [ble EXCEPT !.busy = TRUE, !.manual = TRUE, !.window = TRUE,
                             !.request = requests + 1, !.live = TRUE]
      BY <1>3 DEF BleScanCommand
    <3> QED BY <3>1, <3>2 DEF BleState
  <2>2. /\ ~ ble.busy /\ disc' \in BOOLEAN
        /\ UNCHANGED <<mode, link, reconnect, wifi, radio, chain, want, enabled, answers>>
    BY <1>3 DEF BleScanCommand, BleFree
  <2>3. requests' \in 0 .. MaxRequests
    BY <1>3 DEF BleScanCommand
  <2>4. TypeOK'
    BY <2>1, <2>2, <2>3 DEF TypeOK, BleState
  <2> QED BY <2>1, <2>2, <2>4 DEF WifiClaim, WifiOnePlace, BleClaim, DutyCycleAlive,
                                  AllSourcesOrNone, Running
<1>4. CASE BleScanRefused
  <2>1. /\ ble' \in BleState /\ ~ ble'.busy /\ ble'.manual
        /\ ble'.active = ble.active /\ ble'.interval = ble.interval
        /\ ble'.window = ble.window
    <3>1. requests + 1 \in 0 .. MaxRequests
      BY <1>4 DEF BleScanRefused
    <3>2. ble' = [ble EXCEPT !.manual = TRUE, !.request = requests + 1, !.live = TRUE]
      BY <1>4 DEF BleScanRefused
    <3>3. ~ ble.busy
      BY <1>4 DEF BleScanRefused, BleFree
    <3> QED BY <3>1, <3>2, <3>3 DEF BleState
  <2>2. /\ ~ ble.busy /\ ~ ble.window
        /\ UNCHANGED <<mode, link, disc, reconnect, wifi, radio, chain, want, enabled,
                       answers>>
    BY <1>4 DEF BleScanRefused, BleFree
  <2>3. requests' \in 0 .. MaxRequests
    BY <1>4 DEF BleScanRefused
  <2>4. TypeOK'
    BY <2>1, <2>2, <2>3 DEF TypeOK, BleState
  <2> QED BY <2>1, <2>2, <2>4 DEF WifiClaim, WifiOnePlace, BleClaim, DutyCycleAlive,
                                  AllSourcesOrNone, Running
<1> QED BY <1>1, <1>2, <1>3, <1>4

\* The results of a scan move from the driver to an event and on to the host task.
LEMMA RadioStep ==
  ASSUME ArbiterInv, RadioDone \/ WifiScanDoneHandler
  PROVE  ArbiterInv'
<1> USE TypeParts, ScanAssumption DEF ArbiterInv
<1>1. CASE RadioDone
  <2>1. /\ radio.scan # NoScan /\ Len(radio.events) < MaxEvents /\ radio' = Halted(radio)
        /\ UNCHANGED <<mode, link, disc, reconnect, wifi, ble, chain, want, enabled, requests,
                       answers>>
    BY <1>1 DEF RadioDone
  <2>2. /\ radio' \in RadioState /\ radio'.scan = NoScan
        /\ radio'.events = Append(radio.events, radio.scan)
    BY <2>1, HaltedOK
  <2>3. radio.events \in Seq(Int) /\ radio.scan \in Int
    BY DEF RadioState
  <2>4. Len(radio'.events) = Len(radio.events) + 1 /\ radio'.events # << >>
    <3>1. Len(Append(radio.events, radio.scan)) = Len(radio.events) + 1
      BY <2>3
    <3>2. Len(radio.events) \in Nat
      BY <2>3
    <3>3. Len(radio'.events) = Len(radio.events) + 1
      BY <2>2, <3>1
    <3>4. Len(radio'.events) # 0
      BY <3>2, <3>3
    <3> QED BY <3>3, <3>4
  <2>5. TypeOK'
    BY <2>1, <2>2, <2>3, <2>4 DEF TypeOK, RadioState
  <2>6. wifi.busy /\ chain.wifi = 0
    BY <2>1 DEF WifiClaim, WifiOnePlace
  <2>7. wifi.manual => radio.events = << >> /\ ~ wifi.done
    BY <2>1 DEF WifiOnePlace
  <2>8. WifiOnePlace'
    BY <2>1, <2>2, <2>3, <2>4, <2>6, <2>7 DEF WifiOnePlace
  <2> QED BY <2>1, <2>2, <2>4, <2>5, <2>8 DEF WifiClaim, BleClaim, DutyCycleAlive,
                                              AllSourcesOrNone, Running
<1>2. CASE WifiScanDoneHandler
  <2>1. /\ radio.events # << >>
        /\ UNCHANGED <<mode, link, disc, reconnect, ble, chain, want, enabled, requests,
                       answers>>
    BY <1>2 DEF WifiScanDoneHandler
  <2>2. radio.events \in Seq(Int) /\ Head(radio.events) \in 0 .. MaxRequests
    BY <2>1 DEF RadioState
  <2>3. /\ radio' \in RadioState /\ radio'.scan = radio.scan
        /\ Len(radio'.events) = Len(radio.events) - 1
    <3>1. radio' = [radio EXCEPT !.events = Tail(@)]
      BY <1>2 DEF WifiScanDoneHandler
    <3>2. /\ Tail(radio.events) \in Seq(0 .. MaxRequests)
          /\ Len(Tail(radio.events)) = Len(radio.events) - 1
      BY <2>1 DEF RadioState
    <3> QED BY <3>1, <3>2 DEF RadioState
  <2>4. /\ wifi' \in WifiState /\ wifi'.busy = wifi.busy /\ wifi'.manual = wifi.manual
        /\ wifi'.active = wifi.active /\ wifi'.interval = wifi.interval /\ wifi'.done
    <3>1. CASE wifi.manual
      <4>1. wifi' = [wifi EXCEPT !.done = TRUE, !.selected = Head(radio.events)]
        BY <1>2, <3>1 DEF WifiScanDoneHandler
      <4>2. Head(radio.events) \in -1 .. MaxRequests
        BY <2>2
      <4> QED BY <4>1, <4>2 DEF WifiState
    <3>2. CASE ~ wifi.manual
      <4>1. wifi' = [wifi EXCEPT !.done = TRUE, !.selected = wifi.selected]
        BY <1>2, <3>2 DEF WifiScanDoneHandler
      <4> QED BY <4>1 DEF WifiState
    <3> QED BY <3>1, <3>2
  <2>5. TypeOK'
    BY <2>1, <2>2, <2>3, <2>4, SMTT(20) DEF TypeOK, WifiState, RadioState
  <2>6. wifi.manual => Len(radio.events) = 1 /\ radio.scan = NoScan /\ wifi.busy
    BY <2>1 DEF WifiOnePlace
  <2>7. chain.wifi = 0
    BY <2>1 DEF WifiOnePlace
  <2>8. WifiOnePlace'
    <3>1. wifi.manual => radio'.events = << >>
      BY <2>3, <2>6, SMTT(60) DEF RadioState
    <3> QED BY <2>1, <2>3, <2>4, <2>6, <2>7, <3>1 DEF WifiOnePlace
  <2> QED BY <2>1, <2>3, <2>4, <2>5, <2>8 DEF WifiClaim, BleClaim, DutyCycleAlive,
                                              AllSourcesOrNone, Running
<1> QED BY <1>1, <1>2

\* The end of a manual scan, and each further batch of its results, gives the source back or
\* leaves one continuation in the pipeline.
LEMMA WifiResultsStep ==
  ASSUME ArbiterInv, WifiScanDoneManual \/ ContinueWifi
  PROVE  ArbiterInv'
<1> USE TypeParts, ScanAssumption DEF ArbiterInv
<1> DEFINE w == [wifi EXCEPT !.done = FALSE]
<1>1. /\ w \in WifiState /\ ~ w.done
      /\ w.busy = wifi.busy /\ w.manual = wifi.manual /\ w.active = wifi.active
      /\ w.interval = wifi.interval /\ w.selected = wifi.selected
  BY DEF WifiState
<1> HIDE DEF w
<1>2. UNCHANGED <<mode, link, disc, reconnect, ble, radio, want, enabled, requests>>
  BY DEF WifiScanDoneManual, ContinueWifi
<1>3. /\ wifi.busy /\ wifi.manual /\ ~ wifi.active /\ ~ wifi.interval
      /\ radio.scan = NoScan /\ radio.events = << >>
  <2>1. CASE WifiScanDoneManual
    BY <2>1 DEF WifiScanDoneManual, WifiOnePlace, WifiClaim
  <2>2. CASE ContinueWifi
    BY <2>2 DEF ContinueWifi, WifiOnePlace, WifiClaim
  <2> QED BY <2>1, <2>2
<1>4. /\ wifi' \in WifiState /\ ~ wifi'.done /\ wifi'.manual /\ ~ wifi'.active
      /\ ~ wifi'.interval
      /\ chain' \in [wifi : 0 .. 1, ble : 0 .. 1] /\ chain'.ble = chain.ble
      /\ chain'.wifi > 0 => wifi'.busy
      /\ answers' \in Answers
  <2>1. CASE WifiScanDoneManual
    <3>1. chain.wifi = 0
      BY <2>1 DEF WifiScanDoneManual, WifiOnePlace
    <3>2. CASE ClientThere
      <4>1. WifiSendNextBatch(w, 0)
        BY <2>1, <3>1, <3>2 DEF WifiScanDoneManual, w
      <4>2. PICK busy \in BOOLEAN : wifi' = [w EXCEPT !.busy = busy]
        BY <1>1, <4>1, WifiBatchOK
      <4>3. /\ chain' \in [wifi : 0 .. 1, ble : 0 .. 1] /\ chain'.ble = chain.ble
            /\ chain'.wifi > 0 => wifi'.busy = w.busy
            /\ answers' \in Answers
        BY <1>1, <4>1, WifiBatchOK
      <4>4. /\ wifi' \in WifiState /\ ~ wifi'.done /\ wifi'.manual /\ ~ wifi'.active
            /\ ~ wifi'.interval
        BY <1>1, <1>3, <4>2 DEF WifiState
      <4> QED BY <1>1, <1>3, <4>3, <4>4
    <3>3. CASE ~ ClientThere
      <4>1. wifi' = [w EXCEPT !.busy = FALSE] /\ UNCHANGED <<chain, answers>>
        BY <2>1, <3>3 DEF WifiScanDoneManual, w
      <4>2. /\ wifi' \in WifiState /\ ~ wifi'.done /\ wifi'.manual /\ ~ wifi'.active
            /\ ~ wifi'.interval
        BY <1>1, <1>3, <4>1 DEF WifiState
      <4> QED BY <3>1, <4>1, <4>2
    <3> QED BY <3>2, <3>3
  <2>2. CASE ContinueWifi
    <3>1. chain.wifi = 1 /\ ~ wifi.done
      BY <2>2 DEF ContinueWifi, WifiOnePlace
    <3>2. WifiSendNextBatch(wifi, 0)
      BY <2>2, <3>1 DEF ContinueWifi
    <3>3. PICK busy \in BOOLEAN : wifi' = [wifi EXCEPT !.busy = busy]
      BY <3>2, WifiBatchOK
    <3>4. /\ chain' \in [wifi : 0 .. 1, ble : 0 .. 1] /\ chain'.ble = chain.ble
          /\ chain'.wifi > 0 => wifi'.busy = wifi.busy
          /\ answers' \in Answers
      BY <3>2, WifiBatchOK
    <3>5. /\ wifi' \in WifiState /\ ~ wifi'.done /\ wifi'.manual /\ ~ wifi'.active
          /\ ~ wifi'.interval
      BY <1>3, <3>1, <3>3 DEF WifiState
    <3> QED BY <1>3, <3>4, <3>5
  <2> QED BY <2>1, <2>2
<1>5. TypeOK'
  BY <1>2, <1>4 DEF TypeOK, WifiState, Answers
<1>6. wifi'.active = FALSE /\ wifi.active = FALSE
  BY <1>3, <1>4 DEF WifiState
<1>7. AllSourcesOrNone'
  BY <1>2, <1>6 DEF AllSourcesOrNone, Running
<1> QED BY <1>2, <1>3, <1>4, <1>5, <1>7 DEF WifiClaim, WifiOnePlace, BleClaim, DutyCycleAlive

\* The same of the end of a manual BLE window and the batches behind it.
LEMMA BleResultsStep ==
  ASSUME ArbiterInv, WindowCloseManual \/ ContinueBle
  PROVE  ArbiterInv'
<1> USE TypeParts, ScanAssumption DEF ArbiterInv
<1> DEFINE b == [ble EXCEPT !.window = FALSE]
<1>1. /\ b \in BleState /\ ~ b.window
      /\ b.busy = ble.busy /\ b.manual = ble.manual /\ b.active = ble.active
      /\ b.interval = ble.interval
  BY DEF BleState
<1> HIDE DEF b
<1>2. /\ UNCHANGED <<mode, link, reconnect, wifi, radio, want, enabled, requests>>
      /\ disc' \in BOOLEAN
  BY DEF WindowCloseManual, ContinueBle
<1>3. ble.busy /\ ble.manual /\ ~ ble.active /\ ~ ble.interval
  <2>1. CASE WindowCloseManual
    BY <2>1 DEF WindowCloseManual, BleClaim
  <2>2. CASE ContinueBle
    BY <2>2 DEF ContinueBle, BleClaim
  <2> QED BY <2>1, <2>2
<1>4. /\ ble' \in BleState /\ ~ ble'.window /\ ble'.manual /\ ~ ble'.active
      /\ ~ ble'.interval
      /\ chain' \in [wifi : 0 .. 1, ble : 0 .. 1] /\ chain'.wifi = chain.wifi
      /\ chain'.ble > 0 => ble'.busy
      /\ answers' \in Answers
  <2>1. CASE WindowCloseManual
    <3>1. chain.ble = 0
      BY <2>1 DEF WindowCloseManual, BleClaim
    <3>2. CASE ClientThere
      <4>1. BleSendNextBatch(b, 0)
        BY <2>1, <3>1, <3>2 DEF WindowCloseManual, b
      <4>2. PICK busy \in BOOLEAN : ble' = [b EXCEPT !.busy = busy]
        BY <1>1, <4>1, BleBatchOK
      <4>3. /\ chain' \in [wifi : 0 .. 1, ble : 0 .. 1] /\ chain'.wifi = chain.wifi
            /\ chain'.ble > 0 => ble'.busy = b.busy
            /\ answers' \in Answers
        BY <1>1, <4>1, BleBatchOK
      <4>4. /\ ble' \in BleState /\ ~ ble'.window /\ ble'.manual /\ ~ ble'.active
            /\ ~ ble'.interval
        BY <1>1, <1>3, <4>2 DEF BleState
      <4> QED BY <1>1, <1>3, <4>3, <4>4
    <3>3. CASE ~ ClientThere
      <4>1. ble' = [b EXCEPT !.busy = FALSE] /\ UNCHANGED <<chain, answers>>
        BY <2>1, <3>3 DEF WindowCloseManual, b
      <4>2. /\ ble' \in BleState /\ ~ ble'.window /\ ble'.manual /\ ~ ble'.active
            /\ ~ ble'.interval
        BY <1>1, <1>3, <4>1 DEF BleState
      <4> QED BY <3>1, <4>1, <4>2
    <3> QED BY <3>2, <3>3
  <2>2. CASE ContinueBle
    <3>1. chain.ble = 1 /\ ~ ble.window
      BY <2>2 DEF ContinueBle, BleClaim
    <3>2. BleSendNextBatch(ble, 0)
      BY <2>2, <3>1 DEF ContinueBle
    <3>3. PICK busy \in BOOLEAN : ble' = [ble EXCEPT !.busy = busy]
      BY <3>2, BleBatchOK
    <3>4. /\ chain' \in [wifi : 0 .. 1, ble : 0 .. 1] /\ chain'.wifi = chain.wifi
          /\ chain'.ble > 0 => ble'.busy = ble.busy
          /\ answers' \in Answers
      BY <3>2, BleBatchOK
    <3>5. /\ ble' \in BleState /\ ~ ble'.window /\ ble'.manual /\ ~ ble'.active
          /\ ~ ble'.interval
      BY <1>3, <3>1, <3>3 DEF BleState
    <3> QED BY <1>3, <3>4, <3>5
  <2> QED BY <2>1, <2>2
<1>5. TypeOK'
  BY <1>2, <1>4 DEF TypeOK, BleState, Answers
<1>6. ble'.active = FALSE /\ ble.active = FALSE
  BY <1>3, <1>4 DEF BleState
<1>7. AllSourcesOrNone'
  BY <1>2, <1>6 DEF AllSourcesOrNone, Running
<1> QED BY <1>2, <1>3, <1>4, <1>5, <1>7 DEF WifiClaim, WifiOnePlace, BleClaim, DutyCycleAlive

\* The end of a wardriving pass, and the start of the next, on the Wi-Fi source.
LEMMA WifiPassStep ==
  ASSUME ArbiterInv, WifiScanDoneWardriving \/ WifiInterval
  PROVE  ArbiterInv'
<1> USE TypeParts, ScanAssumption DEF ArbiterInv
<1> DEFINE w == [wifi EXCEPT !.done = FALSE]
           v == [wifi EXCEPT !.interval = FALSE]
<1>1. /\ w \in WifiState /\ w.active = wifi.active /\ w.busy = wifi.busy
      /\ w.manual = wifi.manual /\ w.interval = wifi.interval /\ ~ w.done
  BY DEF WifiState
<1>2. /\ v \in WifiState /\ v.active = wifi.active /\ v.busy = wifi.busy
      /\ v.manual = wifi.manual /\ v.done = wifi.done /\ ~ v.interval
  BY DEF WifiState
<1> HIDE DEF w, v
<1>3. UNCHANGED <<mode, link, reconnect, chain, want, enabled, requests, answers>>
  BY DEF WifiScanDoneWardriving, WifiInterval
<1>4. CASE StopInternal(w, ble, disc)
  <2>1. /\ wifi' \in WifiState /\ ble' \in BleState /\ disc' \in BOOLEAN
        /\ radio' \in RadioState /\ Len(radio'.events) <= MaxEvents
        /\ WifiClaim' /\ WifiOnePlace' /\ BleClaim' /\ DutyCycleAlive' /\ AllSourcesOrNone'
    BY <1>1, <1>3, <1>4, StopInternalOK
  <2> QED BY <1>3, <2>1 DEF TypeOK, WifiState, BleState, RadioState, Answers
<1>5. CASE StopInternal(v, ble, disc)
  <2>1. /\ wifi' \in WifiState /\ ble' \in BleState /\ disc' \in BOOLEAN
        /\ radio' \in RadioState /\ Len(radio'.events) <= MaxEvents
        /\ WifiClaim' /\ WifiOnePlace' /\ BleClaim' /\ DutyCycleAlive' /\ AllSourcesOrNone'
    BY <1>2, <1>3, <1>5, StopInternalOK
  <2> QED BY <1>3, <2>1 DEF TypeOK, WifiState, BleState, RadioState, Answers
<1>6. CASE /\ ~ wifi.manual /\ wifi' = (IF w.active THEN Armed(w) ELSE w)
           /\ UNCHANGED <<ble, radio, disc>>
  <2>1. /\ wifi' \in WifiState /\ wifi'.active = wifi.active /\ wifi'.busy = wifi.busy
        /\ wifi'.manual = wifi.manual /\ ~ wifi'.done
        /\ wifi'.interval <=> wifi.interval \/ wifi.active
    BY <1>1, <1>6 DEF Armed, WifiState
  <2>2. TypeOK'
    BY <1>3, <1>6, <2>1 DEF TypeOK, WifiState
  <2>3. chain.wifi = 0
    BY <1>6 DEF WifiOnePlace
  <2> QED BY <1>3, <1>6, <2>1, <2>2, <2>3
          DEF WifiClaim, WifiOnePlace, BleClaim, DutyCycleAlive, AllSourcesOrNone, Running
<1>7. CASE /\ wifi.interval /\ radio.scan = NoScan /\ wifi' = v
           /\ radio' = Scanning(radio, WardrivingScan) /\ UNCHANGED <<ble, disc>>
  <2>1. /\ radio' \in RadioState /\ radio'.scan = WardrivingScan
        /\ radio'.events = radio.events
    BY <1>7 DEF Scanning, RadioState, WardrivingScan
  <2>2. wifi.active /\ wifi.busy /\ ~ wifi.manual
    BY <1>7 DEF WifiClaim
  <2>3. TypeOK'
    BY <1>2, <1>3, <1>7, <2>1 DEF TypeOK, WifiState, RadioState
  <2>4. chain.wifi = 0 /\ radio'.scan # NoScan
    BY <2>1, <2>2 DEF WifiOnePlace, NoScan, WardrivingScan
  <2> QED BY <1>2, <1>3, <1>7, <2>1, <2>2, <2>3, <2>4
          DEF WifiClaim, WifiOnePlace, BleClaim, DutyCycleAlive, AllSourcesOrNone, Running
<1>8. CASE WifiScanDoneWardriving
  BY <1>4, <1>6, <1>8 DEF WifiScanDoneWardriving, w
<1>9. CASE WifiInterval
  BY <1>5, <1>7, <1>9 DEF WifiInterval, v
<1> QED BY <1>8, <1>9

\* The end of a wardriving window, and the start of the next, on the BLE source.
LEMMA BlePassStep ==
  ASSUME ArbiterInv, WindowCloseWardriving \/ BleInterval
  PROVE  ArbiterInv'
<1> USE TypeParts, ScanAssumption DEF ArbiterInv
<1> DEFINE b == [ble EXCEPT !.window = FALSE]
           c == [ble EXCEPT !.interval = FALSE]
<1>1. /\ b \in BleState /\ b.active = ble.active /\ b.busy = ble.busy
      /\ b.manual = ble.manual /\ b.interval = ble.interval /\ ~ b.window
  BY DEF BleState
<1>2. /\ c \in BleState /\ c.active = ble.active /\ c.busy = ble.busy
      /\ c.manual = ble.manual /\ c.window = ble.window /\ ~ c.interval
  BY DEF BleState
<1> HIDE DEF b, c
<1>3. UNCHANGED <<mode, link, reconnect, chain, want, enabled, requests, answers>>
  BY DEF WindowCloseWardriving, BleInterval
<1>4. CASE StopInternal(wifi, b, FALSE)
  <2>1. /\ wifi' \in WifiState /\ ble' \in BleState /\ disc' \in BOOLEAN
        /\ radio' \in RadioState /\ Len(radio'.events) <= MaxEvents
        /\ WifiClaim' /\ WifiOnePlace' /\ BleClaim' /\ DutyCycleAlive' /\ AllSourcesOrNone'
    BY <1>1, <1>3, <1>4, StopInternalOK
  <2> QED BY <1>3, <2>1 DEF TypeOK, WifiState, BleState, RadioState, Answers
<1>5. CASE StopInternal(wifi, c, disc)
  <2>1. /\ wifi' \in WifiState /\ ble' \in BleState /\ disc' \in BOOLEAN
        /\ radio' \in RadioState /\ Len(radio'.events) <= MaxEvents
        /\ WifiClaim' /\ WifiOnePlace' /\ BleClaim' /\ DutyCycleAlive' /\ AllSourcesOrNone'
    BY <1>2, <1>3, <1>5, StopInternalOK
  <2> QED BY <1>3, <2>1 DEF TypeOK, WifiState, BleState, RadioState, Answers
<1>6. CASE /\ ~ ble.manual /\ ble' = (IF b.active THEN Armed(b) ELSE b) /\ disc' = FALSE
           /\ UNCHANGED <<wifi, radio>>
  <2>1. /\ ble' \in BleState /\ ble'.active = ble.active /\ ble'.busy = ble.busy
        /\ ble'.manual = ble.manual /\ ~ ble'.window
        /\ ble'.interval <=> ble.interval \/ ble.active
    BY <1>1, <1>6 DEF Armed, BleState
  <2>0. disc' \in BOOLEAN
    BY <1>6
  <2>2. TypeOK'
    BY <1>3, <1>6, <2>0, <2>1 DEF TypeOK, BleState
  <2> QED BY <1>3, <1>6, <2>1, <2>2
          DEF WifiClaim, WifiOnePlace, BleClaim, DutyCycleAlive, AllSourcesOrNone, Running
<1>7. CASE /\ ble.interval /\ ble' \in {Armed(c), [c EXCEPT !.window = TRUE]}
           /\ disc' \in BOOLEAN /\ UNCHANGED <<wifi, radio>>
  <2>1. /\ ble' \in BleState /\ ble'.active = ble.active /\ ble'.busy = ble.busy
        /\ ble'.manual = ble.manual /\ (ble'.window \/ ble'.interval)
    BY <1>2, <1>7 DEF Armed, BleState
  <2>2. ble.active /\ ~ ble.manual /\ ble.busy
    BY <1>7 DEF BleClaim
  <2>3. TypeOK'
    BY <1>3, <1>7, <2>1 DEF TypeOK, BleState
  <2> QED BY <1>3, <1>7, <2>1, <2>2, <2>3
          DEF WifiClaim, WifiOnePlace, BleClaim, DutyCycleAlive, AllSourcesOrNone, Running
<1>8. CASE WindowCloseWardriving
  BY <1>4, <1>6, <1>8 DEF WindowCloseWardriving, b
<1>9. CASE BleInterval
  BY <1>5, <1>7, <1>9 DEF BleInterval, c
<1> QED BY <1>8, <1>9

\* A stop, by the button or a command, gives both sources back.
LEMMA StopStep ==
  ASSUME ArbiterInv, Stop
  PROVE  ArbiterInv'
<1> USE TypeParts DEF ArbiterInv
<1>1. /\ StopInternal(wifi, ble, disc) /\ enabled' = FALSE
      /\ UNCHANGED <<mode, link, reconnect, chain, want, requests, answers>>
  BY DEF Stop
<1>2. /\ wifi' \in WifiState /\ ble' \in BleState /\ disc' \in BOOLEAN
      /\ radio' \in RadioState /\ Len(radio'.events) <= MaxEvents
      /\ WifiClaim' /\ WifiOnePlace' /\ BleClaim' /\ DutyCycleAlive' /\ AllSourcesOrNone'
  BY <1>1, StopInternalOK
<1> QED BY <1>1, <1>2 DEF TypeOK, WifiState, BleState, RadioState, Answers

\* What the flags are after a restart.
LEMMA WifiIdleOK ==
  ASSUME NEW m \in BOOLEAN, NEW a \in BOOLEAN
  PROVE  LET w == [WifiIdle EXCEPT !.manual = m, !.busy = a, !.active = a]
         IN /\ w \in WifiState /\ ~ w.interval /\ ~ w.done
            /\ w.manual = m /\ w.busy = a /\ w.active = a
<1>1. NoScan \in -1 .. MaxRequests /\ 0 \in 0 .. MaxRequests
  BY ScanAssumption DEF NoScan
<1> QED BY <1>1 DEF WifiIdle, WifiState

\* The same of the BLE source.
LEMMA BleIdleOK ==
  ASSUME NEW m \in BOOLEAN, NEW a \in BOOLEAN
  PROVE  LET b == [BleIdle EXCEPT !.manual = m, !.busy = a, !.active = a, !.window = a]
         IN /\ b \in BleState /\ ~ b.interval
            /\ b.manual = m /\ b.busy = a /\ b.active = a /\ b.window = a
<1>1. 0 \in 0 .. MaxRequests
  BY ScanAssumption
<1> QED BY <1>1 DEF BleIdle, BleState

\* The driver behind a restart: idle, or running wardriving's first scan.
LEMMA RadioIdleOK ==
  /\ RadioIdle \in RadioState /\ Len(RadioIdle.events) = 0 /\ RadioIdle.scan = NoScan
  /\ Scanning(RadioIdle, WardrivingScan) \in RadioState
  /\ Scanning(RadioIdle, WardrivingScan).scan = WardrivingScan
  /\ Len(Scanning(RadioIdle, WardrivingScan).events) = 0
<1>1. RadioIdle = [scan |-> -1, events |-> << >>]
  BY DEF RadioIdle, NoScan
<1>2. RadioIdle \in RadioState /\ RadioIdle.events = << >> /\ RadioIdle.scan = -1
  BY <1>1, ScanAssumption DEF RadioState
<1>3. Scanning(RadioIdle, WardrivingScan) = [scan |-> 0, events |-> << >>]
  BY <1>1 DEF Scanning, WardrivingScan
<1>4. [scan |-> 0, events |-> << >>] \in RadioState
  <2>1. 0 \in -1 .. MaxRequests
    BY ScanAssumption
  <2>2. << >> \in Seq(0 .. MaxRequests)
    OBVIOUS
  <2> QED BY <2>1, <2>2 DEF RadioState
<1>5. Len(<< >>) = 0
  OBVIOUS
<1>6. /\ Scanning(RadioIdle, WardrivingScan).scan = 0
      /\ Scanning(RadioIdle, WardrivingScan).events = << >>
  BY <1>3
<1>7. Scanning(RadioIdle, WardrivingScan) \in RadioState
  BY <1>3, <1>4
<1> QED BY <1>2, <1>5, <1>6, <1>7 DEF NoScan, WardrivingScan

\* Whatever was going on, a restart leaves only what wardriving starts again.
LEMMA RestartStep ==
  ASSUME ArbiterInv, Restart
  PROVE  ArbiterInv'
<1> USE TypeParts, ScanAssumption DEF ArbiterInv
<1>1. /\ mode' \in BootModes /\ link' = "none" /\ reconnect' = FALSE /\ chain' = NoChain
      /\ UNCHANGED <<requests, want, enabled, answers>>
      /\ disc' \in BOOLEAN
  BY DEF Restart
<1> DEFINE s == IF enabled THEN want ELSE [wifi |-> FALSE, ble |-> FALSE]
<1>2. s \in Sources /\ s.wifi \in BOOLEAN /\ s.ble \in BOOLEAN
  BY DEF Sources
<1>3. PICK wifiOk \in BOOLEAN, bleOk \in BOOLEAN :
        /\ wifi' = [WifiIdle EXCEPT !.manual = ~ s.wifi,
                                    !.busy = s.wifi /\ Starts(s, wifiOk, bleOk),
                                    !.active = s.wifi /\ Starts(s, wifiOk, bleOk)]
        /\ ble' = [BleIdle EXCEPT !.manual = ~ (s.ble /\ (s.wifi => wifiOk)),
                                  !.busy = s.ble /\ Starts(s, wifiOk, bleOk),
                                  !.active = s.ble /\ Starts(s, wifiOk, bleOk),
                                  !.window = s.ble /\ Starts(s, wifiOk, bleOk)]
        /\ radio' = IF ~ s.wifi \/ ~ wifiOk THEN RadioIdle
                    ELSE IF Starts(s, wifiOk, bleOk) THEN Scanning(RadioIdle, WardrivingScan)
                    ELSE Halted(Scanning(RadioIdle, WardrivingScan))
  BY DEF Restart
<1> DEFINE up == Starts(s, wifiOk, bleOk)
<1>4. up \in BOOLEAN /\ (up => (s.wifi => wifiOk) /\ (s.ble => bleOk))
  BY <1>2 DEF Starts
<1> DEFINE wm == ~ s.wifi
           wa == s.wifi /\ up
           bm == ~ (s.ble /\ (s.wifi => wifiOk))
           ba == s.ble /\ up
<1>5. /\ wifi' \in WifiState /\ ~ wifi'.interval /\ ~ wifi'.done
      /\ wifi'.manual = wm /\ wifi'.busy = wa /\ wifi'.active = wa
  <2>1. wm \in BOOLEAN /\ wa \in BOOLEAN
    BY <1>2, <1>4
  <2>2. wifi' = [WifiIdle EXCEPT !.manual = wm, !.busy = wa, !.active = wa]
    BY <1>3
  <2> HIDE DEF wm, wa
  <2> QED BY <2>1, <2>2, WifiIdleOK
<1>6. /\ ble' \in BleState /\ ~ ble'.interval /\ ble'.manual = bm
      /\ ble'.busy = ba /\ ble'.active = ba /\ ble'.window = ba
  <2>1. bm \in BOOLEAN /\ ba \in BOOLEAN
    BY <1>2, <1>4
  <2>2. ble' = [BleIdle EXCEPT !.manual = bm, !.busy = ba, !.active = ba, !.window = ba]
    BY <1>3
  <2> HIDE DEF bm, ba
  <2> QED BY <2>1, <2>2, BleIdleOK
<1>7. /\ radio' \in RadioState /\ Len(radio'.events) <= MaxEvents
      /\ ~ s.wifi => radio' = RadioIdle
      /\ s.wifi /\ up => radio'.scan # NoScan
      /\ ~ up => radio'.scan = NoScan
  <2>3. /\ Halted(Scanning(RadioIdle, WardrivingScan)) \in RadioState
        /\ Halted(Scanning(RadioIdle, WardrivingScan)).scan = NoScan
        /\ Len(Halted(Scanning(RadioIdle, WardrivingScan)).events) <= 1
    BY RadioIdleOK, HaltedOK
  <2>4. 1 <= MaxEvents /\ WardrivingScan # NoScan
    BY DEF WardrivingScan, NoScan
  <2>5. CASE ~ s.wifi \/ ~ wifiOk
    <3>1. radio' = RadioIdle
      BY <1>3, <2>5
    <3> QED BY <1>2, <1>4, <2>4, <2>5, <3>1, RadioIdleOK
  <2>6. CASE s.wifi /\ wifiOk /\ up
    <3>1. radio' = Scanning(RadioIdle, WardrivingScan)
      BY <1>3, <2>6
    <3>2. /\ radio' \in RadioState /\ Len(radio'.events) = 0
          /\ radio'.scan = WardrivingScan
      BY <3>1, RadioIdleOK
    <3>3. Len(radio'.events) <= MaxEvents /\ radio'.scan # NoScan
      BY <2>4, <3>2
    <3> QED BY <2>6, <3>2, <3>3
  <2>7. CASE s.wifi /\ wifiOk /\ ~ up
    <3>1. radio' = Halted(Scanning(RadioIdle, WardrivingScan))
      BY <1>3, <2>7
    <3>2. Len(radio'.events) \in Nat /\ Len(radio'.events) <= 1
      BY <2>3, <3>1 DEF RadioState
    <3>3. Len(radio'.events) <= MaxEvents
      BY <2>4, <3>2
    <3> QED BY <2>3, <2>7, <3>1, <3>3
  <2> QED BY <1>4, <2>5, <2>6, <2>7
<1> HIDE DEF s, up
<1>8. chain'.wifi = 0 /\ chain'.ble = 0 /\ chain' \in [wifi : 0 .. 1, ble : 0 .. 1]
  BY <1>1 DEF NoChain
<1>9. TypeOK'
  <2>1. mode' \in {"runtime", "open", "closed"}
    BY <1>1 DEF BootModes
  <2> QED BY <1>1, <1>5, <1>6, <1>7, <1>8, <2>1
          DEF TypeOK, WifiState, BleState, RadioState, Answers
<1>10. WifiClaim' /\ WifiOnePlace'
  <2>1. CASE s.wifi
    <3>1. ~ wifi'.manual /\ wifi'.busy = up /\ wifi'.active = up
      BY <1>2, <1>4, <1>5, <2>1
    <3>2. ~ up => radio'.scan = NoScan
      BY <1>7
    <3> QED BY <1>4, <1>5, <1>8, <3>1, <3>2 DEF WifiClaim, WifiOnePlace
  <2>2. CASE ~ s.wifi
    <3>1. radio'.scan = NoScan /\ radio'.events = << >>
      BY <1>7, <2>2 DEF RadioIdle
    <3>2. ~ wifi'.busy /\ ~ wifi'.active /\ ~ wifi'.done /\ ~ wifi'.interval
      BY <1>5, <2>2
    <3> QED BY <1>8, <3>1, <3>2 DEF WifiClaim, WifiOnePlace
  <2> QED BY <2>1, <2>2
<1>11. BleClaim'
  <2>1. ba => ~ bm
    BY <1>2, <1>4
  <2>2. /\ ~ ble'.interval /\ ble'.manual = bm
        /\ ble'.busy = ba /\ ble'.active = ba /\ ble'.window = ba
    BY <1>6
  <2> HIDE DEF ba, bm
  <2> QED BY <1>8, <2>1, <2>2 DEF BleClaim
<1>13. DutyCycleAlive'
  <2>1. wifi'.active => radio'.scan # NoScan
    BY <1>5, <1>7
  <2>2. ble'.active => ble'.window
    BY <1>6
  <2> QED BY <2>1, <2>2 DEF DutyCycleAlive
<1>12. AllSourcesOrNone'
  BY <1>1, <1>2, <1>4, <1>5, <1>6 DEF AllSourcesOrNone, Running, s
<1> QED BY <1>9, <1>10, <1>11, <1>12, <1>13

\* Every step of the board keeps the invariant, unless a scan is asked for while the event
\* of a stopped one is on its way.
LEMMA ArbiterStep ==
  ASSUME ArbiterInv, [Next]_vars, "stale_scan_done" \notin Races
  PROVE  ArbiterInv'
<1>1. CASE \/ FindPeer \/ ConnectFails \/ Connect \/ Authenticate
           \/ ReconnectTimer \/ DiscComplete \/ WindowExpires
  BY <1>1, LinkStep
<1>2. CASE Disconnect
  BY <1>2, DisconnectStep
<1>3. CASE WifiScanCommand \/ WifiScanRefused \/ BleScanCommand \/ BleScanRefused
  BY <1>3, ScanCommandStep
<1>4. CASE RadioDone \/ WifiScanDoneHandler
  BY <1>4, RadioStep
<1>5. CASE WifiScanDoneManual \/ ContinueWifi
  BY <1>5, WifiResultsStep
<1>6. CASE WindowCloseManual \/ ContinueBle
  BY <1>6, BleResultsStep
<1>7. CASE WifiScanDoneWardriving \/ WifiInterval
  BY <1>7, WifiPassStep
<1>8. CASE WindowCloseWardriving \/ BleInterval
  BY <1>8, BlePassStep
<1>9. CASE WardrivingCommand \/ ButtonToggle
  <2>1. Stop \/ \E s \in Sources : Start(s)
    BY <1>9, TypeParts DEF WardrivingCommand, ButtonToggle, ArbiterInv
  <2> QED BY <2>1, StopStep, StartOK
<1>10. CASE Restart
  BY <1>10, RestartStep
<1>11. CASE UNCHANGED vars
  BY <1>11 DEF vars, ArbiterInv, TypeOK, WifiClaim, WifiOnePlace, BleClaim, DutyCycleAlive,
               AllSourcesOrNone, Running
<1> QED BY <1>1, <1>2, <1>3, <1>4, <1>5, <1>6, <1>7, <1>8, <1>9, <1>10, <1>11 DEF Next

\* The board boots with everything given back.
LEMMA ArbiterInit == Init => ArbiterInv
<1> SUFFICES ASSUME Init PROVE ArbiterInv
  OBVIOUS
<1>1. wifi \in WifiState
  BY ScanAssumption DEF Init, WifiIdle, WifiState, NoScan
<1>2. ble \in BleState
  BY ScanAssumption DEF Init, BleIdle, BleState
<1>3. radio \in RadioState /\ Len(radio.events) <= MaxEvents
  BY RadioIdleOK, ScanAssumption DEF Init
<1>4. /\ mode \in {"runtime", "open", "closed"} /\ chain \in [wifi : 0 .. 1, ble : 0 .. 1]
      /\ want \in Sources /\ requests \in 0 .. MaxRequests /\ answers \in Answers
  BY ScanAssumption DEF Init, BootModes, NoChain, Sources, Answers
<1>5. TypeOK
  BY <1>1, <1>2, <1>3, <1>4, TypeParts DEF Init
<1>6. /\ ~ wifi.busy /\ wifi.manual /\ ~ wifi.active /\ ~ wifi.interval /\ ~ wifi.done
      /\ ~ ble.busy /\ ble.manual /\ ~ ble.active /\ ~ ble.interval /\ ~ ble.window
      /\ radio.scan = NoScan /\ radio.events = << >>
      /\ chain.wifi = 0 /\ chain.ble = 0
  BY DEF Init, WifiIdle, BleIdle, RadioIdle, NoChain
<1> QED BY <1>5, <1>6 DEF ArbiterInv, WifiClaim, WifiOnePlace, BleClaim, DutyCycleAlive,
                          AllSourcesOrNone, Running

\* main.c, the scan handlers and wardriving_start_internal: who holds a source and where its
\* results can be, in every reachable state.
THEOREM ArbiterInvariant ==
  ASSUME "stale_scan_done" \notin Races
  PROVE  Spec => []ArbiterInv
<1>1. Init => ArbiterInv
  BY ArbiterInit
<1>2. ArbiterInv /\ [Next]_vars => ArbiterInv'
  BY ArbiterStep
<1> QED BY <1>1, <1>2, PTL DEF Spec

\* main.c:298-345: the flags keep their types, and a source's results are continued by at
\* most one record in the pipeline, although each batch of them queues the next.
THEOREM ArbiterTypeOK ==
  ASSUME "stale_scan_done" \notin Races
  PROVE  Spec => []TypeOK
<1>1. ArbiterInv => TypeOK
  BY DEF ArbiterInv
<1> QED BY <1>1, ArbiterInvariant, PTL

\* wifi_scan_done_cb, ble_scan_window_close_cb and the interval callouts: wardriving never
\* stalls, on however many requests, losses of the link and restarts.
THEOREM WardrivingNeverStalls ==
  ASSUME "stale_scan_done" \notin Races
  PROVE  Spec => []DutyCycleAlive
<1>1. ArbiterInv => DutyCycleAlive
  BY DEF ArbiterInv
<1> QED BY <1>1, ArbiterInvariant, PTL

\* wardriving_start_internal and handle_wifi_scan_command: from its start to its end,
\* wardriving's sources are closed to manual scans.
THEOREM WardrivingIsExclusive ==
  ASSUME "stale_scan_done" \notin Races
  PROVE  Spec => []WardrivingHoldsItsSources
<1>1. ArbiterInv => WardrivingHoldsItsSources
  BY DEF ArbiterInv, WifiClaim, BleClaim, WardrivingHoldsItsSources
<1> QED BY <1>1, ArbiterInvariant, PTL

\* wardriving_start_internal, with its roll-back of a source whose sibling failed: wardriving
\* runs on all of the sources last asked for or on none, also behind a restart.
THEOREM StartIsAtomic ==
  ASSUME "stale_scan_done" \notin Races
  PROVE  Spec => []AllSourcesOrNone
<1>1. ArbiterInv => AllSourcesOrNone
  BY DEF ArbiterInv
<1> QED BY <1>1, ArbiterInvariant, PTL

\* wardriving_start_internal and wardriving_stop_internal: the three together, wardriving has
\* what it was started on, and has it alone.
THEOREM WardrivingStaysWhole ==
  ASSUME "stale_scan_done" \notin Races
  PROVE  Spec => []WardrivingIsWhole
<1>1. TypeOK /\ AllSourcesOrNone /\ WardrivingHoldsItsSources => WardrivingIsWhole
  BY DEF WardrivingIsWhole
<1> QED BY <1>1, ArbiterTypeOK, StartIsAtomic, WardrivingIsExclusive, PTL

-----------------------------------------------------------------------------
(* A claimed source is given back.                                          *)

\* Results are continued only on the connection they were started on.
BusyInv ==
  /\ BusyIsReleased
  /\ chain # NoChain => link = "auth"

\* With wardriving's claims as in the invariant, only the claims of manual scans are left.
LEMMA BusyParts ==
  ASSUME ArbiterInv
  PROVE  /\ BusyIsReleased <=>
              /\ wifi.busy /\ wifi.manual => \/ radio.scan # NoScan \/ radio.events # << >>
                                             \/ wifi.done \/ chain.wifi > 0
              /\ ble.busy /\ ble.manual => ble.window \/ chain.ble > 0
         /\ chain = NoChain <=> chain.wifi = 0 /\ chain.ble = 0
<1>1. wifi.busy /\ ~ wifi.manual => wifi.active
  BY DEF ArbiterInv, WifiClaim
<1>2. ble.busy /\ ~ ble.manual => ble.active
  BY DEF ArbiterInv, BleClaim
<1>3. chain = NoChain <=> chain.wifi = 0 /\ chain.ble = 0
  BY TypeParts DEF ArbiterInv, NoChain
<1> QED BY <1>1, <1>2, <1>3 DEF BusyIsReleased

\* A batch of results keeps the claim only when it queues the next one.
LEMMA BatchFrees ==
  /\ \A w \in WifiState : WifiSendNextBatch(w, 0) /\ chain \in [wifi : 0 .. 1, ble : 0 .. 1]
                            => (wifi'.busy => chain'.wifi > 0) /\ chain'.ble = chain.ble
  /\ \A b \in BleState : BleSendNextBatch(b, 0) /\ chain \in [wifi : 0 .. 1, ble : 0 .. 1]
                            => (ble'.busy => chain'.ble > 0) /\ chain'.wifi = chain.wifi
<1>1. ASSUME NEW w \in WifiState, WifiSendNextBatch(w, 0),
             chain \in [wifi : 0 .. 1, ble : 0 .. 1]
      PROVE  (wifi'.busy => chain'.wifi > 0) /\ chain'.ble = chain.ble
  <2>1. PICK outcome \in Outcomes :
          /\ wifi' = [w EXCEPT !.busy = @ /\ BusyAfter(outcome)]
          /\ chain' = [chain EXCEPT !.wifi = IF outcome = "partial" THEN 0 + 1 ELSE 0]
    BY <1>1 DEF WifiSendNextBatch
  <2>2. CASE outcome = "partial"
    BY <1>1, <2>1, <2>2
  <2>3. CASE outcome # "partial"
    <3>1. wifi' = [w EXCEPT !.busy = FALSE]
      BY <1>1, <2>1, <2>3 DEF BusyAfter, WifiState
    <3> QED BY <1>1, <2>1, <3>1 DEF WifiState
  <2> QED BY <2>2, <2>3
<1>2. ASSUME NEW b \in BleState, BleSendNextBatch(b, 0),
             chain \in [wifi : 0 .. 1, ble : 0 .. 1]
      PROVE  (ble'.busy => chain'.ble > 0) /\ chain'.wifi = chain.wifi
  <2>1. PICK outcome \in Outcomes :
          /\ ble' = [b EXCEPT !.busy = @ /\ BusyAfter(outcome)]
          /\ chain' = [chain EXCEPT !.ble = IF outcome = "partial" THEN 0 + 1 ELSE 0]
    BY <1>2 DEF BleSendNextBatch
  <2>2. CASE outcome = "partial"
    BY <1>2, <2>1, <2>2
  <2>3. CASE outcome # "partial"
    <3>1. ble' = [b EXCEPT !.busy = FALSE]
      BY <1>2, <2>1, <2>3 DEF BusyAfter, BleState
    <3> QED BY <1>2, <2>1, <3>1 DEF BleState
  <2> QED BY <2>2, <2>3
<1> QED BY <1>1, <1>2

\* Stopping wardriving does not touch a manual scan.
LEMMA StopKeepsManual ==
  ASSUME ArbiterInv, NEW w \in WifiState, NEW b \in BleState, NEW d \in BOOLEAN,
         w.active = wifi.active, w.manual = wifi.manual, b.active = ble.active,
         b.manual = ble.manual, StopInternal(w, b, d)
  PROVE  /\ wifi.manual => wifi' = w /\ radio' = radio
         /\ ble.manual => ble' = b
         /\ wifi'.manual = wifi.manual /\ ble'.manual = ble.manual
<1>1. wifi' = Stopped(w) /\ ble' = Stopped(b) /\ radio' = IF w.active THEN Halted(radio) ELSE radio
  BY DEF StopInternal
<1>2. (wifi.manual => ~ wifi.active) /\ (ble.manual => ~ ble.active)
  BY DEF ArbiterInv, WifiClaim, BleClaim
<1> QED BY <1>1, <1>2 DEF Stopped, WifiState, BleState

\* While the pipeline is not cut off in the middle of a scan's results, each step keeps the
\* way on which a claimed source is given back.
LEMMA BusyStep ==
  ASSUME ArbiterInv, ArbiterInv', BusyInv, [Next]_vars, "drop_mid_chain" \notin Races
  PROVE  BusyInv'
<1> USE TypeParts, ScanAssumption
<1>0. /\ wifi \in WifiState /\ ble \in BleState /\ radio \in RadioState
      /\ chain \in [wifi : 0 .. 1, ble : 0 .. 1] /\ disc \in BOOLEAN
  BY DEF ArbiterInv
<1>p. BusyIsReleased' <=>
        /\ wifi'.busy /\ wifi'.manual => \/ radio'.scan # NoScan \/ radio'.events # << >>
                                         \/ wifi'.done \/ chain'.wifi > 0
        /\ ble'.busy /\ ble'.manual => ble'.window \/ chain'.ble > 0
  <2>1. wifi'.busy /\ ~ wifi'.manual => wifi'.active
    BY DEF ArbiterInv, WifiClaim
  <2>2. ble'.busy /\ ~ ble'.manual => ble'.active
    BY DEF ArbiterInv, BleClaim
  <2> QED BY <2>1, <2>2 DEF BusyIsReleased
<1>1. CASE FindPeer \/ ConnectFails \/ Connect \/ Authenticate \/ ReconnectTimer
           \/ DiscComplete \/ WindowExpires
  <2>1. UNCHANGED <<wifi, ble, radio>> /\ chain' = chain /\ (link = "auth" => link' = "auth")
    <3>1. CASE Connect
      <4>1. chain = NoChain
        BY <3>1 DEF Connect, BusyInv
      <4> QED BY <3>1, <4>1 DEF Connect
    <3>2. CASE ~ Connect
      BY <1>1, <3>2 DEF FindPeer, ConnectFails, Authenticate, ReconnectTimer, DiscComplete,
                        WindowExpires
    <3> QED BY <3>1, <3>2
  <2> QED BY <2>1 DEF BusyInv, BusyIsReleased
<1>2. CASE Disconnect
  <2>1. /\ chain = NoChain /\ chain' = NoChain
        /\ wifi' = Dropped(wifi) /\ ble' = Dropped(ble)
        /\ radio' = IF wifi.busy /\ wifi.manual THEN Halted(radio) ELSE radio
    BY <1>2 DEF Disconnect
  <2>2. /\ wifi'.busy = wifi.busy /\ wifi'.manual = wifi.manual /\ wifi'.done = wifi.done
        /\ ble'.busy = ble.busy /\ ble'.manual = ble.manual /\ ble'.window = ble.window
    BY <1>0, <2>1 DEF Dropped, WifiState, BleState
  <2>3. radio.scan # NoScan \/ radio.events # << >> =>
          radio'.scan # NoScan \/ radio'.events # << >>
    <3>1. CASE Halted(radio).scan = NoScan /\ radio.scan # NoScan /\ radio' = Halted(radio)
      <4>1. radio'.events = Append(radio.events, radio.scan)
        BY <1>0, <3>1, HaltedOK
      <4>2. radio.events \in Seq(Int) /\ radio.scan \in Int
        BY <1>0 DEF RadioState
      <4> HIDE <1>0
      <4>3. Append(radio.events, radio.scan) # << >>
        BY <4>2
      <4> QED BY <4>1, <4>3
    <3> QED BY <1>0, <2>1, <3>1, HaltedOK
  <2> QED BY <1>p, <2>1, <2>2, <2>3, BusyParts DEF BusyInv
<1>3. CASE WifiScanCommand
  <2>1. /\ radio' = Scanning(radio, requests + 1) /\ UNCHANGED <<ble, chain, link>>
        /\ requests \in Nat
    BY <1>3 DEF WifiScanCommand, ArbiterInv
  <2>2. radio'.scan # NoScan
    BY <1>0, <2>1 DEF Scanning, RadioState, NoScan
  <2> QED BY <1>p, <2>1, <2>2, BusyParts DEF BusyInv
<1>4. CASE WifiScanRefused
  <2>1. /\ ~ wifi.busy /\ UNCHANGED <<ble, radio, chain, link>>
        /\ wifi' = [wifi EXCEPT !.manual = TRUE, !.request = requests + 1, !.live = TRUE]
    BY <1>4 DEF WifiScanRefused, WifiFree
  <2>2. ~ wifi'.busy
    BY <1>0, <2>1 DEF WifiState
  <2> QED BY <1>p, <2>1, <2>2, BusyParts DEF BusyInv
<1>5. CASE BleScanCommand
  <2>1. /\ UNCHANGED <<wifi, radio, chain, link>>
        /\ ble' = [ble EXCEPT !.busy = TRUE, !.manual = TRUE, !.window = TRUE,
                              !.request = requests + 1, !.live = TRUE]
    BY <1>5 DEF BleScanCommand
  <2>2. ble'.window
    BY <1>0, <2>1 DEF BleState
  <2> QED BY <1>p, <2>1, <2>2, BusyParts DEF BusyInv
<1>6. CASE RadioDone
  <2>1. /\ UNCHANGED <<wifi, ble, chain, link>> /\ radio.scan # NoScan
        /\ radio' = Halted(radio)
    BY <1>6 DEF RadioDone
  <2>2. radio'.events = Append(radio.events, radio.scan)
    BY <1>0, <2>1, HaltedOK
  <2>3. radio.events \in Seq(Int) /\ radio.scan \in Int
    BY <1>0 DEF RadioState
  <2>4. Append(radio.events, radio.scan) # << >>
    BY <2>3
  <2> QED BY <1>p, <2>1, <2>2, <2>4, BusyParts DEF BusyInv
<1>7. CASE WifiScanDoneHandler
  <2>1. UNCHANGED <<ble, chain, link>> /\ wifi'.done
    BY <1>0, <1>7 DEF WifiScanDoneHandler, WifiState
  <2> QED BY <1>p, <2>1, BusyParts DEF BusyInv
<1>8. CASE WifiScanDoneManual \/ ContinueWifi
  <2> DEFINE w == [wifi EXCEPT !.done = FALSE]
  <2>1. UNCHANGED <<ble, link>> /\ w \in WifiState
    BY <1>0, <1>8 DEF WifiScanDoneManual, ContinueWifi, WifiState
  <2>2. CASE link = "auth"
    <3>1. PICK v \in WifiState : WifiSendNextBatch(v, 0)
      <4>1. CASE WifiScanDoneManual
        <5>1. chain.wifi = 0
          BY <1>0, <4>1 DEF WifiScanDoneManual, ArbiterInv, WifiOnePlace
        <5>2. WifiSendNextBatch(w, 0)
          BY <2>2, <4>1, <5>1 DEF WifiScanDoneManual, ClientThere
        <5> QED BY <2>1, <5>2
      <4>2. CASE ContinueWifi
        <5>1. chain.wifi - 1 = 0
          BY <1>0, <4>2 DEF ContinueWifi
        <5>2. WifiSendNextBatch(wifi, 0)
          BY <4>2, <5>1 DEF ContinueWifi
        <5> QED BY <1>0, <5>2
      <4> QED BY <1>8, <4>1, <4>2
    <3>2. (wifi'.busy => chain'.wifi > 0) /\ chain'.ble = chain.ble
      BY <1>0, <3>1, BatchFrees
    <3> QED BY <1>p, <2>1, <2>2, <3>2, BusyParts DEF BusyInv
  <2>3. CASE link # "auth"
    <3>1. WifiScanDoneManual
      BY <1>8, <2>3 DEF ContinueWifi
    <3>2. wifi' = [w EXCEPT !.busy = FALSE] /\ chain' = chain
      BY <2>3, <3>1 DEF WifiScanDoneManual, ClientThere
    <3>3. ~ wifi'.busy
      BY <2>1, <3>2 DEF WifiState
    <3> QED BY <1>p, <2>1, <3>2, <3>3, BusyParts DEF BusyInv
  <2> QED BY <2>2, <2>3
<1>9. CASE WindowCloseManual \/ ContinueBle
  <2> DEFINE b == [ble EXCEPT !.window = FALSE]
  <2>1. UNCHANGED <<wifi, radio, link>> /\ b \in BleState
    BY <1>0, <1>9 DEF WindowCloseManual, ContinueBle, BleState
  <2>2. CASE link = "auth"
    <3>1. PICK v \in BleState : BleSendNextBatch(v, 0)
      <4>1. CASE WindowCloseManual
        <5>1. chain.ble = 0
          BY <1>0, <4>1 DEF WindowCloseManual, ArbiterInv, BleClaim
        <5>2. BleSendNextBatch(b, 0)
          BY <2>2, <4>1, <5>1 DEF WindowCloseManual, ClientThere
        <5> QED BY <2>1, <5>2
      <4>2. CASE ContinueBle
        <5>1. chain.ble - 1 = 0
          BY <1>0, <4>2 DEF ContinueBle
        <5>2. BleSendNextBatch(ble, 0)
          BY <4>2, <5>1 DEF ContinueBle
        <5> QED BY <1>0, <5>2
      <4> QED BY <1>9, <4>1, <4>2
    <3>2. (ble'.busy => chain'.ble > 0) /\ chain'.wifi = chain.wifi
      BY <1>0, <3>1, BatchFrees
    <3> QED BY <1>p, <2>1, <2>2, <3>2, BusyParts DEF BusyInv
  <2>3. CASE link # "auth"
    <3>1. WindowCloseManual
      BY <1>9, <2>3 DEF ContinueBle
    <3>2. ble' = [b EXCEPT !.busy = FALSE] /\ chain' = chain
      BY <2>3, <3>1 DEF WindowCloseManual, ClientThere
    <3>3. ~ ble'.busy
      BY <2>1, <3>2 DEF BleState
    <3> QED BY <1>p, <2>1, <3>2, <3>3, BusyParts DEF BusyInv
  <2> QED BY <2>2, <2>3
<1>10. CASE WifiScanDoneWardriving \/ WifiInterval
  <2> DEFINE w == [wifi EXCEPT !.done = FALSE]
             v == [wifi EXCEPT !.interval = FALSE]
  <2>1. /\ w \in WifiState /\ w.active = wifi.active /\ w.manual = wifi.manual
        /\ v \in WifiState /\ v.active = wifi.active /\ v.manual = wifi.manual
    BY <1>0 DEF WifiState
  <2>2. UNCHANGED <<chain, link>>
    BY <1>10 DEF WifiScanDoneWardriving, WifiInterval
  <2>3. ~ wifi.manual
    BY <1>10 DEF WifiScanDoneWardriving, WifiInterval, ArbiterInv, WifiClaim
  <2>4. ~ wifi'.manual /\ (ble.manual \/ ble'.manual => ble' = ble)
    <3>1. CASE StopInternal(w, ble, disc) \/ StopInternal(v, ble, disc)
      <4> HIDE DEF w, v
      <4> QED BY <1>0, <2>1, <2>3, <3>1, StopKeepsManual
    <3>2. CASE ble' = ble /\ wifi' \in {w, v, Armed(w)}
      BY <1>0, <2>1, <2>3, <3>2 DEF Armed, WifiState
    <3> QED BY <1>10, <3>1, <3>2 DEF WifiScanDoneWardriving, WifiInterval
  <2> QED BY <1>p, <2>2, <2>4, BusyParts DEF BusyInv
<1>11. CASE WindowCloseWardriving \/ BleInterval
  <2> DEFINE b == [ble EXCEPT !.window = FALSE]
             c == [ble EXCEPT !.interval = FALSE]
  <2>1. /\ b \in BleState /\ b.active = ble.active /\ b.manual = ble.manual
        /\ c \in BleState /\ c.active = ble.active /\ c.manual = ble.manual
    BY <1>0 DEF BleState
  <2>2. UNCHANGED <<chain, link>>
    BY <1>11 DEF WindowCloseWardriving, BleInterval
  <2>3. ~ ble.manual
    BY <1>11 DEF WindowCloseWardriving, BleInterval, ArbiterInv, BleClaim
  <2>4. ~ ble'.manual /\ (wifi.manual \/ wifi'.manual => wifi' = wifi /\ radio' = radio)
    <3>1. CASE StopInternal(wifi, b, FALSE) \/ StopInternal(wifi, c, disc)
      <4> HIDE DEF b, c
      <4> QED BY <1>0, <2>1, <2>3, <3>1, StopKeepsManual
    <3>2. CASE /\ wifi' = wifi /\ radio' = radio
               /\ ble' \in {b, Armed(b), Armed(c), [c EXCEPT !.window = TRUE]}
      BY <1>0, <2>1, <2>3, <3>2 DEF Armed, BleState
    <3> QED BY <1>11, <3>1, <3>2 DEF WindowCloseWardriving, BleInterval
  <2> QED BY <1>p, <2>2, <2>4, BusyParts DEF BusyInv
<1>12. CASE Stop
  <2>1. StopInternal(wifi, ble, disc) /\ UNCHANGED <<chain, link>>
    BY <1>12 DEF Stop
  <2>2. /\ wifi.manual \/ wifi'.manual => wifi' = wifi /\ radio' = radio
        /\ ble.manual \/ ble'.manual => ble' = ble
    BY <1>0, <2>1, StopKeepsManual
  <2> QED BY <1>p, <2>1, <2>2, BusyParts DEF BusyInv
<1>13. ASSUME NEW s \in Sources, Start(s)
       PROVE  BusyInv'
  <2>1. PICK wifiOk \in BOOLEAN, bleOk \in BOOLEAN :
          StartInternal(s, wifiOk, bleOk, link, disc)
    BY <1>13 DEF Start
  <2>2. UNCHANGED <<chain, link>> /\ s.wifi \in BOOLEAN /\ s.ble \in BOOLEAN
    BY <1>13 DEF Start, Sources
  <2>3. wifi'.manual => wifi' = wifi /\ radio' = radio
    BY <1>0, <2>1, <2>2 DEF StartInternal, WifiState
  <2>4. ble'.manual => ble' = ble
    BY <1>0, <2>1, <2>2 DEF StartInternal, BleState
  <2> QED BY <1>p, <2>2, <2>3, <2>4, BusyParts DEF BusyInv
<1>14. CASE Restart
  <2> DEFINE s == IF enabled THEN want ELSE [wifi |-> FALSE, ble |-> FALSE]
  <2>1. s.wifi \in BOOLEAN /\ s.ble \in BOOLEAN /\ chain' = NoChain
    BY <1>14 DEF Sources, ArbiterInv, Restart
  <2>2. PICK wifiOk \in BOOLEAN, bleOk \in BOOLEAN :
        /\ wifi' = [WifiIdle EXCEPT !.manual = ~ s.wifi,
                                    !.busy = s.wifi /\ Starts(s, wifiOk, bleOk),
                                    !.active = s.wifi /\ Starts(s, wifiOk, bleOk)]
        /\ ble' = [BleIdle EXCEPT !.manual = ~ (s.ble /\ (s.wifi => wifiOk)),
                                  !.busy = s.ble /\ Starts(s, wifiOk, bleOk),
                                  !.active = s.ble /\ Starts(s, wifiOk, bleOk),
                                  !.window = s.ble /\ Starts(s, wifiOk, bleOk)]
        /\ radio' = IF ~ s.wifi \/ ~ wifiOk THEN RadioIdle
                    ELSE IF Starts(s, wifiOk, bleOk) THEN Scanning(RadioIdle, WardrivingScan)
                    ELSE Halted(Scanning(RadioIdle, WardrivingScan))
    BY <1>14 DEF Restart
  <2> HIDE DEF s
  <2>3. wifi'.manual = ~ s.wifi /\ wifi'.busy = (s.wifi /\ Starts(s, wifiOk, bleOk))
    BY <2>2 DEF WifiIdle
  <2>4. /\ ble'.manual = ~ (s.ble /\ (s.wifi => wifiOk))
        /\ ble'.busy = (s.ble /\ Starts(s, wifiOk, bleOk))
    BY <2>2 DEF BleIdle
  <2>5. ~ (wifi'.busy /\ wifi'.manual) /\ ~ (ble'.busy /\ ble'.manual)
    BY <2>1, <2>3, <2>4 DEF Starts
  <2> QED BY <1>p, <2>1, <2>5 DEF BusyInv
<1>15. CASE UNCHANGED vars
  BY <1>15 DEF vars, BusyInv, BusyIsReleased
<1>16. CASE WardrivingCommand \/ ButtonToggle
  <2>1. Stop \/ \E s \in Sources : Start(s)
    BY <1>16 DEF WardrivingCommand, ButtonToggle, ArbiterInv
  <2> QED BY <1>12, <1>13, <2>1
<1>17. CASE BleScanRefused
  <2>1. /\ ~ ble.busy /\ UNCHANGED <<wifi, radio, chain, link>>
        /\ ble' = [ble EXCEPT !.manual = TRUE, !.request = requests + 1, !.live = TRUE]
    BY <1>17 DEF BleScanRefused, BleFree
  <2>2. ~ ble'.busy
    BY <1>0, <2>1 DEF BleState
  <2> QED BY <1>p, <2>1, <2>2, BusyParts DEF BusyInv
<1> QED BY <1>1, <1>2, <1>3, <1>4, <1>5, <1>6, <1>7, <1>8, <1>9, <1>10, <1>11, <1>14, <1>15,
           <1>16, <1>17 DEF Next

\* wifi_scan_send_next_batch, ble_scan_send_next_batch and the scan handlers: as long as a
\* connection is not lost between two batches of results, a claimed source is always on its
\* way to be given back.
THEOREM SourcesAreReleased ==
  ASSUME "stale_scan_done" \notin Races, "drop_mid_chain" \notin Races
  PROVE  Spec => []BusyIsReleased
<1>1. Init => BusyInv
  BY ArbiterInit, BusyParts DEF BusyInv, Init, WifiIdle, BleIdle, NoChain
<1>2. ArbiterInv /\ ArbiterInv' /\ BusyInv /\ [Next]_vars => BusyInv'
  BY BusyStep
<1>3. Spec => []ArbiterInv
  BY ArbiterInvariant
<1>4. BusyInv => BusyIsReleased
  BY DEF BusyInv
<1> QED BY <1>1, <1>2, <1>3, <1>4, PTL DEF Spec

-----------------------------------------------------------------------------
(* A manual scan is answered with its own results.                          *)

\* Wherever the results of a manual scan are, they are the results of the last request.
OwnInv ==
  /\ AnswersOwnScan
  /\ wifi.manual =>
       /\ radio.scan # NoScan => radio.scan = wifi.request
       /\ radio.events # << >> => Head(radio.events) = wifi.request
       /\ wifi.done \/ chain.wifi > 0 => wifi.selected = wifi.request

\* The types of the flags, as separate facts.
LEMMA StateTypes ==
  ASSUME ArbiterInv
  PROVE  /\ wifi \in WifiState /\ ble \in BleState /\ radio \in RadioState
         /\ chain \in [wifi : 0 .. 1, ble : 0 .. 1]
         /\ disc \in BOOLEAN /\ answers \in Answers /\ want \in Sources
         /\ requests \in Nat
BY TypeParts DEF ArbiterInv

\* A command or the button stops wardriving, or starts it on some sources.
LEMMA ButtonOrCommand ==
  ASSUME ArbiterInv, WardrivingCommand \/ ButtonToggle
  PROVE  Stop \/ \E s \in Sources : Start(s)
BY StateTypes DEF WardrivingCommand, ButtonToggle

\* When wardriving stops or starts, or its passes go on, a source that is a client's stays
\* as it was.
LEMMA WardrivingKeepsManual ==
  ASSUME ArbiterInv,
         \/ WifiScanDoneWardriving \/ WifiInterval \/ WindowCloseWardriving \/ BleInterval
         \/ Stop \/ \E s \in Sources : Start(s)
  PROVE  /\ wifi'.manual => wifi' = wifi /\ radio' = radio
         /\ ble'.manual => ble' = ble
         /\ UNCHANGED <<mode, link, reconnect, chain, requests, answers>>
<1>0. wifi \in WifiState /\ ble \in BleState /\ radio \in RadioState /\ disc \in BOOLEAN
  BY StateTypes
<1> DEFINE w == [wifi EXCEPT !.done = FALSE]
           v == [wifi EXCEPT !.interval = FALSE]
           b == [ble EXCEPT !.window = FALSE]
           c == [ble EXCEPT !.interval = FALSE]
<1>1. /\ w \in WifiState /\ w.active = wifi.active /\ w.manual = wifi.manual
      /\ v \in WifiState /\ v.active = wifi.active /\ v.manual = wifi.manual
      /\ b \in BleState /\ b.active = ble.active /\ b.manual = ble.manual
      /\ c \in BleState /\ c.active = ble.active /\ c.manual = ble.manual
  BY <1>0 DEF WifiState, BleState
<1>2. CASE WifiScanDoneWardriving \/ WifiInterval
  <2>1. ~ wifi.manual
    BY <1>2 DEF WifiScanDoneWardriving, WifiInterval, ArbiterInv, WifiClaim
  <2>2. CASE StopInternal(w, ble, disc) \/ StopInternal(v, ble, disc)
    <3> HIDE DEF w, v
    <3>1. ~ wifi'.manual /\ (ble'.manual => ble' = ble)
      BY <1>0, <1>1, <2>1, <2>2, StopKeepsManual
    <3> QED BY <1>2, <3>1 DEF WifiScanDoneWardriving, WifiInterval
  <2>3. CASE ble' = ble /\ wifi' \in {w, v, Armed(w)}
    <3>1. ~ wifi'.manual
      BY <1>0, <2>1, <2>3 DEF Armed, WifiState
    <3> QED BY <1>2, <2>3, <3>1 DEF WifiScanDoneWardriving, WifiInterval
  <2> QED BY <1>2, <2>2, <2>3 DEF WifiScanDoneWardriving, WifiInterval
<1>3. CASE WindowCloseWardriving \/ BleInterval
  <2>1. ~ ble.manual
    BY <1>3 DEF WindowCloseWardriving, BleInterval, ArbiterInv, BleClaim
  <2>2. CASE StopInternal(wifi, b, FALSE) \/ StopInternal(wifi, c, disc)
    <3> HIDE DEF b, c
    <3>1. ~ ble'.manual /\ (wifi'.manual => wifi' = wifi /\ radio' = radio)
      BY <1>0, <1>1, <2>1, <2>2, StopKeepsManual
    <3> QED BY <1>3, <3>1 DEF WindowCloseWardriving, BleInterval
  <2>3. CASE /\ wifi' = wifi /\ radio' = radio
             /\ ble' \in {b, Armed(b), Armed(c), [c EXCEPT !.window = TRUE]}
    <3>1. ~ ble'.manual
      BY <1>0, <2>1, <2>3 DEF Armed, BleState
    <3> QED BY <1>3, <2>3, <3>1 DEF WindowCloseWardriving, BleInterval
  <2> QED BY <1>3, <2>2, <2>3 DEF WindowCloseWardriving, BleInterval
<1>4. CASE Stop
  <2>1. /\ StopInternal(wifi, ble, disc)
        /\ UNCHANGED <<mode, link, reconnect, chain, requests, answers>>
    BY <1>4 DEF Stop
  <2> QED BY <1>0, <2>1, StopKeepsManual
<1>5. ASSUME NEW s \in Sources, Start(s)
      PROVE  /\ wifi'.manual => wifi' = wifi /\ radio' = radio
             /\ ble'.manual => ble' = ble
             /\ UNCHANGED <<mode, link, reconnect, chain, requests, answers>>
  <2>1. PICK wifiOk \in BOOLEAN, bleOk \in BOOLEAN :
          StartInternal(s, wifiOk, bleOk, link, disc)
    BY <1>5 DEF Start
  <2>2. /\ UNCHANGED <<mode, link, reconnect, chain, requests, answers>>
        /\ s.wifi \in BOOLEAN /\ s.ble \in BOOLEAN
    BY <1>5 DEF Start, Sources
  <2>3. wifi'.manual => wifi' = wifi /\ radio' = radio
    BY <1>0, <2>1, <2>2 DEF StartInternal, WifiState
  <2>4. ble'.manual => ble' = ble
    BY <1>0, <2>1, <2>2 DEF StartInternal, BleState
  <2> QED BY <2>2, <2>3, <2>4
<1> QED BY <1>2, <1>3, <1>4, <1>5

\* A batch of the results of a claimed source says whose results they are.
LEMMA BatchAnswers ==
  /\ \A w \in WifiState :
       WifiSendNextBatch(w, 0) /\ chain \in [wifi : 0 .. 1, ble : 0 .. 1] =>
         /\ wifi'.manual = w.manual /\ wifi'.selected = w.selected
         /\ wifi'.request = w.request /\ wifi'.live = w.live /\ wifi'.done = w.done
         /\ wifi'.busy => w.busy
         /\ answers' \in {answers, answers \cup {Answer(w.selected, w.request, w.live)}}
  /\ \A b \in BleState :
       BleSendNextBatch(b, 0) /\ chain \in [wifi : 0 .. 1, ble : 0 .. 1] =>
         /\ ble'.manual = b.manual /\ ble'.live = b.live
         /\ ble'.busy => b.busy
         /\ chain'.wifi = chain.wifi
         /\ answers' \in {answers, answers \cup {Answer(b.request, b.request, b.live)}}
<1>1. ASSUME NEW w \in WifiState, WifiSendNextBatch(w, 0)
      PROVE  /\ wifi'.manual = w.manual /\ wifi'.selected = w.selected
             /\ wifi'.request = w.request /\ wifi'.live = w.live /\ wifi'.done = w.done
             /\ wifi'.busy => w.busy
             /\ answers' \in {answers, answers \cup {Answer(w.selected, w.request, w.live)}}
  <2>1. PICK outcome \in Outcomes :
          /\ wifi' = [w EXCEPT !.busy = @ /\ BusyAfter(outcome)]
          /\ answers' = Sent(outcome, Answer(w.selected, w.request, w.live))
    BY <1>1 DEF WifiSendNextBatch
  <2> QED BY <1>1, <2>1 DEF Sent, WifiState
<1>2. ASSUME NEW b \in BleState, BleSendNextBatch(b, 0),
             chain \in [wifi : 0 .. 1, ble : 0 .. 1]
      PROVE  /\ ble'.manual = b.manual /\ ble'.live = b.live
             /\ ble'.busy => b.busy
             /\ chain'.wifi = chain.wifi
             /\ answers' \in {answers, answers \cup {Answer(b.request, b.request, b.live)}}
  <2>1. PICK outcome \in Outcomes :
          /\ ble' = [b EXCEPT !.busy = @ /\ BusyAfter(outcome)]
          /\ chain' = [chain EXCEPT !.ble = IF outcome = "partial" THEN 0 + 1 ELSE 0]
          /\ answers' = Sent(outcome, Answer(b.request, b.request, b.live))
    BY <1>2 DEF BleSendNextBatch
  <2> QED BY <1>2, <2>1 DEF Sent, BleState
<1> QED BY <1>1, <1>2

\* What a restart leaves of a source that is a client's.
LEMMA RestartFlags ==
  ASSUME ArbiterInv, Restart
  PROVE  /\ ~ wifi'.done /\ (wifi'.manual => radio' = RadioIdle)
         /\ ~ (wifi'.busy /\ wifi'.manual) /\ ~ (ble'.busy /\ ble'.manual)
         /\ ble'.window => ble'.active
<1> DEFINE s == IF enabled THEN want ELSE [wifi |-> FALSE, ble |-> FALSE]
<1>1. s.wifi \in BOOLEAN /\ s.ble \in BOOLEAN
  BY StateTypes DEF Sources
<1>2. PICK wifiOk \in BOOLEAN, bleOk \in BOOLEAN :
        /\ wifi' = [WifiIdle EXCEPT !.manual = ~ s.wifi,
                                    !.busy = s.wifi /\ Starts(s, wifiOk, bleOk),
                                    !.active = s.wifi /\ Starts(s, wifiOk, bleOk)]
        /\ ble' = [BleIdle EXCEPT !.manual = ~ (s.ble /\ (s.wifi => wifiOk)),
                                  !.busy = s.ble /\ Starts(s, wifiOk, bleOk),
                                  !.active = s.ble /\ Starts(s, wifiOk, bleOk),
                                  !.window = s.ble /\ Starts(s, wifiOk, bleOk)]
        /\ radio' = IF ~ s.wifi \/ ~ wifiOk THEN RadioIdle
                    ELSE IF Starts(s, wifiOk, bleOk) THEN Scanning(RadioIdle, WardrivingScan)
                    ELSE Halted(Scanning(RadioIdle, WardrivingScan))
  BY DEF Restart
<1> HIDE DEF s
<1>3. /\ wifi'.manual = ~ s.wifi /\ wifi'.busy = (s.wifi /\ Starts(s, wifiOk, bleOk))
      /\ ~ wifi'.done
  BY <1>2 DEF WifiIdle
<1>4. /\ ble'.manual = ~ (s.ble /\ (s.wifi => wifiOk))
      /\ ble'.busy = (s.ble /\ Starts(s, wifiOk, bleOk))
      /\ ble'.active = (s.ble /\ Starts(s, wifiOk, bleOk))
      /\ ble'.window = (s.ble /\ Starts(s, wifiOk, bleOk))
  BY <1>2 DEF BleIdle
<1> QED BY <1>1, <1>2, <1>3, <1>4 DEF Starts

\* The handlers that send Wi-Fi results run on a source a client has claimed, and send what
\* was selected for it to a connection that is authenticated.
LEMMA WifiResultsSent ==
  ASSUME ArbiterInv, WifiScanDoneManual \/ ContinueWifi
  PROVE  /\ wifi.busy /\ wifi.manual /\ (wifi.done \/ chain.wifi > 0)
         /\ radio.scan = NoScan /\ radio.events = << >>
         /\ wifi'.manual = wifi.manual /\ wifi'.selected = wifi.selected
         /\ wifi'.request = wifi.request /\ wifi'.live = wifi.live
         /\ wifi'.busy => wifi.busy
         /\ \/ answers' = answers
            \/ /\ link = "auth"
               /\ answers' = answers \cup {Answer(wifi.selected, wifi.request, wifi.live)}
         /\ UNCHANGED <<mode, link, disc, reconnect, ble, radio, requests>>
<1>0. wifi \in WifiState /\ chain \in [wifi : 0 .. 1, ble : 0 .. 1]
  BY StateTypes
<1>1. CASE ContinueWifi
  <2>1. chain.wifi - 1 = 0 /\ link = "auth"
    BY <1>0, <1>1 DEF ContinueWifi
  <2>2. /\ WifiSendNextBatch(wifi, 0)
        /\ UNCHANGED <<mode, link, disc, reconnect, ble, radio, requests>>
    BY <1>1, <2>1 DEF ContinueWifi
  <2>3. /\ wifi.busy /\ wifi.manual /\ chain.wifi > 0
        /\ radio.scan = NoScan /\ radio.events = << >>
    BY <1>1 DEF ContinueWifi, ArbiterInv, WifiOnePlace
  <2> QED BY <1>0, <2>1, <2>2, <2>3, BatchAnswers
<1>2. CASE WifiScanDoneManual
  <2> DEFINE w == [wifi EXCEPT !.done = FALSE]
  <2>1. /\ w \in WifiState /\ w.manual = wifi.manual /\ w.selected = wifi.selected
        /\ w.request = wifi.request /\ w.live = wifi.live /\ w.busy = wifi.busy
    BY <1>0 DEF WifiState
  <2>2. /\ wifi.busy /\ wifi.manual /\ wifi.done /\ chain.wifi = 0
        /\ radio.scan = NoScan /\ radio.events = << >>
        /\ UNCHANGED <<mode, link, disc, reconnect, ble, radio, requests>>
    BY <1>0, <1>2 DEF WifiScanDoneManual, ArbiterInv, WifiOnePlace
  <2>3. CASE link = "auth"
    <3>1. WifiSendNextBatch(w, 0)
      BY <1>2, <2>2, <2>3 DEF WifiScanDoneManual, ClientThere
    <3> HIDE DEF w
    <3> QED BY <1>0, <2>1, <2>2, <2>3, <3>1, BatchAnswers
  <2>4. CASE link # "auth"
    <3>1. wifi' = [w EXCEPT !.busy = FALSE] /\ answers' = answers
      BY <1>2, <2>4 DEF WifiScanDoneManual, ClientThere
    <3> HIDE DEF w
    <3>2. /\ wifi'.manual = w.manual /\ wifi'.selected = w.selected
          /\ wifi'.request = w.request /\ wifi'.live = w.live /\ ~ wifi'.busy
      BY <2>1, <3>1 DEF WifiState
    <3> QED BY <2>1, <2>2, <3>1, <3>2
  <2> QED BY <2>3, <2>4
<1> QED BY <1>1, <1>2

\* The same of the handlers that send BLE results.
LEMMA BleResultsSent ==
  ASSUME ArbiterInv, WindowCloseManual \/ ContinueBle
  PROVE  /\ ble.busy /\ ble.manual
         /\ ble'.manual = ble.manual /\ ble'.live = ble.live
         /\ ble'.busy => ble.busy
         /\ \/ answers' = answers
            \/ /\ link = "auth"
               /\ answers' = answers \cup {Answer(ble.request, ble.request, ble.live)}
         /\ chain'.wifi = chain.wifi
         /\ UNCHANGED <<mode, link, reconnect, wifi, radio, requests>>
<1>0. ble \in BleState /\ chain \in [wifi : 0 .. 1, ble : 0 .. 1]
  BY StateTypes
<1>1. CASE ContinueBle
  <2>1. chain.ble - 1 = 0 /\ link = "auth"
    BY <1>0, <1>1 DEF ContinueBle
  <2>2. /\ BleSendNextBatch(ble, 0)
        /\ UNCHANGED <<mode, link, reconnect, wifi, radio, requests>>
    BY <1>1, <2>1 DEF ContinueBle
  <2>3. ble.busy /\ ble.manual
    BY <1>1 DEF ContinueBle, ArbiterInv, BleClaim
  <2> QED BY <1>0, <2>1, <2>2, <2>3, BatchAnswers
<1>2. CASE WindowCloseManual
  <2> DEFINE b == [ble EXCEPT !.window = FALSE]
  <2>1. /\ b \in BleState /\ b.manual = ble.manual /\ b.request = ble.request
        /\ b.live = ble.live /\ b.busy = ble.busy
    BY <1>0 DEF BleState
  <2>2. /\ ble.busy /\ ble.manual /\ chain.ble = 0
        /\ UNCHANGED <<mode, link, reconnect, wifi, radio, requests>>
    BY <1>0, <1>2 DEF WindowCloseManual, ArbiterInv, BleClaim
  <2>3. CASE link = "auth"
    <3>1. BleSendNextBatch(b, 0)
      BY <1>2, <2>2, <2>3 DEF WindowCloseManual, ClientThere
    <3> HIDE DEF b
    <3> QED BY <1>0, <2>1, <2>2, <2>3, <3>1, BatchAnswers
  <2>4. CASE link # "auth"
    <3>1. ble' = [b EXCEPT !.busy = FALSE] /\ answers' = answers /\ chain' = chain
      BY <1>2, <2>4 DEF WindowCloseManual, ClientThere
    <3> HIDE DEF b
    <3>2. ble'.manual = b.manual /\ ble'.live = b.live /\ ~ ble'.busy
      BY <2>1, <3>1 DEF BleState
    <3> QED BY <2>1, <2>2, <3>1, <3>2
  <2> QED BY <2>3, <2>4
<1> QED BY <1>1, <1>2

\* The results of a manual scan stay its own on their way to the client.
LEMMA OwnStep ==
  ASSUME ArbiterInv, OwnInv, [Next]_vars, "stale_scan_done" \notin Races
  PROVE  OwnInv'
<1>0. /\ wifi \in WifiState /\ radio \in RadioState /\ chain \in [wifi : 0 .. 1, ble : 0 .. 1]
  BY StateTypes
<1>1. CASE \/ FindPeer \/ ConnectFails \/ Connect \/ Authenticate
           \/ ReconnectTimer \/ DiscComplete \/ WindowExpires
  <2>1. UNCHANGED <<wifi, radio, answers>> /\ chain' \in {chain, NoChain}
    BY <1>1 DEF FindPeer, ConnectFails, Connect, Authenticate, ReconnectTimer, DiscComplete,
                WindowExpires
  <2> QED BY <2>1 DEF OwnInv, AnswersOwnScan, NoChain
<1>2. CASE Disconnect
  <2>1. /\ wifi' = Dropped(wifi) /\ chain' = NoChain /\ answers' = answers
        /\ radio' = IF wifi.busy /\ wifi.manual THEN Halted(radio) ELSE radio
    BY <1>2 DEF Disconnect
  <2>2. /\ wifi'.manual = wifi.manual /\ wifi'.request = wifi.request
        /\ wifi'.selected = wifi.selected /\ wifi'.done = wifi.done /\ chain'.wifi = 0
    BY <1>0, <2>1 DEF Dropped, WifiState, NoChain
  <2>3. CASE radio' = radio
    BY <2>1, <2>2, <2>3 DEF OwnInv, AnswersOwnScan
  <2>4. CASE radio' # radio
    <3>1. wifi.manual /\ radio.scan # NoScan /\ radio' = Halted(radio)
      BY <1>0, <2>1, <2>4, HaltedOK
    <3>2. /\ radio'.scan = NoScan /\ radio'.events = Append(<< >>, radio.scan)
          /\ radio.scan = wifi.request
      BY <1>0, <3>1, HaltedOK DEF OwnInv, ArbiterInv, WifiOnePlace
    <3>3. Head(Append(<< >>, radio.scan)) = radio.scan
      OBVIOUS
    <3> QED BY <2>1, <2>2, <3>2, <3>3 DEF OwnInv, AnswersOwnScan
  <2> QED BY <2>3, <2>4
<1>3. CASE WifiScanCommand
  <2>1. /\ radio.events = << >> /\ ~ wifi.done /\ ~ wifi.busy
        /\ radio' = Scanning(radio, requests + 1)
        /\ wifi' = [wifi EXCEPT !.busy = TRUE, !.manual = TRUE, !.request = requests + 1,
                                !.live = TRUE]
        /\ UNCHANGED <<chain, answers>>
    BY <1>3 DEF WifiScanCommand, WifiFree, DoneIsPending
  <2>2. chain.wifi = 0
    BY <1>0, <2>1 DEF ArbiterInv, WifiOnePlace
  <2>3. radio'.scan = requests + 1 /\ radio'.events = << >>
    BY <1>0, <2>1 DEF Scanning, RadioState
  <2>4. wifi'.request = requests + 1 /\ ~ wifi'.done
    BY <1>0, <2>1 DEF WifiState
  <2> QED BY <2>1, <2>2, <2>3, <2>4 DEF OwnInv, AnswersOwnScan
<1>4. CASE WifiScanRefused
  <2>1. /\ radio.events = << >> /\ ~ wifi.done /\ ~ wifi.busy
        /\ wifi' = [wifi EXCEPT !.manual = TRUE, !.request = requests + 1, !.live = TRUE]
        /\ UNCHANGED <<chain, answers, radio>>
    BY <1>4 DEF WifiScanRefused, WifiFree, DoneIsPending
  <2>2. chain.wifi = 0 /\ radio.scan = NoScan
    BY <1>0, <2>1 DEF ArbiterInv, WifiOnePlace, WifiClaim
  <2>3. ~ wifi'.done
    BY <1>0, <2>1 DEF WifiState
  <2> QED BY <2>1, <2>2, <2>3 DEF OwnInv, AnswersOwnScan
<1>5. CASE BleScanCommand \/ BleScanRefused
  BY <1>5 DEF BleScanCommand, BleScanRefused, OwnInv, AnswersOwnScan
<1>6. CASE RadioDone
  <2>1. radio.scan # NoScan /\ radio' = Halted(radio) /\ UNCHANGED <<wifi, chain, answers>>
    BY <1>6 DEF RadioDone
  <2>2. CASE wifi.manual
    <3>1. /\ radio'.scan = NoScan /\ radio'.events = Append(<< >>, radio.scan)
          /\ radio.scan = wifi.request
      BY <1>0, <2>1, <2>2, HaltedOK DEF OwnInv, ArbiterInv, WifiOnePlace
    <3>2. Head(Append(<< >>, radio.scan)) = radio.scan
      OBVIOUS
    <3> QED BY <2>1, <3>1, <3>2 DEF OwnInv, AnswersOwnScan
  <2>3. CASE ~ wifi.manual
    BY <2>1, <2>3 DEF OwnInv, AnswersOwnScan
  <2> QED BY <2>2, <2>3
<1>7. CASE WifiScanDoneHandler
  <2>1. /\ radio.events # << >> /\ radio' = [radio EXCEPT !.events = Tail(@)]
        /\ UNCHANGED <<chain, answers>>
    BY <1>7 DEF WifiScanDoneHandler
  <2>2. CASE wifi.manual
    <3>1. wifi' = [wifi EXCEPT !.done = TRUE, !.selected = Head(radio.events)]
      BY <1>7, <2>2 DEF WifiScanDoneHandler
    <3>2. wifi'.selected = Head(radio.events) /\ wifi'.request = wifi.request
      BY <1>0, <3>1 DEF WifiState
    <3>3. /\ Len(radio.events) = 1 /\ radio.scan = NoScan
          /\ Head(radio.events) = wifi.request
      BY <2>1, <2>2 DEF ArbiterInv, WifiOnePlace, OwnInv
    <3>4. radio'.scan = NoScan /\ radio'.events = << >>
      BY <1>0, <2>1, <3>3 DEF RadioState
    <3> QED BY <2>1, <3>2, <3>3, <3>4 DEF OwnInv, AnswersOwnScan
  <2>3. CASE ~ wifi.manual
    <3>1. wifi' = [wifi EXCEPT !.done = TRUE, !.selected = wifi.selected]
      BY <1>7, <2>3 DEF WifiScanDoneHandler
    <3>2. ~ wifi'.manual
      BY <1>0, <2>3, <3>1 DEF WifiState
    <3> QED BY <2>1, <3>2 DEF OwnInv, AnswersOwnScan
  <2> QED BY <2>2, <2>3
<1>8. CASE WifiScanDoneManual \/ ContinueWifi
  <2>1. wifi.selected = wifi.request
    BY <1>8, WifiResultsSent DEF OwnInv
  <2>2. AnswersOwnScan'
    BY <1>8, <2>1, WifiResultsSent DEF OwnInv, AnswersOwnScan, Answer
  <2>3. /\ wifi'.selected = wifi'.request /\ radio'.scan = NoScan /\ radio'.events = << >>
    BY <1>8, <2>1, WifiResultsSent
  <2> QED BY <2>2, <2>3 DEF OwnInv
<1>9. CASE WindowCloseManual \/ ContinueBle
  <2>1. AnswersOwnScan'
    BY <1>9, BleResultsSent DEF OwnInv, AnswersOwnScan, Answer
  <2> QED BY <1>9, <2>1, BleResultsSent DEF OwnInv
<1>10. CASE WifiScanDoneWardriving \/ WifiInterval \/ WindowCloseWardriving \/ BleInterval
  BY <1>10, WardrivingKeepsManual DEF OwnInv, AnswersOwnScan
<1>11. CASE WardrivingCommand \/ ButtonToggle
  <2>1. /\ wifi'.manual => wifi' = wifi /\ radio' = radio
        /\ UNCHANGED <<chain, answers>>
    BY <1>11, ButtonOrCommand, WardrivingKeepsManual
  <2> QED BY <2>1 DEF OwnInv, AnswersOwnScan
<1>12. CASE Restart
  <2>1. chain' = NoChain /\ answers' = answers
    BY <1>12 DEF Restart
  <2>2. wifi'.manual => radio' = RadioIdle
    BY <1>12, RestartFlags
  <2>3. ~ wifi'.done
    BY <1>12, RestartFlags
  <2> QED BY <2>1, <2>2, <2>3 DEF OwnInv, AnswersOwnScan, RadioIdle, NoChain
<1>13. CASE UNCHANGED vars
  BY <1>13 DEF vars, OwnInv, AnswersOwnScan
<1> QED BY <1>1, <1>2, <1>3, <1>4, <1>5, <1>6, <1>7, <1>8, <1>9, <1>10, <1>11, <1>12, <1>13
        DEF Next

\* wifi_scan_done_handler and wifi_scan_send_next_batch: a client is answered with the results
\* of the scan that was started for its request, unless it asks while the event of a stopped
\* scan is on its way.
THEOREM ScansAnswerTheirRequest ==
  ASSUME "stale_scan_done" \notin Races
  PROVE  Spec => []AnswersOwnScan
<1>1. Init => OwnInv
  BY DEF Init, OwnInv, AnswersOwnScan, WifiIdle, RadioIdle, NoChain
<1>2. ArbiterInv /\ OwnInv /\ [Next]_vars => OwnInv'
  BY OwnStep
<1>3. Spec => []ArbiterInv
  BY ArbiterInvariant
<1>4. OwnInv => AnswersOwnScan
  BY DEF OwnInv
<1> QED BY <1>1, <1>2, <1>3, <1>4, PTL DEF Spec

-----------------------------------------------------------------------------
(* Results go to the connection that asked for them.                        *)

\* On an authenticated connection, a claimed source is claimed by this connection.
LiveInv ==
  /\ AnswersLiveRequest
  /\ link = "auth" /\ wifi.busy /\ wifi.manual => wifi.live
  /\ link = "auth" /\ ble.busy /\ ble.manual => ble.live

\* A connection that authenticates only when the scans of the lost one are over inherits none
\* of their results.
LEMMA LiveStep ==
  ASSUME ArbiterInv, LiveInv, [Next]_vars, "fast_reconnect" \notin Races
  PROVE  LiveInv'
<1>0. wifi \in WifiState /\ ble \in BleState
  BY StateTypes
<1>1. CASE FindPeer \/ ConnectFails \/ Connect \/ ReconnectTimer \/ DiscComplete
           \/ WindowExpires
  <2>1. UNCHANGED <<wifi, ble, answers>> /\ (link' = "auth" => link = "auth")
    BY <1>1 DEF FindPeer, ConnectFails, Connect, ReconnectTimer, DiscComplete, WindowExpires
  <2> QED BY <2>1 DEF LiveInv, AnswersLiveRequest
<1>2. CASE Authenticate
  BY <1>2 DEF Authenticate, ManualPending, LiveInv, AnswersLiveRequest
<1>3. CASE Disconnect
  BY <1>3 DEF Disconnect, LiveInv, AnswersLiveRequest
<1>4. CASE WifiScanCommand
  <2>1. /\ wifi' = [wifi EXCEPT !.busy = TRUE, !.manual = TRUE, !.request = requests + 1,
                                !.live = TRUE]
        /\ UNCHANGED <<link, ble, answers>>
    BY <1>4 DEF WifiScanCommand
  <2>2. wifi'.live
    BY <1>0, <2>1 DEF WifiState
  <2> QED BY <2>1, <2>2 DEF LiveInv, AnswersLiveRequest
<1>5. CASE WifiScanRefused
  <2>1. /\ wifi' = [wifi EXCEPT !.manual = TRUE, !.request = requests + 1, !.live = TRUE]
        /\ UNCHANGED <<link, ble, answers>>
    BY <1>5 DEF WifiScanRefused
  <2>2. wifi'.live
    BY <1>0, <2>1 DEF WifiState
  <2> QED BY <2>1, <2>2 DEF LiveInv, AnswersLiveRequest
<1>6. CASE BleScanCommand
  <2>1. /\ ble' = [ble EXCEPT !.busy = TRUE, !.manual = TRUE, !.window = TRUE,
                              !.request = requests + 1, !.live = TRUE]
        /\ UNCHANGED <<link, wifi, answers>>
    BY <1>6 DEF BleScanCommand
  <2>2. ble'.live
    BY <1>0, <2>1 DEF BleState
  <2> QED BY <2>1, <2>2 DEF LiveInv, AnswersLiveRequest
<1>7. CASE RadioDone
  BY <1>7 DEF RadioDone, LiveInv, AnswersLiveRequest
<1>8. CASE WifiScanDoneHandler
  <2>1. /\ wifi' = [wifi EXCEPT !.done = TRUE,
                                !.selected = IF wifi.manual THEN Head(radio.events) ELSE @]
        /\ UNCHANGED <<link, ble, answers>>
    BY <1>8 DEF WifiScanDoneHandler
  <2>2. /\ wifi'.busy = wifi.busy /\ wifi'.manual = wifi.manual /\ wifi'.live = wifi.live
    BY <1>0, <2>1 DEF WifiState
  <2> QED BY <2>1, <2>2 DEF LiveInv, AnswersLiveRequest
<1>9. CASE WifiScanDoneManual \/ ContinueWifi
  <2>1. AnswersLiveRequest'
    BY <1>9, WifiResultsSent DEF LiveInv, AnswersLiveRequest, Answer
  <2> QED BY <1>9, <2>1, WifiResultsSent DEF LiveInv
<1>10. CASE WindowCloseManual \/ ContinueBle
  <2>1. AnswersLiveRequest'
    BY <1>10, BleResultsSent DEF LiveInv, AnswersLiveRequest, Answer
  <2> QED BY <1>10, <2>1, BleResultsSent DEF LiveInv
<1>11. CASE WifiScanDoneWardriving \/ WifiInterval \/ WindowCloseWardriving \/ BleInterval
  BY <1>11, WardrivingKeepsManual DEF LiveInv, AnswersLiveRequest
<1>12. CASE WardrivingCommand \/ ButtonToggle
  <2>1. /\ wifi'.manual => wifi' = wifi
        /\ ble'.manual => ble' = ble
        /\ UNCHANGED <<link, answers>>
    BY <1>12, ButtonOrCommand, WardrivingKeepsManual
  <2> QED BY <2>1 DEF LiveInv, AnswersLiveRequest
<1>13. CASE Restart
  BY <1>13 DEF Restart, LiveInv, AnswersLiveRequest
<1>14. CASE UNCHANGED vars
  BY <1>14 DEF vars, LiveInv, AnswersLiveRequest
<1>15. CASE BleScanRefused
  <2>1. /\ ble' = [ble EXCEPT !.manual = TRUE, !.request = requests + 1, !.live = TRUE]
        /\ UNCHANGED <<link, wifi, answers>>
    BY <1>15 DEF BleScanRefused
  <2>2. ble'.live
    BY <1>0, <2>1 DEF BleState
  <2> QED BY <2>1, <2>2 DEF LiveInv, AnswersLiveRequest
<1> QED BY <1>1, <1>2, <1>3, <1>4, <1>5, <1>6, <1>7, <1>8, <1>9, <1>10, <1>11, <1>12, <1>13,
           <1>14, <1>15 DEF Next

\* wifi_scan_done_cb and ble_scan_window_close_cb, which test only that some client is
\* authenticated: the results still reach none but the connection that asked, as long as no
\* client authenticates before the scan of the lost connection is over.
THEOREM ScansAnswerTheirClient ==
  ASSUME "stale_scan_done" \notin Races, "fast_reconnect" \notin Races
  PROVE  Spec => []AnswersLiveRequest
<1>1. Init => LiveInv
  BY DEF Init, LiveInv, AnswersLiveRequest
<1>2. ArbiterInv /\ LiveInv /\ [Next]_vars => LiveInv'
  BY LiveStep
<1>3. Spec => []ArbiterInv
  BY ArbiterInvariant
<1>4. LiveInv => AnswersLiveRequest
  BY DEF LiveInv
<1> QED BY <1>1, <1>2, <1>3, <1>4, PTL DEF Spec

-----------------------------------------------------------------------------
(* The search for the Flipper goes on.                                      *)

\* A callout that will cancel discovery, armed for nobody, meets no search for the Flipper.
SearchInv ==
  /\ KeepsLookingForPeer
  /\ ble.window /\ ~ ble.active => link \in {"up", "auth"}

\* A stop of wardriving ends the discovery only when it ran its own windows, and then, while
\* no client is connected, only with the timing the assumption rules out.
LEMMA StopKeepsSearch ==
  ASSUME ArbiterInv, SearchInv, "stop_while_down" \notin Races,
         NEW w, NEW b \in BleState, NEW d \in BOOLEAN, StopInternal(w, b, d),
         b.active = ble.active, b.window => ble.window,
         d = disc \/ ble.window, UNCHANGED <<link, mode, reconnect>>
  PROVE  SearchInv'
<1>1. /\ b.active => link \notin {"none", "connecting"}
      /\ ble' = Stopped(b) /\ disc' = (d /\ ~ b.active)
  BY DEF StopInternal
<1>2. link \in {"none", "connecting", "up", "auth"} /\ ble \in BleState /\ disc \in BOOLEAN
  BY TypeParts DEF ArbiterInv
<1>3. CASE ble.active
  <2>1. link' \in {"up", "auth"}
    BY <1>1, <1>2, <1>3
  <2> QED BY <2>1 DEF SearchInv, KeepsLookingForPeer
<1>4. CASE ~ ble.active
  <2>1. ble' = b /\ disc' = d
    BY <1>1, <1>4 DEF Stopped
  <2>2. CASE ble.window
    <3>1. link' \in {"up", "auth"}
      BY <1>4, <2>2 DEF SearchInv
    <3> QED BY <3>1 DEF SearchInv, KeepsLookingForPeer
  <2>3. CASE ~ ble.window
    BY <1>4, <2>1, <2>3 DEF SearchInv, KeepsLookingForPeer
  <2> QED BY <2>2, <2>3
<1> QED BY <1>3, <1>4

\* Each step keeps the search alive, or hands it over to a retry or to wardriving.
LEMMA SearchStep ==
  ASSUME ArbiterInv, ArbiterInv', SearchInv, [Next]_vars,
         "drop_in_window" \notin Races, "stop_while_down" \notin Races,
         "disc_error" \notin Races
  PROVE  SearchInv'
<1>0. /\ ble \in BleState /\ disc \in BOOLEAN /\ disc' \in BOOLEAN
      /\ reconnect \in BOOLEAN
      /\ link \in {"none", "connecting", "up", "auth"}
      /\ (ble'.active => ble'.window \/ ble'.interval)
      /\ mode \in {"runtime", "open", "closed"}
  BY TypeParts DEF ArbiterInv, TypeOK, DutyCycleAlive
<1>1. CASE FindPeer \/ ConnectFails \/ Connect \/ Authenticate
  BY <1>0, <1>1 DEF FindPeer, ConnectFails, Connect, Authenticate, ScheduleReconnect,
                    SearchInv, KeepsLookingForPeer
<1>2. CASE ReconnectTimer \/ DiscComplete
  <2>1. /\ UNCHANGED <<mode, link, ble>>
        /\ reconnect' \/ \E d \in BOOLEAN : disc' \in StartScan(link, mode, d)
    BY <1>0, <1>2 DEF ReconnectTimer, DiscComplete
  <2> QED BY <1>0, <2>1 DEF StartScan, SearchInv, KeepsLookingForPeer
<1>3. CASE WindowExpires
  BY <1>3 DEF WindowExpires, SearchInv, KeepsLookingForPeer
<1>4. CASE Disconnect
  <2>1. ble' = Dropped(ble) /\ (ble.window => ble.active) /\ link' = "none"
    BY <1>4 DEF Disconnect
  <2>2. ble'.window = ble.window /\ ble'.active = ble.active
    BY <1>0, <2>1 DEF Dropped, BleState
  <2>3. PICK reason \in {"normal", "unknown_board", "auth_failed"} :
          LET d == disc /\ ~ (ble.busy /\ ble.manual)
          IN /\ mode' = ModeAfter(reason)
             /\ disc' \in IF SearchAfter(reason) = "scan"
                          THEN StartScan("none", ModeAfter(reason), d) ELSE {d}
             /\ reconnect' = (reconnect \/ SearchAfter(reason) = "backoff")
    BY <1>4 DEF Disconnect
  <2>4. mode' # "closed" => reconnect' \/ disc' \/ ble.active
    BY <2>3 DEF ModeAfter, SearchAfter, StartScan
  <2> QED BY <1>0, <2>1, <2>2, <2>4 DEF SearchInv, KeepsLookingForPeer
<1>5. CASE WifiScanCommand \/ WifiScanRefused \/ BleScanCommand \/ BleScanRefused
  BY <1>5 DEF WifiScanCommand, WifiScanRefused, BleScanCommand, BleScanRefused, SearchInv,
              KeepsLookingForPeer
<1>6. CASE RadioDone \/ WifiScanDoneHandler \/ WifiScanDoneManual \/ ContinueWifi
  <2>1. UNCHANGED <<mode, link, disc, reconnect, ble>>
    BY <1>6 DEF RadioDone, WifiScanDoneHandler, WifiScanDoneManual, ContinueWifi
  <2> QED BY <2>1 DEF SearchInv, KeepsLookingForPeer
<1>7. CASE ContinueBle
  BY <1>7 DEF ContinueBle, SearchInv, KeepsLookingForPeer
<1>8. CASE WindowCloseManual
  <2>1. ble.window /\ ble.manual /\ link' = link
    BY <1>8 DEF WindowCloseManual
  <2>2. link \in {"up", "auth"}
    BY <2>1 DEF ArbiterInv, BleClaim, SearchInv
  <2> QED BY <2>1, <2>2 DEF SearchInv, KeepsLookingForPeer
<1>9. CASE WifiScanDoneWardriving \/ WifiInterval
  <2> DEFINE w == [wifi EXCEPT !.done = FALSE]
             v == [wifi EXCEPT !.interval = FALSE]
  <2>1. UNCHANGED <<mode, link, reconnect>>
    BY <1>9 DEF WifiScanDoneWardriving, WifiInterval
  <2>2. CASE StopInternal(w, ble, disc) \/ StopInternal(v, ble, disc)
    <3> HIDE DEF w, v
    <3> QED BY <1>0, <2>1, <2>2, StopKeepsSearch
  <2>3. CASE ble' = ble /\ disc' = disc
    BY <2>1, <2>3 DEF SearchInv, KeepsLookingForPeer
  <2> QED BY <1>9, <2>2, <2>3 DEF WifiScanDoneWardriving, WifiInterval
<1>10. CASE WindowCloseWardriving
  <2> DEFINE b == [ble EXCEPT !.window = FALSE]
  <2>1. UNCHANGED <<mode, link, reconnect>> /\ ble.window
    BY <1>10 DEF WindowCloseWardriving
  <2>2. b \in BleState /\ b.active = ble.active /\ ~ b.window
    BY <1>0 DEF BleState
  <2>3. CASE StopInternal(wifi, b, FALSE)
    <3> HIDE DEF b
    <3> QED BY <2>1, <2>2, <2>3, StopKeepsSearch
  <2>4. CASE ble' = IF b.active THEN Armed(b) ELSE b
    <3>1. ble'.active = ble.active /\ ~ ble'.window
      BY <1>0, <2>2, <2>4 DEF Armed, BleState
    <3>2. ~ ble.active => link \in {"up", "auth"}
      BY <2>1 DEF SearchInv
    <3> QED BY <1>0, <2>1, <3>1, <3>2 DEF SearchInv, KeepsLookingForPeer
  <2> QED BY <1>10, <2>3, <2>4 DEF WindowCloseWardriving
<1>11. CASE BleInterval
  <2> DEFINE c == [ble EXCEPT !.interval = FALSE]
  <2>1. UNCHANGED <<mode, link, reconnect>> /\ ble.interval
    BY <1>11 DEF BleInterval
  <2>2. c \in BleState /\ c.active = ble.active /\ c.window = ble.window
    BY <1>0 DEF BleState
  <2>3. CASE StopInternal(wifi, c, disc)
    <3> HIDE DEF c
    <3> QED BY <1>0, <2>1, <2>2, <2>3, StopKeepsSearch
  <2>4. CASE ble' \in {Armed(c), [c EXCEPT !.window = TRUE]}
    <3>1. ble.active
      BY <2>1 DEF ArbiterInv, BleClaim
    <3>2. ble'.active
      BY <1>0, <2>2, <2>4, <3>1 DEF Armed, BleState
    <3> QED BY <1>0, <3>2 DEF SearchInv, KeepsLookingForPeer
  <2> QED BY <1>11, <2>3, <2>4 DEF BleInterval
<1>12. CASE WardrivingCommand \/ ButtonToggle
  <2>1. CASE Stop
    <3>1. StopInternal(wifi, ble, disc) /\ UNCHANGED <<mode, link, reconnect>>
      BY <2>1 DEF Stop
    <3> QED BY <1>0, <3>1, StopKeepsSearch
  <2>2. ASSUME NEW s \in Sources, Start(s)
        PROVE  SearchInv'
    <3>1. PICK wifiOk \in BOOLEAN, bleOk \in BOOLEAN :
            StartInternal(s, wifiOk, bleOk, link, disc)
      BY <2>2 DEF Start
    <3>2. UNCHANGED <<mode, link, reconnect>> /\ ~ ble.active
      BY <2>2 DEF Start, MayStart, Running
    <3>3. disc => disc'
      BY <3>1 DEF StartInternal
    <3>4. ble'.window => ble.window \/ ble'.active
      BY <1>0, <3>1 DEF StartInternal, BleState
    <3> QED BY <1>0, <3>2, <3>3, <3>4 DEF SearchInv, KeepsLookingForPeer
  <2> QED BY <1>12, <2>1, <2>2, ButtonOrCommand
<1>13. CASE Restart
  <2>1. disc' \/ ble'.active
    BY <1>13 DEF Restart
  <2> QED BY <1>0, <1>13, <2>1, RestartFlags DEF SearchInv, KeepsLookingForPeer
<1>14. CASE UNCHANGED vars
  BY <1>14 DEF vars, SearchInv, KeepsLookingForPeer
<1> QED BY <1>1, <1>2, <1>3, <1>4, <1>5, <1>6, <1>7, <1>8, <1>9, <1>10, <1>11, <1>12, <1>13,
           <1>14 DEF Next

\* start_scan, schedule_reconnect and the disconnect handler: apart from three timings, the
\* board that may connect and is not connected keeps looking for the Flipper, through any
\* number of scans, failures and restarts.
THEOREM TheSearchGoesOn ==
  ASSUME "stale_scan_done" \notin Races, "drop_in_window" \notin Races,
         "stop_while_down" \notin Races, "disc_error" \notin Races
  PROVE  Spec => []KeepsLookingForPeer
<1>1. Init => SearchInv
  BY DEF Init, SearchInv, KeepsLookingForPeer, BleIdle
<1>2. ArbiterInv /\ ArbiterInv' /\ SearchInv /\ [Next]_vars => SearchInv'
  BY SearchStep
<1>3. Spec => []ArbiterInv
  BY ArbiterInvariant
<1>4. SearchInv => KeepsLookingForPeer
  BY DEF SearchInv
<1> QED BY <1>1, <1>2, <1>3, <1>4, PTL DEF Spec

=============================================================================
