------------------------- MODULE FlipperApp_proofs -------------------------
(***************************************************************************)
(* Proofs about the Flipper application, for every length of its queue,    *)
(* every number of commands and sessions and every set of timings.         *)
(***************************************************************************)
EXTENDS FlipperApp, SequenceTheorems, FiniteSetTheorems, TLAPS

-----------------------------------------------------------------------------
(* Types.                                                                   *)

Screens == ScanKinds \cup {"home", "wd_running", "wd_stopped", "gps"}
Lists == [progress : BOOLEAN, rows : SUBSET Nat]
Uis ==
  [screen : Screens, active : BOOLEAN, caps : BOOLEAN, known : BOOLEAN, running : BOOLEAN,
   scan : [ScanKinds -> Lists], gpsTimer : BOOLEAN]

Resets == {"connected", "advertising"}
Signals == Resets \cup {"active", "caps", "gps", "tick"}
Ends_ == {"done", "error"}
Events ==
  [type : Signals] \cup [type : {"run"}, running : BOOLEAN]
    \cup [type : Ends_ \cup {"row"}, kind : ScanKinds, id : Nat]

Kinds == {"wifi", "ble", "status", "start", "stop", "gps", "caps"}
Records == [seq : Nat, session : Nat, cmd : [kind : Kinds, id : Nat]]
Errors == {"busy", "not_running", "internal_error"}
States == {"caps", "gps", "started", "stopped", "data", "partial", "complete", "silence"} \cup Errors
Replies ==
  [state : States, kind : {"none", "gps", "wd", "wifi", "ble"}, id : Nat, last : BOOLEAN]
Boards ==
  [engine : BOOLEAN, scan : [ScanKinds -> [id : Nat, more : BOOLEAN]], seqIn : Nat,
   refused : BOOLEAN]

TypeInv ==
  /\ ui \in Uis /\ events \in Seq(Events) /\ Len(events) <= QueueDepth
  /\ pending \in Commands /\ seqOut \in Nat
  /\ buf \in Records \cup {NoRecord} /\ mid \in [Threads -> Records \cup {NoRecord}]
  /\ worker \in {"idle", "bootstrap", "ask"} /\ cached \in BOOLEAN
  /\ link \in {"down", "up", "auth"} /\ session \in 0 .. MaxSessions
  /\ toB \in Seq(Records) /\ toF \in Seq(Replies)
  /\ board \in Boards /\ count \in Nat /\ unasked \in Nat
  /\ owed \subseteq 1 .. count /\ raced \subseteq Timings
  /\ link = "up" => session < MaxSessions
  /\ \A t \in Threads : mid[t] # NoRecord /\ mid[t].cmd.kind # "caps" => buf # NoRecord

-----------------------------------------------------------------------------
(* Sequences.                                                               *)

LEMMA AppendIs ==
  ASSUME NEW S, NEW s \in Seq(S), NEW e \in S
  PROVE  /\ Append(s, e) \in Seq(S) /\ Len(Append(s, e)) = Len(s) + 1
         /\ DOMAIN s = 1 .. Len(s) /\ DOMAIN Append(s, e) = 1 .. Len(s) + 1 /\ Len(s) \in Nat
         /\ \A i \in DOMAIN s : i \in DOMAIN Append(s, e) /\ Append(s, e)[i] = s[i]
         /\ Append(s, e)[Len(s) + 1] = e
         /\ \A i \in DOMAIN Append(s, e) : i # Len(s) + 1 => i \in DOMAIN s
BY AppendProperties, LenProperties

LEMMA TailIs ==
  ASSUME NEW S, NEW s \in Seq(S), s # << >>
  PROVE  /\ Tail(s) \in Seq(S) /\ Len(Tail(s)) = Len(s) - 1 /\ Len(s) \in Nat
         /\ DOMAIN s = 1 .. Len(s) /\ DOMAIN Tail(s) = 1 .. Len(s) - 1
         /\ Head(s) = s[1] /\ 1 \in DOMAIN s /\ Head(s) \in S
         /\ \A i \in DOMAIN Tail(s) : i + 1 \in DOMAIN s /\ Tail(s)[i] = s[i + 1]
         /\ \A i \in DOMAIN s : i # 1 => i - 1 \in DOMAIN Tail(s) /\ Tail(s)[i - 1] = s[i]
<1>1. /\ Tail(s) \in Seq(S) /\ Len(Tail(s)) = Len(s) - 1 /\ Len(s) \in Nat \ {0}
      /\ \A i \in 1 .. Len(Tail(s)) : Tail(s)[i] = s[i+1]
  BY HeadTailProperties, EmptySeq
<1>2. DOMAIN s = 1 .. Len(s) /\ DOMAIN Tail(s) = 1 .. Len(s) - 1
  BY <1>1, LenProperties
<1>3. Head(s) = s[1] /\ Head(s) \in S
  BY HeadTailProperties
<1>4. \A i \in DOMAIN Tail(s) : i + 1 \in DOMAIN s /\ Tail(s)[i] = s[i + 1]
  BY <1>1, <1>2
<1>5. ASSUME NEW i \in DOMAIN s, i # 1
      PROVE  i - 1 \in DOMAIN Tail(s) /\ Tail(s)[i - 1] = s[i]
  <2>1. i - 1 \in 1 .. Len(s) - 1 /\ (i - 1) + 1 = i
    BY <1>1, <1>2, <1>5
  <2> QED BY <1>1, <1>2, <2>1
<1> QED BY <1>1, <1>2, <1>3, <1>4, <1>5

LEMMA ConcatIs ==
  ASSUME NEW S, NEW s \in Seq(S), NEW t \in Seq(S)
  PROVE  /\ s \o t \in Seq(S) /\ Len(s \o t) = Len(s) + Len(t)
         /\ Len(s) \in Nat /\ Len(t) \in Nat /\ DOMAIN s = 1 .. Len(s) /\ DOMAIN t = 1 .. Len(t)
         /\ DOMAIN (s \o t) = 1 .. Len(s) + Len(t)
         /\ \A i \in DOMAIN s : i \in DOMAIN (s \o t) /\ (s \o t)[i] = s[i]
         /\ \A i \in DOMAIN t : Len(s) + i \in DOMAIN (s \o t) /\ (s \o t)[Len(s) + i] = t[i]
         /\ \A i \in DOMAIN (s \o t) : i \notin DOMAIN s => i - Len(s) \in DOMAIN t
<1>1. /\ s \o t \in Seq(S) /\ Len(s \o t) = Len(s) + Len(t)
      /\ \A i \in 1 .. Len(s) + Len(t) : (s \o t)[i] = IF i <= Len(s) THEN s[i] ELSE t[i - Len(s)]
  BY ConcatProperties
<1>2. /\ Len(s) \in Nat /\ Len(t) \in Nat /\ DOMAIN s = 1 .. Len(s) /\ DOMAIN t = 1 .. Len(t)
      /\ DOMAIN (s \o t) = 1 .. Len(s) + Len(t)
  BY <1>1, LenProperties
<1>3. \A i \in DOMAIN s : i \in DOMAIN (s \o t) /\ (s \o t)[i] = s[i]
  BY <1>1, <1>2
<1>4. ASSUME NEW i \in DOMAIN t
      PROVE  Len(s) + i \in DOMAIN (s \o t) /\ (s \o t)[Len(s) + i] = t[i]
  <2>1. Len(s) + i \in 1 .. Len(s) + Len(t) /\ ~ (Len(s) + i <= Len(s)) /\ Len(s) + i - Len(s) = i
    BY <1>2
  <2> QED BY <1>1, <1>2, <2>1
<1>5. \A i \in DOMAIN (s \o t) : i \notin DOMAIN s => i - Len(s) \in DOMAIN t
  BY <1>2
<1> QED BY <1>1, <1>2, <1>3, <1>4, <1>5

\* What is posted: nothing of it is new but es, and without an overflow all of it is there.
LEMMA PostedIs ==
  ASSUME TypeInv, NEW es \in Seq(Events)
  PROVE  /\ Posted(es) \in Seq(Events) /\ Len(Posted(es)) <= QueueDepth
         /\ Dropped(es) \subseteq {"overflow"}
         /\ \A i \in DOMAIN Posted(es) :
              \/ i \in DOMAIN events /\ Posted(es)[i] = events[i]
              \/ \E j \in DOMAIN es : Posted(es)[i] = es[j]
         /\ "overflow" \notin Dropped(es) => Posted(es) = events \o es
<1> DEFINE s == events \o es
           n == IF Len(s) < QueueDepth THEN Len(s) ELSE QueueDepth
<1>1. events \in Seq(Events) /\ QueueDepth \in Nat
  BY FlipperAppAssumption DEF TypeInv
<1>2. /\ s \in Seq(Events) /\ Len(s) \in Nat /\ DOMAIN s = 1 .. Len(s)
      /\ \A i \in DOMAIN s : i \in DOMAIN events \/ \E j \in DOMAIN es : s[i] = es[j]
      /\ \A i \in DOMAIN events : s[i] = events[i]
  <2> USE <1>1
  <2>1. ASSUME NEW i \in DOMAIN s, i \notin DOMAIN events
        PROVE  \E j \in DOMAIN es : s[i] = es[j]
    <3>1. i - Len(events) \in DOMAIN es /\ Len(events) + (i - Len(events)) = i
      BY <2>1, ConcatIs
    <3> QED BY <3>1, ConcatIs
  <2>2. s \in Seq(Events) /\ \A i \in DOMAIN events : s[i] = events[i]
    BY ConcatIs
  <2> QED BY <2>1, <2>2, LenProperties
<1> HIDE DEF s
<1>0. Len(s) \in Nat /\ QueueDepth \in Nat
  BY <1>1, <1>2
<1>3. n \in 0 .. Len(s) /\ n \in Nat /\ n <= QueueDepth
  BY <1>0
<1>4. Posted(es) = SubSeq(s, 1, n)
  BY DEF Posted, s
<1>5. Len(s) <= QueueDepth => n = Len(s)
  BY <1>0
<1>6. Dropped(es) \subseteq {"overflow"} /\ ("overflow" \notin Dropped(es) => Len(s) <= QueueDepth)
  BY <1>1, <1>2 DEF Dropped, s
<1> HIDE DEF n
<1>7. \A i \in 1 .. n : i \in DOMAIN s /\ s[i] \in Events
  BY <1>2, <1>3, ElementOfSeq
<1>8. /\ Posted(es) \in Seq(Events) /\ Len(Posted(es)) = n
      /\ \A i \in 1 .. n : Posted(es)[i] = s[i]
  <2>1. /\ SubSeq(s, 1, n) \in Seq(Events) /\ Len(SubSeq(s, 1, n)) = (IF 1 <= n THEN n - 1 + 1 ELSE 0)
        /\ \A i \in 1 .. n - 1 + 1 : SubSeq(s, 1, n)[i] = s[1 + i - 1]
    BY <1>3, <1>7, SubSeqProperties
  <2> QED BY <1>3, <1>4, <2>1
<1>9. \A i \in DOMAIN Posted(es) :
              \/ i \in DOMAIN events /\ Posted(es)[i] = events[i]
              \/ \E j \in DOMAIN es : Posted(es)[i] = es[j]
  <2> TAKE i \in DOMAIN Posted(es)
  <2>1. i \in 1 .. n
    BY <1>8, LenProperties
  <2> QED BY <1>2, <1>7, <1>8, <2>1
<1>10. Len(s) <= QueueDepth => Posted(es) = s
  BY <1>2, <1>4, <1>5, SubSeqFull
<1> QED BY <1>3, <1>6, <1>8, <1>9, <1>10 DEF s

-----------------------------------------------------------------------------
(* What the screens show.                                                   *)

SameBut(u, v) ==
  /\ v.screen = u.screen /\ v.active = u.active /\ v.caps = u.caps /\ v.known = u.known
  /\ v.running = u.running /\ v.gpsTimer = u.gpsTimer

WithList(u, k, l) == [u EXCEPT !.scan[k] = l]

LEMMA ListSet ==
  ASSUME NEW u \in Uis, NEW k \in ScanKinds, NEW l \in Lists, NEW v, v = WithList(u, k, l)
  PROVE  /\ v \in Uis /\ SameBut(u, v) /\ v.scan[k] = l
         /\ \A o \in ScanKinds : o # k => v.scan[o] = u.scan[o]
BY DEF Uis, SameBut, WithList

WithProgress(u, k, b) == [u EXCEPT !.scan[k].progress = b]

LEMMA ProgressSet ==
  ASSUME NEW u \in Uis, NEW k \in ScanKinds, NEW b \in BOOLEAN, NEW v, v = WithProgress(u, k, b)
  PROVE  /\ v \in Uis /\ SameBut(u, v) /\ v.scan[k].progress = b /\ v.scan[k].rows = u.scan[k].rows
         /\ \A o \in ScanKinds : o # k => v.scan[o] = u.scan[o]
<1> DEFINE l == [u.scan[k] EXCEPT !.progress = b]
<1>1. u.scan[k] \in Lists
  BY DEF Uis
<1>2. l \in Lists /\ l.progress = b /\ l.rows = u.scan[k].rows
  BY <1>1 DEF Lists
<1>3. v = WithList(u, k, l)
  BY DEF WithList, WithProgress
<1> HIDE DEF l
<1> QED BY ONLY <1>2, <1>3, ListSet, u \in Uis, k \in ScanKinds

WithRow(u, k, id) == [u EXCEPT !.scan[k].rows = @ \cup {id}]

LEMMA RowsSet ==
  ASSUME NEW u \in Uis, NEW k \in ScanKinds, NEW id \in Nat, NEW v, v = WithRow(u, k, id)
  PROVE  /\ v \in Uis /\ SameBut(u, v) /\ v.scan[k].progress = u.scan[k].progress
         /\ v.scan[k].rows = u.scan[k].rows \cup {id}
         /\ \A o \in ScanKinds : o # k => v.scan[o] = u.scan[o]
<1> DEFINE l == [u.scan[k] EXCEPT !.rows = u.scan[k].rows \cup {id}]
<1>1. u.scan[k] \in Lists
  BY DEF Uis
<1>2. l \in Lists /\ l.progress = u.scan[k].progress /\ l.rows = u.scan[k].rows \cup {id}
  BY <1>1 DEF Lists
<1>3. v = WithList(u, k, l)
  BY DEF WithList, WithRow
<1> HIDE DEF l
<1> QED BY ONLY <1>2, <1>3, ListSet, u \in Uis, k \in ScanKinds

LEMMA ClearedIs ==
  ASSUME NEW u \in Uis, NEW v, v = Cleared(u)
  PROVE  /\ v \in Uis /\ v.screen = u.screen /\ v.active = u.active /\ ~ v.known /\ ~ v.running
         /\ ~ v.gpsTimer /\ v.caps = u.caps
         /\ \A k \in ScanKinds : ~ v.scan[k].progress /\ v.scan[k].rows = {}
BY DEF Cleared, Uis, Lists, NoList, ScanKinds

(* The screens agree with the run state that is known, and the GPS screen    *)
(* with its timer.                                                           *)
ScreenOK(u) ==
  /\ u.running => u.known
  /\ u.screen = "wd_running" => u.running \/ ~ u.known
  /\ u.screen = "wd_stopped" => ~ u.running
GpsOK(u) == u.screen = "gps" => u.gpsTimer

\* What a key does to the screens; started is the kind of the scan it starts, if any.
KeyUi(u, started) ==
  /\ u \in Uis /\ u.active = ui.active
  /\ u.known => ui.known /\ u.running = ui.running
  /\ \A k \in ScanKinds : /\ u.scan[k].rows \subseteq ui.scan[k].rows
                          /\ k = started => u.scan[k].rows = {}
                          /\ u.scan[k].progress => ui.scan[k].progress \/ k = started
  /\ ScreenOK(ui) => ScreenOK(u)
  /\ GpsOK(ui) => GpsOK(u)

Shown ==
  \E u \in Uis, p \in {pending, "none"} :
    /\ Shows(u, p) /\ KeyUi(u, "none")
    /\ p = pending \/ \A k \in ScanKinds : ~ u.scan[k].progress

\* The worker goes on without a step that anybody sees.
Idles ==
  /\ worker' = "idle"
  /\ UNCHANGED <<ui, events, pending, seqOut, buf, mid, cached, link, session, toB, toF, board,
                 count, unasked, owed, raced>>

Sending(t, kind, id) ==
  /\ Encode(t, kind, id)
  /\ IF kind \in {"gps", "caps"} THEN id = 0 /\ count' \in {count, count + 1}
     ELSE id = count + 1 /\ count' = count + 1
  /\ IF t = "worker" THEN /\ link = "auth" /\ kind \in {"caps", "status"} /\ worker' \in {"ask", "idle"}
                          /\ UNCHANGED <<ui, events>>
     ELSE /\ t = "main" /\ ui.active /\ kind # "caps" /\ KeyUi(ui', kind) /\ worker' = worker
          /\ \/ events' = events
             \/ events # << >> /\ Head(events).type = "tick" /\ events' = Tail(events)
  /\ UNCHANGED <<seqOut, cached, link, session, toB, toF, board, unasked>>

LEMMA SendsIs ==
  ASSUME TypeInv, NEW u, NEW kind \in {"wifi", "ble", "status", "start", "stop"}, Sends(u, kind),
         KeyUi(u, kind), ~ ui.active => KeyUi(u, "none")
  PROVE  Shown \/ Sending("main", kind, count + 1)
<1>1. CASE ui.active
  BY <1>1 DEF Sends, Sending, UnlessUi
<1>2. CASE ~ ui.active
  <2>1. Shows(u, pending)
    BY <1>2 DEF Sends, Shows, UnlessUi
  <2> QED BY <1>2, <2>1 DEF Shown, KeyUi
<1> QED BY <1>1, <1>2

LEMMA KeyScanIs ==
  ASSUME TypeInv, NEW k \in ScanKinds, KeyScan(k)
  PROVE  Shown \/ Sending("main", k, count + 1)
<1> DEFINE f == Fresh(ui, k)
           g == [f EXCEPT !.scan[k].progress = ui.active]
           u == [g EXCEPT !.screen = IF ui.active THEN k ELSE g.screen]
<1>1. ui \in Uis /\ ui.active \in BOOLEAN /\ NoList \in Lists /\ k \in Screens
  BY DEF TypeInv, Uis, NoList, Lists, Screens
<1>2. /\ f \in Uis /\ SameBut(ui, f) /\ f.scan[k] = NoList
      /\ \A o \in ScanKinds : o # k => f.scan[o] = ui.scan[o]
  <2>1. f = WithList(ui, k, NoList)
    BY DEF Fresh, WithList
  <2> HIDE DEF f
  <2> QED BY <1>1, <2>1, ListSet
<1>3. Sends(u, k) /\ ~ ui.scan[k].progress
  BY DEF KeyScan
<1> HIDE DEF f
<1>4. /\ g \in Uis /\ SameBut(f, g) /\ g.scan[k].progress = ui.active /\ g.scan[k].rows = {}
      /\ \A o \in ScanKinds : o # k => g.scan[o] = f.scan[o]
  <2>1. f.scan[k].rows = {}
    BY <1>2 DEF NoList
  <2>2. g = WithProgress(f, k, ui.active)
    BY DEF WithProgress
  <2> HIDE DEF g
  <2> QED BY <1>1, <1>2, <2>1, <2>2, ProgressSet
<1> HIDE DEF g
<1>5. /\ u \in Uis /\ u.active = ui.active /\ u.known = ui.known /\ u.running = ui.running
      /\ u.scan = g.scan /\ u.gpsTimer = ui.gpsTimer
      /\ u.screen = IF ui.active THEN k ELSE ui.screen
  BY <1>1, <1>2, <1>4 DEF Uis, SameBut
<1> HIDE DEF u
<1>6. KeyUi(u, k) /\ (~ ui.active => KeyUi(u, "none"))
  <2>1. k # "gps" /\ k # "wd_running" /\ k # "wd_stopped" /\ k # "none" /\ "none" \notin ScanKinds
    BY DEF ScanKinds
  <2>2. \A o \in ScanKinds : /\ u.scan[o].rows \subseteq ui.scan[o].rows
                             /\ o = k => u.scan[o].rows = {} /\ u.scan[o].progress = ui.active
                             /\ u.scan[o].progress => ui.scan[o].progress \/ o = k
    BY <1>2, <1>4, <1>5
  <2>3. ScreenOK(ui) => ScreenOK(u)
    BY <1>5, <2>1 DEF ScreenOK
  <2>4. GpsOK(ui) => GpsOK(u)
    BY <1>5, <2>1 DEF GpsOK
  <2> QED BY <1>5, <2>1, <2>2, <2>3, <2>4 DEF KeyUi
<1>7. k \in {"wifi", "ble", "status", "start", "stop"}
  BY DEF ScanKinds
<1> QED BY <1>3, <1>6, <1>7, SendsIs

LEMMA KeyWardrivingIs ==
  ASSUME TypeInv, KeyWardriving
  PROVE  Shown \/ Sending("main", "status", count + 1)
<1> DEFINE u == [ui EXCEPT !.screen = IF ui.known /\ ui.running THEN "wd_running" ELSE "wd_stopped",
                           !.gpsTimer = FALSE]
<1>1. ui \in Uis
  BY DEF TypeInv
<1>2. /\ u \in Uis /\ u.active = ui.active /\ u.known = ui.known /\ u.running = ui.running
      /\ u.scan = ui.scan
      /\ u.screen = IF ui.known /\ ui.running THEN "wd_running" ELSE "wd_stopped"
  BY <1>1 DEF Uis, Screens
<1>3. Sends(u, "status") \/ Shows(u, pending)
  BY DEF KeyWardriving
<1> HIDE DEF u
<1>4. KeyUi(u, "none") /\ KeyUi(u, "status")
  <2>1. "none" \notin ScanKinds /\ "status" \notin ScanKinds
    BY DEF ScanKinds
  <2>2. (ScreenOK(ui) => ScreenOK(u)) /\ GpsOK(u)
    BY <1>2 DEF ScreenOK, GpsOK
  <2> QED BY <1>2, <2>1, <2>2 DEF KeyUi
<1> QED BY <1>2, <1>3, <1>4, SendsIs DEF Shown

LEMMA KeyIs ==
  ASSUME TypeInv, UserStep
  PROVE  \/ Shown
         \/ \E kind \in {"wifi", "ble", "status", "start", "stop"} : Sending("main", kind, count + 1)
<1>1. ui \in Uis /\ "none" \notin ScanKinds /\ "start" \notin ScanKinds /\ "stop" \notin ScanKinds
  BY DEF TypeInv, ScanKinds
<1>2. CASE KeyWifiScan \/ KeyBleScan
  BY <1>2, KeyScanIs DEF KeyWifiScan, KeyBleScan, ScanKinds
<1>3. CASE KeyWardriving
  BY <1>3, KeyWardrivingIs
<1>4. CASE KeyStart \/ KeyStop
  <2>1. Sends(ui, "start") \/ Sends(ui, "stop")
    BY <1>4 DEF KeyStart, KeyStop
  <2>2. KeyUi(ui, "start") /\ KeyUi(ui, "stop") /\ KeyUi(ui, "none")
    BY <1>1 DEF KeyUi
  <2> QED BY <2>1, <2>2, SendsIs
<1>5. CASE KeyGps
  <2> DEFINE u == [ui EXCEPT !.screen = "gps", !.gpsTimer = TRUE]
  <2>1. Shows(u, pending)
    BY <1>5 DEF KeyGps, Polls
  <2>2. /\ u \in Uis /\ u.active = ui.active /\ u.known = ui.known /\ u.running = ui.running
        /\ u.scan = ui.scan /\ u.screen = "gps" /\ u.gpsTimer
    BY <1>1 DEF Uis, Screens
  <2> HIDE DEF u
  <2>3. (ScreenOK(ui) => ScreenOK(u)) /\ GpsOK(u)
    BY <2>2 DEF ScreenOK, GpsOK
  <2> QED BY <1>1, <2>1, <2>2, <2>3 DEF Shown, KeyUi
<1>6. CASE KeyBack
  <2> DEFINE u == Left(ui)
  <2>1. Shows(u, IF ui.screen \in ScanKinds THEN "none" ELSE pending)
    BY <1>6 DEF KeyBack
  <2>2. CASE ui.screen \in ScanKinds
    <3> DEFINE c == Cleared(ui)
    <3>1. /\ c \in Uis /\ c.active = ui.active /\ ~ c.known /\ ~ c.running
          /\ \A k \in ScanKinds : ~ c.scan[k].progress /\ c.scan[k].rows = {}
      BY <1>1, ClearedIs
    <3>2. u = [c EXCEPT !.screen = "home"]
      BY <2>2 DEF Left
    <3> HIDE DEF c, u
    <3>3. /\ u \in Uis /\ u.active = ui.active /\ ~ u.known /\ ~ u.running /\ u.screen = "home"
          /\ \A k \in ScanKinds : ~ u.scan[k].progress /\ u.scan[k].rows = {}
      BY <3>1, <3>2 DEF Uis, Screens
    <3>4. ScreenOK(u) /\ GpsOK(u)
      BY <3>3 DEF ScreenOK, GpsOK
    <3>5. KeyUi(u, "none")
      BY <3>3, <3>4 DEF KeyUi
    <3> QED BY <2>1, <2>2, <3>3, <3>5 DEF Shown
  <2>3. CASE ui.screen \notin ScanKinds
    <3>1. u = [ui EXCEPT !.screen = "home", !.gpsTimer = FALSE]
      BY <2>3 DEF Left
    <3> HIDE DEF u
    <3>2. /\ u \in Uis /\ u.active = ui.active /\ u.known = ui.known /\ u.running = ui.running
          /\ u.screen = "home" /\ u.scan = ui.scan
      BY <1>1, <3>1 DEF Uis, Screens
    <3>3. (ScreenOK(ui) => ScreenOK(u)) /\ GpsOK(u)
      BY <3>2 DEF ScreenOK, GpsOK
    <3>4. KeyUi(u, "none")
      BY <1>1, <3>2, <3>3 DEF KeyUi
    <3>5. Shows(u, pending)
      <4>1. (IF ui.screen \in ScanKinds THEN "none" ELSE pending) = pending
        BY <2>3
      <4> QED BY <2>1, <4>1
    <3> QED BY <1>1, <3>4, <3>5 DEF Shown, KeyUi
  <2> QED BY <2>2, <2>3
<1> QED BY <1>2, <1>3, <1>4, <1>5, <1>6 DEF UserStep

LEMMA OtherSends ==
  ASSUME TypeInv, BootstrapQuery \/ AskStatus \/ PollGps
  PROVE  \/ Idles
         \/ Sending("worker", "caps", 0) \/ Sending("worker", "status", count + 1)
         \/ Sending("main", "gps", 0)
<1>1. CASE BootstrapQuery
  BY <1>1 DEF BootstrapQuery, Sending, Worker
<1>2. CASE AskStatus
  <2>1. CASE ui.caps /\ ~ ui.known /\ ui.active
    BY <1>2, <2>1 DEF AskStatus, Sending, Worker
  <2>2. CASE ~ (ui.caps /\ ~ ui.known /\ ui.active)
    BY <1>2, <2>2 DEF AskStatus, Idles
  <2> QED BY <2>1, <2>2
<1>3. CASE PollGps
  <2>1. KeyUi(ui, "gps")
    BY DEF KeyUi, TypeInv, ScanKinds
  <2> QED BY <1>3, <2>1 DEF PollGps, PollDue, Sending, UnlessUi
<1> QED BY <1>1, <1>2, <1>3

-----------------------------------------------------------------------------
(* Handlers.                                                                *)

LEMMA NoneIs ==
  ASSUME NEW S
  PROVE  << >> \in Seq(S) /\ DOMAIN << >> = {}
BY EmptySeq

LEMMA OneIs ==
  ASSUME NEW S, NEW e \in S
  PROVE  << e >> \in Seq(S) /\ DOMAIN << e >> = {1} /\ << e >>[1] = e /\ Len(<< e >>) = 1
OBVIOUS

LEMMA TwoIs ==
  ASSUME NEW S, NEW e \in S, NEW d \in S
  PROVE  /\ << e, d >> \in Seq(S) /\ DOMAIN << e, d >> = {1, 2} /\ Len(<< e, d >>) = 2
         /\ << e, d >>[1] = e /\ << e, d >>[2] = d
OBVIOUS

LEMMA EventsAre ==
  /\ \A t \in Signals : Event(t) \in Events /\ Event(t).type = t
  /\ \A v \in BOOLEAN : /\ RunState(v) \in Events /\ RunState(v).type = "run"
                        /\ RunState(v).running = v
  /\ \A k \in ScanKinds, id \in Nat :
       /\ Row(k, id) \in Events /\ Row(k, id).type = "row"
       /\ Row(k, id).kind = k /\ Row(k, id).id = id
       /\ \A t \in Ends_ : /\ ScanOver(k, t, id) \in Events /\ ScanOver(k, t, id).type = t
                           /\ ScanOver(k, t, id).kind = k
<1>1. \A t \in Signals : Event(t) \in Events /\ Event(t).type = t
  BY DEF Event, Events
<1>2. \A v \in BOOLEAN : RunState(v) \in Events /\ RunState(v).type = "run" /\ RunState(v).running = v
  BY DEF RunState, Events
<1>3. \A k \in ScanKinds, id \in Nat :
       /\ Row(k, id) \in Events /\ Row(k, id).type = "row"
       /\ Row(k, id).kind = k /\ Row(k, id).id = id
  BY DEF Row, Events
<1>4. \A k \in ScanKinds, id \in Nat, t \in Ends_ :
         /\ ScanOver(k, t, id) \in Events /\ ScanOver(k, t, id).type = t
         /\ ScanOver(k, t, id).kind = k
  BY DEF ScanOver, Events
<1> QED BY <1>1, <1>2, <1>3, <1>4

\* The run state a reply tells of.
Tells(r) == r.state \in {"started", "data", "busy"}

\* The kinds of scan that es ends.
Over(es, k) == \E j \in DOMAIN es : es[j].type \in Ends_ /\ es[j].kind = k

\* What a handler posts for the reply r, and makes of the slot.
Fits(es, p, r) ==
  /\ es \in Seq(Events) /\ p \in {pending, "none"}
  /\ \A j \in DOMAIN es : /\ es[j].type \in {"caps", "row", "done", "error", "gps", "run"}
                          /\ es[j].type = "row" => es[j].kind = r.kind /\ es[j].id = r.id
  /\ \/ \A j \in DOMAIN es : es[j].type # "run"
     \/ /\ es = <<RunState(Tells(r))>>
        /\ r.state \in {"started", "stopped", "data"} \/ (r.state \in Errors /\ pending \in {"start", "stop"})
  /\ r.state \in {"started", "stopped", "data"} => es = <<RunState(Tells(r))>>
  /\ \A k \in ScanKinds :
       pending = k =>
         /\ p = pending \/ Over(es, k) \/ r.state \in {"started", "stopped", "not_running"}
         /\ r.state \in {"busy", "internal_error"} \/ (r.state = "complete" /\ r.kind = k) => Over(es, k)

LEMMA ScanStatusIs ==
  ASSUME TypeInv, NEW k \in ScanKinds, ScanStatus(k), \A o \in ScanKinds : o # k => pending # o
  PROVE  \E es, p : Handle(es, p) /\ Fits(es, p, First) /\ cached' \in BOOLEAN
<1> DEFINE row == Row(k, First.id)
           done == ScanOver(k, "done", First.id)
           es == IF First.kind # k THEN << >>
                 ELSE IF First.state = "complete" THEN <<row, done>> ELSE <<row>>
           p == IF First.kind = k /\ First.state = "complete" THEN "none" ELSE pending
<1>1. Handle(es, p) /\ cached' \in BOOLEAN /\ First.state \in {"partial", "complete"}
  BY DEF ScanStatus, Arrives, TypeInv
<1>2. First \in Replies
  BY TailIs DEF ScanStatus, Arrives, TypeInv, First
<1>3. /\ row \in Events /\ row.type = "row" /\ row.kind = k /\ row.id = First.id
      /\ done \in Events /\ done.type = "done" /\ done.kind = k
  BY <1>2, EventsAre DEF Replies, Ends_
<1> HIDE DEF row, done
<1>4. CASE First.kind # k
  <2>1. es = << >> /\ p = pending
    BY <1>4
  <2>2. Fits(<< >>, pending, First)
    BY <1>1, <1>4, NoneIs DEF Fits, Errors
  <2> QED BY <1>1, <2>1, <2>2
<1>5. CASE First.kind = k /\ First.state = "complete"
  <2>1. es = <<row, done>> /\ p = "none"
    BY <1>5
  <2> DEFINE f == <<row, done>>
  <2>2. f \in Seq(Events) /\ DOMAIN f = {1, 2} /\ f[1] = row /\ f[2] = done
    BY <1>3, TwoIs
  <2> HIDE DEF f
  <2>3. Over(f, k)
    BY <1>3, <2>2 DEF Over, Ends_
  <2>4. Fits(f, "none", First)
    BY <1>1, <1>3, <1>5, <2>2, <2>3 DEF Fits, Errors
  <2> QED BY <1>1, <2>1, <2>4 DEF f
<1>6. CASE First.kind = k /\ First.state # "complete"
  <2>1. es = <<row>> /\ p = pending
    BY <1>6
  <2>2. <<row>> \in Seq(Events) /\ DOMAIN <<row>> = {1} /\ <<row>>[1] = row
    BY <1>3, OneIs
  <2>3. Fits(<<row>>, pending, First)
    BY <1>1, <1>3, <1>6, <2>2 DEF Fits, Errors
  <2> QED BY <1>1, <2>1, <2>3
<1> QED BY <1>4, <1>5, <1>6

LEMMA ErrorIs ==
  ASSUME TypeInv, HandleError
  PROVE  Handle(ErrorEvents(First.state), "none") /\ Fits(ErrorEvents(First.state), "none", First)
<1>1. /\ Handle(ErrorEvents(First.state), "none") /\ First.state \in Errors
      /\ First \in Replies /\ toF # << >>
  BY TailIs DEF HandleError, Arrives, TypeInv, First, Errors
<1> DEFINE over == ScanOver(pending, "error", First.id)
<1>2. CASE First.state \in {"busy", "internal_error"} /\ pending \in ScanKinds
  <2>0. pending \notin {"start", "stop"} /\ First.state # "not_running"
    BY <1>2 DEF ScanKinds
  <2>1. ErrorEvents(First.state) = <<over>>
    BY <1>2, <2>0 DEF ErrorEvents
  <2>2. over \in Events /\ over.type = "error" /\ over.kind = pending
    BY <1>1, <1>2, EventsAre DEF Replies, Ends_
  <2> HIDE DEF over
  <2>3. <<over>> \in Seq(Events) /\ DOMAIN <<over>> = {1} /\ <<over>>[1] = over
    BY <2>2, OneIs
  <2>4. Over(<<over>>, pending)
    BY <2>2, <2>3 DEF Over, Ends_
  <2>5. Fits(<<over>>, "none", First)
    BY <1>2, <2>2, <2>3, <2>4 DEF Fits
  <2> QED BY <1>1, <2>1, <2>5
<1>3. CASE /\ ~ (First.state \in {"busy", "internal_error"} /\ pending \in ScanKinds)
           /\ \/ First.state = "busy" /\ pending = "start"
              \/ First.state = "not_running" /\ pending = "stop"
              \/ First.state = "internal_error" /\ pending \in {"start", "stop"}
  <2> DEFINE run == RunState(Tells(First))
  <2>1. ErrorEvents(First.state) = <<run>>
    <3>1. pending \notin ScanKinds
      BY <1>3 DEF ScanKinds
    <3>2. CASE First.state = "busy" /\ pending = "start"
      <4>1. Tells(First) = TRUE
        BY <3>2 DEF Tells
      <4> QED BY <3>1, <3>2, <4>1 DEF ErrorEvents
    <3>3. CASE First.state = "not_running" /\ pending = "stop"
      <4>1. Tells(First) = FALSE
        BY <3>3 DEF Tells
      <4> QED BY <3>1, <3>3, <4>1 DEF ErrorEvents
    <3>4. CASE First.state = "internal_error" /\ pending \in {"start", "stop"}
      <4>1. Tells(First) = FALSE
        BY <3>4 DEF Tells
      <4> QED BY <3>1, <3>4, <4>1 DEF ErrorEvents
    <3> QED BY <1>3, <3>2, <3>3, <3>4
  <2>2. run \in Events /\ run.type = "run"
    <3>1. Tells(First) \in BOOLEAN
      BY DEF Tells
    <3> QED BY <3>1, EventsAre
  <2>3. <<run>> \in Seq(Events) /\ DOMAIN <<run>> = {1} /\ <<run>>[1].type = "run"
    BY <2>2, OneIs
  <2>4. (\A k \in ScanKinds : pending # k) /\ pending \in {"start", "stop"}
    BY <1>3 DEF ScanKinds
  <2>5. First.state \notin {"started", "stopped", "data"}
    BY <1>1 DEF Errors
  <2> HIDE DEF run
  <2>6. Fits(<<run>>, "none", First)
    BY <1>1, <2>3, <2>4, <2>5 DEF Fits, run
  <2> QED BY <1>1, <2>1, <2>6
<1>4. CASE /\ ~ (First.state \in {"busy", "internal_error"} /\ pending \in ScanKinds)
           /\ ~ (First.state = "busy" /\ pending = "start")
           /\ ~ (First.state = "not_running" /\ pending = "stop")
           /\ ~ (First.state = "internal_error" /\ pending \in {"start", "stop"})
  <2>1. ErrorEvents(First.state) = << >>
    BY <1>4 DEF ErrorEvents
  <2>2. Fits(<< >>, "none", First)
    BY <1>1, <1>4, NoneIs DEF Fits, Errors
  <2> QED BY <1>1, <2>1, <2>2
<1> QED BY <1>2, <1>3, <1>4

HandlerStep ==
  \/ HandleCapabilities \/ HandleWifiScanStatus \/ HandleBleScanStatus \/ HandleGps
  \/ HandleWardriving \/ HandleError

LEMMA HandlerIs ==
  ASSUME TypeInv, HandlerStep
  PROVE  \E es, p : Handle(es, p) /\ Fits(es, p, Head(toF)) /\ cached' \in BOOLEAN
<1>1. CASE HandleCapabilities
  <2>1. Handle(<<Event("caps")>>, pending) /\ cached' \in BOOLEAN /\ First.state = "caps"
    BY <1>1 DEF HandleCapabilities, Arrives
  <2>2. Event("caps") \in Events /\ Event("caps").type = "caps"
    BY EventsAre DEF Signals
  <2>3. /\ <<Event("caps")>> \in Seq(Events) /\ DOMAIN <<Event("caps")>> = {1}
        /\ <<Event("caps")>>[1].type = "caps"
    BY <2>2, OneIs
  <2>4. Fits(<<Event("caps")>>, pending, First)
    BY <2>1, <2>3 DEF Fits, Errors
  <2> QED BY <2>1, <2>4 DEF First
<1>2. CASE HandleWifiScanStatus
  BY <1>2, ScanStatusIs DEF HandleWifiScanStatus, ScanKinds, First
<1>3. CASE HandleBleScanStatus
  BY <1>3, ScanStatusIs DEF HandleBleScanStatus, ScanKinds, First
<1>4. CASE HandleGps
  <2>1. Handle(<<Event("gps")>>, pending) /\ cached' \in BOOLEAN /\ First.state = "gps"
    BY <1>4 DEF HandleGps, Arrives, TypeInv
  <2>2. Event("gps") \in Events /\ Event("gps").type = "gps"
    BY EventsAre DEF Signals
  <2>3. /\ <<Event("gps")>> \in Seq(Events) /\ DOMAIN <<Event("gps")>> = {1}
        /\ <<Event("gps")>>[1].type = "gps"
    BY <2>2, OneIs
  <2>4. Fits(<<Event("gps")>>, pending, First)
    BY <2>1, <2>3 DEF Fits, Errors
  <2> QED BY <2>1, <2>4 DEF First
<1>5. CASE HandleWardriving
  <2> DEFINE run == RunState(First.state # "stopped")
             p == IF First.state = "data" THEN pending ELSE "none"
  <2>1. Handle(<<run>>, p) /\ cached' \in BOOLEAN /\ First.state \in {"started", "stopped", "data"}
    BY <1>5 DEF HandleWardriving, Arrives, TypeInv
  <2>2. run = RunState(Tells(First))
    BY <2>1 DEF Tells
  <2>3. run \in Events /\ run.type = "run"
    BY EventsAre
  <2> HIDE DEF run
  <2>4. <<run>> \in Seq(Events) /\ DOMAIN <<run>> = {1} /\ <<run>>[1].type = "run"
    BY <2>3, OneIs
  <2>5. p \in {pending, "none"} /\ (First.state = "data" => p = pending)
    OBVIOUS
  <2> HIDE DEF p
  <2>6. Fits(<<run>>, p, First)
    BY <2>1, <2>2, <2>4, <2>5 DEF Fits, Errors
  <2> QED BY <2>1, <2>6 DEF First
<1>6. CASE HandleError
  BY <1>6, ErrorIs DEF HandleError, TypeInv, First
<1> QED BY <1>1, <1>2, <1>3, <1>4, <1>5, <1>6 DEF HandlerStep

-----------------------------------------------------------------------------
(* Sending.                                                                 *)

LEMMA RecordIs == \A r \in Records : r # NoRecord
BY DEF Records, NoRecord

\* What Encode makes of the record r.
Encoded(t, kind, id, r) ==
  /\ r \in Records /\ r.seq = seqOut /\ r.session = session /\ r.cmd.kind = kind /\ r.cmd.id = id
  /\ mid[t] = NoRecord /\ mid' = [mid EXCEPT ![t] = r]
  /\ buf' = IF kind = "caps" THEN buf ELSE r
  /\ pending' = IF kind \in {"gps", "caps"} THEN pending ELSE kind
  /\ owed' = IF id = 0 THEN owed ELSE owed \cup {id}
  /\ raced \subseteq raced' /\ raced' \subseteq Timings
  /\ "two_senders" \notin raced' => \A o \in Threads : o # t => mid[o] = NoRecord
  /\ "crossed" \notin raced' => id = 0 \/ owed = {}
  /\ "late_keys" \notin raced' /\ kind \in ScanKinds => ~ Queued({"row", "done", "error"}, kind)

LEMMA EncodeIs ==
  ASSUME TypeInv, NEW t \in Threads, NEW kind \in Kinds, NEW id \in Nat, Encode(t, kind, id)
  PROVE  \E r : Encoded(t, kind, id, r)
<1> DEFINE r == [seq |-> seqOut, session |-> session, cmd |-> Command(kind, id)]
<1>1. seqOut \in Nat /\ session \in Nat /\ raced \subseteq Timings
  BY DEF TypeInv
<1>2. /\ r \in Records /\ r.seq = seqOut /\ r.session = session /\ r.cmd.kind = kind /\ r.cmd.id = id
  BY <1>1 DEF Records, Command
<1>3. /\ mid[t] = NoRecord /\ mid' = [mid EXCEPT ![t] = r]
      /\ buf' = IF kind = "caps" THEN buf ELSE r
      /\ pending' = IF kind \in {"gps", "caps"} THEN pending ELSE kind
      /\ owed' = IF id = 0 THEN owed ELSE owed \cup {id}
  BY DEF Encode, Slot
<1>4. /\ raced \subseteq raced' /\ raced' \subseteq raced \cup {"two_senders", "crossed", "late_keys"}
      /\ (\E o \in Threads \ {t} : mid[o] # NoRecord) => "two_senders" \in raced'
      /\ id # 0 /\ owed # {} => "crossed" \in raced'
      /\ kind \in ScanKinds /\ Queued({"row", "done", "error"}, kind) => "late_keys" \in raced'
  <2> DEFINE a == IF \E o \in Threads \ {t} : mid[o] # NoRecord THEN {"two_senders"} ELSE {}
             b == IF id # 0 /\ owed # {} THEN {"crossed"} ELSE {}
             c == IF kind \in ScanKinds /\ Queued({"row", "done", "error"}, kind) THEN {"late_keys"}
                  ELSE {}
  <2>1. raced' = ((raced \cup a) \cup b) \cup c
    BY DEF Encode
  <2>2. /\ a \subseteq {"two_senders"}
        /\ (\E o \in Threads \ {t} : mid[o] # NoRecord) => "two_senders" \in a
    OBVIOUS
  <2>3. b \subseteq {"crossed"} /\ (id # 0 /\ owed # {} => "crossed" \in b)
    OBVIOUS
  <2>4. /\ c \subseteq {"late_keys"}
        /\ kind \in ScanKinds /\ Queued({"row", "done", "error"}, kind) => "late_keys" \in c
    OBVIOUS
  <2> HIDE DEF a, b, c
  <2> QED BY <2>1, <2>2, <2>3, <2>4
<1>5. raced' \subseteq Timings
  BY <1>1, <1>4 DEF Timings
<1> HIDE DEF r
<1> QED BY <1>2, <1>3, <1>4, <1>5 DEF Encoded

\* The records that are somewhere on their way to the board.
Recs ==
  {r \in Records : r = mid["main"] \/ r = mid["worker"] \/ r = buf \/ \E i \in DOMAIN toB : r = toB[i]}

LEMMA SendingIs ==
  ASSUME TypeInv, NEW t, NEW kind \in Kinds, NEW id, Sending(t, kind, id)
  PROVE  /\ t \in Threads /\ id \in Nat /\ count' \in Nat /\ count <= count' /\ id <= count'
         /\ (\E r : Encoded(t, kind, id, r)) /\ pending' \in Commands
         /\ events' \in Seq(Events) /\ Len(events') <= QueueDepth
         /\ \A i \in DOMAIN events' : \/ i \in DOMAIN events /\ events'[i] = events[i]
                                      \/ i + 1 \in DOMAIN events /\ events'[i] = events[i + 1]
<1>1. t \in Threads /\ count \in Nat /\ id \in Nat
  BY DEF Sending, Threads, TypeInv
<1>2. \E r : Encoded(t, kind, id, r)
  BY <1>1, EncodeIs DEF Sending
<1>3. count' \in Nat /\ count <= count' /\ id <= count'
  BY <1>1 DEF Sending
<1>4. pending' \in Commands
  <2>1. pending \in Commands
    BY DEF TypeInv
  <2>2. pending' = IF kind \in {"gps", "caps"} THEN pending ELSE kind
    BY <1>2 DEF Encoded
  <2> QED BY <2>1, <2>2 DEF Commands, Kinds
<1>5. CASE events' = events
  BY <1>1, <1>2, <1>3, <1>4, <1>5 DEF TypeInv
<1>6. CASE events # << >> /\ events' = Tail(events)
  <2>1. events \in Seq(Events) /\ Len(events) <= QueueDepth /\ QueueDepth \in Nat
    BY FlipperAppAssumption DEF TypeInv
  <2>2. /\ events' \in Seq(Events) /\ Len(events') = Len(events) - 1 /\ Len(events) \in Nat
        /\ \A i \in DOMAIN events' : i + 1 \in DOMAIN events /\ events'[i] = events[i + 1]
    BY <1>6, <2>1, TailIs
  <2>3. Len(events') <= QueueDepth
    BY <2>1, <2>2
  <2> QED BY <1>1, <1>2, <1>3, <1>4, <2>2, <2>3
<1> QED BY <1>5, <1>6 DEF Sending

-----------------------------------------------------------------------------
(* The main thread.                                                         *)

\* What an event makes of the screens.
Sees(e, v) ==
  /\ v \in Uis
  /\ IF e.type \in Resets
     THEN /\ ~ v.active /\ ~ v.known
          /\ \A k \in ScanKinds : ~ v.scan[k].progress /\ v.scan[k].rows = {}
     ELSE /\ v.active = (ui.active \/ e.type = "active")
          /\ IF e.type = "run" THEN v.known /\ v.running = e.running
             ELSE v.known = ui.known /\ v.running = ui.running
          /\ \A k \in ScanKinds :
               /\ v.scan[k].rows \subseteq ui.scan[k].rows \/
                  (/\ e.type = "row" /\ e.kind = k
                   /\ v.scan[k].rows = ui.scan[k].rows \cup {e.id})
               /\ v.scan[k].progress => ui.scan[k].progress /\ ~ (e.type \in Ends_ /\ e.kind = k)
  /\ ScreenOK(ui) => ScreenOK(v)
  /\ GpsOK(ui) => GpsOK(v) \/ (e.type \in Resets /\ ui.screen = "gps")

LEMMA SeenIs ==
  ASSUME TypeInv, NEW e \in Events
  PROVE  Sees(e, Seen(e))
<1>1. ui \in Uis
  BY DEF TypeInv
<1>2. e.type \in Signals \cup {"run", "row", "done", "error"}
  BY DEF Events, Ends_
<1>3. CASE e.type \in Resets
  <2> DEFINE c == Cleared(ui)
             v == [c EXCEPT !.active = FALSE]
  <2>1. Seen(e) = v
    BY <1>3 DEF Seen, Resets
  <2>2. /\ c \in Uis /\ c.screen = ui.screen /\ ~ c.known /\ ~ c.running /\ ~ c.gpsTimer
        /\ \A k \in ScanKinds : ~ c.scan[k].progress /\ c.scan[k].rows = {}
    BY <1>1, ClearedIs
  <2> HIDE DEF c
  <2>3. /\ v \in Uis /\ v.screen = ui.screen /\ ~ v.known /\ ~ v.running /\ ~ v.gpsTimer
        /\ ~ v.active /\ v.scan = c.scan
    BY <2>2 DEF Uis
  <2> HIDE DEF v
  <2>4. ScreenOK(ui) => ScreenOK(v)
    BY <2>3 DEF ScreenOK
  <2>5. GpsOK(v) \/ ui.screen = "gps"
    BY <2>3 DEF GpsOK
  <2> QED BY <1>3, <2>1, <2>2, <2>3, <2>4, <2>5 DEF Sees
<1>4. CASE e.type = "active"
  <2> DEFINE v == [ui EXCEPT !.active = TRUE]
  <2>1. Seen(e) = v
    BY <1>4 DEF Seen
  <2>2. v \in Uis /\ v.active /\ v.known = ui.known /\ v.running = ui.running /\ v.scan = ui.scan
        /\ v.screen = ui.screen /\ v.gpsTimer = ui.gpsTimer
    BY <1>1 DEF Uis
  <2> HIDE DEF v
  <2>3. (ScreenOK(ui) => ScreenOK(v)) /\ (GpsOK(ui) => GpsOK(v))
    BY <2>2 DEF ScreenOK, GpsOK
  <2> QED BY <1>4, <2>1, <2>2, <2>3 DEF Sees, Resets, Ends_
<1>5. CASE e.type = "caps"
  <2> DEFINE v == [ui EXCEPT !.caps = TRUE]
  <2>1. Seen(e) = v
    BY <1>5 DEF Seen
  <2>2. v \in Uis /\ v.active = ui.active /\ v.known = ui.known /\ v.running = ui.running /\ v.scan = ui.scan
        /\ v.screen = ui.screen /\ v.gpsTimer = ui.gpsTimer
    BY <1>1 DEF Uis
  <2> HIDE DEF v
  <2>3. (ScreenOK(ui) => ScreenOK(v)) /\ (GpsOK(ui) => GpsOK(v))
    BY <2>2 DEF ScreenOK, GpsOK
  <2>4. ui.active \in BOOLEAN
    BY <1>1 DEF Uis
  <2> QED BY <1>5, <2>1, <2>2, <2>3, <2>4 DEF Sees, Resets, Ends_
<1>6. CASE e.type \in {"gps", "tick"}
  <2>1. Seen(e) = ui
    BY <1>6 DEF Seen
  <2>2. ui.active \in BOOLEAN
    BY <1>1 DEF Uis
  <2> QED BY <1>1, <1>6, <2>1, <2>2 DEF Sees, Resets, Ends_
<1>7. CASE e.type = "row"
  <2>0. PICK v : v = WithRow(ui, e.kind, e.id)
    OBVIOUS
  <2>1. Seen(e) = v
    BY <1>7, <2>0 DEF Seen, WithRow
  <2>2. e.kind \in ScanKinds /\ e.id \in Nat
    BY <1>7 DEF Events, Signals, Resets
  <2>3. /\ v \in Uis /\ SameBut(ui, v) /\ v.scan[e.kind].progress = ui.scan[e.kind].progress
        /\ v.scan[e.kind].rows = ui.scan[e.kind].rows \cup {e.id}
        /\ \A o \in ScanKinds : o # e.kind => v.scan[o] = ui.scan[o]
    BY SMTT(20), <1>1, <2>0, <2>2, RowsSet
  <2>4. (ScreenOK(ui) => ScreenOK(v)) /\ (GpsOK(ui) => GpsOK(v))
    BY <2>3 DEF ScreenOK, GpsOK, SameBut
  <2>5. ui.active \in BOOLEAN
    BY <1>1 DEF Uis
  <2>6. \A k \in ScanKinds :
          /\ v.scan[k].rows \subseteq ui.scan[k].rows \/
             (e.kind = k /\ v.scan[k].rows = ui.scan[k].rows \cup {e.id})
          /\ v.scan[k].progress => ui.scan[k].progress
    BY <2>3
  <2> QED BY <1>7, <2>1, <2>3, <2>4, <2>5, <2>6 DEF Sees, Resets, Ends_, SameBut
<1>8. CASE e.type \in Ends_
  <2>9. PICK b \in BOOLEAN : b = FALSE
    OBVIOUS
  <2>0. PICK v : v = WithProgress(ui, e.kind, b)
    OBVIOUS
  <2>1. Seen(e) = v
    BY <1>8, <2>0, <2>9 DEF Seen, WithProgress, Ends_
  <2>2. e.kind \in ScanKinds
    BY <1>8 DEF Events, Signals, Resets, Ends_
  <2>3. /\ v \in Uis /\ SameBut(ui, v) /\ v.scan[e.kind].progress = b
        /\ v.scan[e.kind].rows = ui.scan[e.kind].rows
        /\ \A o \in ScanKinds : o # e.kind => v.scan[o] = ui.scan[o]
    BY <1>1, <2>0, <2>2, ProgressSet
  <2>4. (ScreenOK(ui) => ScreenOK(v)) /\ (GpsOK(ui) => GpsOK(v))
    BY <2>3 DEF ScreenOK, GpsOK, SameBut
  <2>5. ui.active \in BOOLEAN
    BY <1>1 DEF Uis
  <2>6. \A k \in ScanKinds :
          /\ v.scan[k].rows \subseteq ui.scan[k].rows
          /\ v.scan[k].progress => ui.scan[k].progress /\ e.kind # k
    BY <2>3, <2>9
  <2>7. e.type \notin Resets /\ e.type # "active" /\ e.type # "run"
    BY <1>8 DEF Resets, Ends_
  <2> QED BY <2>1, <2>3, <2>4, <2>5, <2>6, <2>7 DEF Sees, SameBut
<1>9. CASE e.type = "run"
  <2> DEFINE u == [ui EXCEPT !.known = TRUE, !.running = e.running]
             v == WardrivingScreen(u)
  <2>1. Seen(e) = v
    BY <1>9 DEF Seen
  <2>2. e.running \in BOOLEAN
    BY <1>9 DEF Events, Signals, Resets, Ends_
  <2>3. /\ u \in Uis /\ u.active = ui.active /\ u.known /\ u.running = e.running
        /\ u.scan = ui.scan /\ u.screen = ui.screen /\ u.gpsTimer = ui.gpsTimer
    BY <1>1, <2>2 DEF Uis
  <2> HIDE DEF u
  <2>4. /\ v \in Uis /\ v.active = ui.active /\ v.known /\ v.running = e.running
        /\ v.scan = ui.scan /\ v.gpsTimer = ui.gpsTimer
        /\ v.screen = IF ui.screen \in {"wd_running", "wd_stopped"}
                      THEN IF e.running THEN "wd_running" ELSE "wd_stopped" ELSE ui.screen
    BY <2>2, <2>3 DEF WardrivingScreen, Uis, Screens
  <2> HIDE DEF v
  <2>5. ScreenOK(v) /\ (GpsOK(ui) => GpsOK(v))
    BY <2>2, <2>4 DEF ScreenOK, GpsOK
  <2>6. ui.active \in BOOLEAN
    BY <1>1 DEF Uis
  <2> QED BY <1>9, <2>1, <2>4, <2>5, <2>6 DEF Sees, Resets, Ends_
<1> QED BY <1>2, <1>3, <1>4, <1>5, <1>6, <1>7, <1>8, <1>9 DEF Signals, Ends_

LEMMA MainEventIs ==
  ASSUME TypeInv, MainEvent
  PROVE  /\ mid["main"] = NoRecord /\ events # << >> /\ Head(events) \in Events
         /\ Sees(Head(events), ui') /\ events' = Tail(events)
         /\ events' \in Seq(Events) /\ Len(events') <= QueueDepth
         /\ pending' = IF Head(events).type \in Resets THEN "none" ELSE pending
         /\ raced \subseteq raced' /\ raced' \subseteq raced \cup {"reset_on_gps"}
         /\ Head(events).type \in Resets /\ ui.screen = "gps" => "reset_on_gps" \in raced'
         /\ UNCHANGED <<mid, buf, owed, count, UnlessUi>>
<1>1. events # << >> /\ events \in Seq(Events) /\ Len(events) <= QueueDepth /\ QueueDepth \in Nat
  BY FlipperAppAssumption DEF MainEvent, TypeInv
<1>2. Head(events) \in Events
  BY <1>1, TailIs
<1>3. Sees(Head(events), ui')
  BY <1>2, SeenIs DEF MainEvent
<1>4. events' = Tail(events)
  BY DEF MainEvent
<1>5. events' \in Seq(Events) /\ Len(events') = Len(events) - 1 /\ Len(events) \in Nat
  BY <1>1, <1>4, TailIs
<1>6. Len(events') <= QueueDepth
  BY <1>1, <1>5
<1>7. pending' = IF Head(events).type \in Resets THEN "none" ELSE pending
  BY DEF MainEvent, Resets
<1>8. raced' = IF Head(events).type \in Resets /\ ui.screen = "gps" THEN raced \cup {"reset_on_gps"}
               ELSE raced
  BY DEF MainEvent, Resets
<1>9. mid["main"] = NoRecord /\ UNCHANGED <<mid, buf, owed, count, UnlessUi>>
  BY DEF MainEvent, Main
<1> QED BY <1>1, <1>2, <1>3, <1>4, <1>5, <1>6, <1>7, <1>8, <1>9

-----------------------------------------------------------------------------
(* The board.                                                               *)

\* A reply as the board makes it.
ReplyOK(r) ==
  /\ r \in Replies /\ r.state # "silence"
  /\ r.kind \in ScanKinds => /\ r.id # 0 /\ r.state \in {"partial", "complete", "busy", "internal_error"}
                             /\ r.last <=> r.state # "partial"
  /\ r.kind = "wd" => /\ r.state \in {"started", "stopped", "data"} \cup Errors
                      /\ IF r.id = 0 THEN r.state \in {"stopped", "data", "internal_error"} /\ ~ r.last
                         ELSE r.last
  /\ r.kind \notin ScanKinds \cup {"wd"} => r.state \in {"caps", "gps"} /\ r.id = 0

\* A word on the engine, in which the board may only repeat itself.
IsError(r) == r.kind = "wd" /\ r.state \in Errors

ScansOK == \A k \in ScanKinds : board.scan[k].id = 0 <=> board.scan[k] = NoScan
Scanning(k) == board.scan[k].id # 0

\* The board, now b, answers the command c with r.
Answered(c, b, r) ==
  /\ b \in Boards /\ b.seqIn = board.seqIn /\ b.refused = board.refused
  /\ r \in Replies /\ r.id = c.id
  /\ \/ /\ r.state = "silence" /\ c.kind \in ScanKinds /\ b.engine = board.engine
        /\ ~ Scanning(c.kind) /\ b.scan[c.kind].id = c.id /\ b.scan[c.kind] # NoScan
        /\ \A o \in ScanKinds : o # c.kind => b.scan[o] = board.scan[o]
     \/ /\ ReplyOK(r) /\ r.last /\ b.scan = board.scan
        /\ r.kind = (IF c.kind \in {"status", "start", "stop"} THEN "wd"
                     ELSE IF c.kind = "caps" THEN "none" ELSE c.kind)
        /\ r.kind = "wd" => \/ Tells(r) <=> b.engine
                            \/ r.state = "busy" /\ \E k \in ScanKinds : Scanning(k)
        /\ r.kind # "wd" \/ IsError(r) => b.engine = board.engine

LEMMA PairIs == \A b, r, a : a \in {<<b, r>>} => a[1] = b /\ a[2] = r
OBVIOUS

\* An answer of the board, now b: the pair of b and the reply.
IsAnswer(a, b, state, kind, id) == a = <<b, Reply(state, kind, id, state # "silence")>>

LEMMA AnswersOf ==
  ASSUME NEW c \in [kind : Kinds, id : Nat], NEW a \in Answers(c)
  PROVE  /\ c.kind \in {"caps", "gps"} => IsAnswer(a, board, c.kind, IF c.kind = "gps" THEN "gps" ELSE "none", 0)
         /\ c.kind = "status" =>
              IsAnswer(a, board, IF board.engine THEN "started" ELSE "stopped", "wd", c.id)
         /\ c.kind = "stop" =>
              IF board.engine THEN IsAnswer(a, [board EXCEPT !.engine = FALSE], "stopped", "wd", c.id)
              ELSE IsAnswer(a, board, "not_running", "wd", c.id)
         /\ c.kind = "start" =>
              IF board.engine \/ \E k \in ScanKinds : board.scan[k] # NoScan
              THEN IsAnswer(a, board, "busy", "wd", c.id)
              ELSE \/ IsAnswer(a, [board EXCEPT !.engine = TRUE], "started", "wd", c.id)
                   \/ IsAnswer(a, board, "internal_error", "wd", c.id)
         /\ c.kind \in ScanKinds =>
              \/ /\ board.scan[c.kind] = NoScan
                 /\ \/ IsAnswer(a, [board EXCEPT !.scan[c.kind] = [id |-> c.id, more |-> TRUE]],
                               "silence", c.kind, c.id)
                    \/ IsAnswer(a, board, "internal_error", c.kind, c.id)
              \/ IsAnswer(a, board, "busy", c.kind, c.id)
<1>1. CASE c.kind \in {"caps", "gps"}
  <2>1. CASE c.kind = "caps"
    <3>1. a \in {<<board, Reply("caps", "none", 0, TRUE)>>}
      BY <2>1, Zenon DEF Answers
    <3> QED BY <2>1, <3>1 DEF IsAnswer, ScanKinds
  <2>2. CASE c.kind = "gps"
    <3>1. a \in {<<board, Reply("gps", "gps", 0, TRUE)>>}
      BY <2>2, Zenon DEF Answers
    <3> QED BY <2>2, <3>1 DEF IsAnswer, ScanKinds
  <2> QED BY <1>1, <2>1, <2>2
<1>2. CASE c.kind = "status"
  <2>1. a \in {<<board, Reply(IF board.engine THEN "started" ELSE "stopped", "wd", c.id, TRUE)>>}
    BY <1>2, Zenon DEF Answers
  <2> QED BY <1>2, <2>1 DEF IsAnswer, ScanKinds
<1>3. CASE c.kind = "stop"
  <2>1. CASE board.engine
    <3>1. a \in {<<[board EXCEPT !.engine = FALSE], Reply("stopped", "wd", c.id, TRUE)>>}
      BY <1>3, <2>1, Zenon DEF Answers
    <3> QED BY <1>3, <2>1, <3>1 DEF IsAnswer, ScanKinds
  <2>2. CASE ~ board.engine
    <3>1. a \in {<<board, Reply("not_running", "wd", c.id, TRUE)>>}
      BY <1>3, <2>2, Zenon DEF Answers
    <3> QED BY <1>3, <2>2, <3>1 DEF IsAnswer, ScanKinds
  <2> QED BY <2>1, <2>2
<1>4. CASE c.kind = "start"
  <2>1. CASE board.engine \/ \E k \in ScanKinds : board.scan[k] # NoScan
    <3>1. a \in {<<board, Reply("busy", "wd", c.id, TRUE)>>}
      BY <1>4, <2>1, Zenon DEF Answers
    <3> QED BY <1>4, <2>1, <3>1 DEF IsAnswer, ScanKinds
  <2>2. CASE ~ (board.engine \/ \E k \in ScanKinds : board.scan[k] # NoScan)
    <3>1. a \in {<<[board EXCEPT !.engine = TRUE], Reply("started", "wd", c.id, TRUE)>>,
                 <<board, Reply("internal_error", "wd", c.id, TRUE)>>}
      BY <1>4, <2>2, Zenon DEF Answers
    <3>2. CASE a \in {<<[board EXCEPT !.engine = TRUE], Reply("started", "wd", c.id, TRUE)>>}
      BY <1>4, <2>2, <3>2 DEF IsAnswer, ScanKinds
    <3>3. CASE a \in {<<board, Reply("internal_error", "wd", c.id, TRUE)>>}
      BY <1>4, <2>2, <3>3 DEF IsAnswer, ScanKinds
    <3> QED BY <3>1, <3>2, <3>3
  <2> QED BY <2>1, <2>2
<1>5. CASE c.kind \in ScanKinds
  <2> DEFINE new == [board EXCEPT !.scan[c.kind] = [id |-> c.id, more |-> TRUE]]
  <2>0. c.kind \notin {"caps", "gps", "status", "start", "stop"}
    BY <1>5 DEF ScanKinds
  <2>1. \/ board.scan[c.kind] = NoScan /\ a \in {<<new, Reply("silence", c.kind, c.id, FALSE)>>}
        \/ board.scan[c.kind] = NoScan /\ a \in {<<board, Reply("internal_error", c.kind, c.id, TRUE)>>}
        \/ a \in {<<board, Reply("busy", c.kind, c.id, TRUE)>>}
    BY <1>5, <2>0 DEF Answers
  <2>2. CASE board.scan[c.kind] = NoScan /\ a \in {<<new, Reply("silence", c.kind, c.id, FALSE)>>}
    BY <2>0, <2>2 DEF IsAnswer
  <2>3. CASE board.scan[c.kind] = NoScan /\ a \in {<<board, Reply("internal_error", c.kind, c.id, TRUE)>>}
    BY <2>0, <2>3 DEF IsAnswer
  <2>4. CASE a \in {<<board, Reply("busy", c.kind, c.id, TRUE)>>}
    BY <2>0, <2>4 DEF IsAnswer
  <2> QED BY <2>1, <2>2, <2>3, <2>4
<1> QED BY <1>1, <1>2, <1>3, <1>4, <1>5 DEF Kinds, ScanKinds

LEMMA AnswerIs ==
  ASSUME NEW a, NEW b, NEW state \in States, NEW kind \in {"none", "gps", "wd", "wifi", "ble"},
         NEW id \in Nat, IsAnswer(a, b, state, kind, id)
  PROVE  /\ a[1] = b /\ a[2] \in Replies /\ a[2].state = state /\ a[2].kind = kind
         /\ a[2].id = id /\ (a[2].last <=> state # "silence")
<1> DEFINE last == state # "silence"
<1>1. PICK r : r = Reply(state, kind, id, last)
  OBVIOUS
<1>2. r \in Replies /\ r.state = state /\ r.kind = kind /\ r.id = id /\ (r.last <=> last)
  BY <1>1 DEF Reply, Replies
<1>3. a[1] = b /\ a[2] = r
  <2>1. a \in {<<b, r>>}
    BY <1>1 DEF IsAnswer
  <2> QED BY <2>1, PairIs
<1> QED BY <1>2, <1>3

LEMMA EngineSet ==
  ASSUME NEW d \in Boards, NEW e \in BOOLEAN, NEW b, b = [d EXCEPT !.engine = e]
  PROVE  /\ b \in Boards /\ b.engine = e /\ b.scan = d.scan
         /\ b.seqIn = d.seqIn /\ b.refused = d.refused
BY DEF Boards

ScanOf == [id : Nat, more : BOOLEAN]
WithScan(d, k, s) == [d EXCEPT !.scan[k] = s]

LEMMA ScanSet ==
  ASSUME NEW d \in Boards, NEW k \in ScanKinds, NEW s \in ScanOf,
         NEW b, b = WithScan(d, k, s)
  PROVE  /\ b \in Boards /\ b.engine = d.engine /\ b.seqIn = d.seqIn /\ b.refused = d.refused
         /\ b.scan[k] = s /\ \A o \in ScanKinds : o # k => b.scan[o] = d.scan[o]
BY DEF Boards, WithScan, ScanOf

LEMMA AnswersAre ==
  ASSUME TypeInv, ScansOK, NEW c \in [kind : Kinds, id : Nat],
         c.kind \in {"gps", "caps"} <=> c.id = 0, NEW a \in Answers(c)
  PROVE  Answered(c, a[1], a[2])
<1>1. board \in Boards /\ board.engine \in BOOLEAN
  BY DEF TypeInv, Boards
<1>2. c.kind \in Kinds /\ c.id \in Nat /\ 0 \in Nat
  OBVIOUS
<1>3. CASE c.kind \in {"caps", "gps"}
  <2>1. PICK kind \in {"none", "gps"} : kind = IF c.kind = "gps" THEN "gps" ELSE "none"
    OBVIOUS
  <2>2. IsAnswer(a, board, c.kind, kind, c.id) /\ c.kind \in States
    BY <1>3, <2>1, AnswersOf DEF States
  <2>3. /\ a[1] = board /\ a[2] \in Replies /\ a[2].state = c.kind /\ a[2].kind = kind
        /\ a[2].id = c.id /\ a[2].last
    <3>1. c.kind # "silence" /\ kind \in {"none", "gps", "wd", "wifi", "ble"}
      BY <1>3
    <3>2. PICK state \in States : state = c.kind
      BY <2>2
    <3>3. IsAnswer(a, board, state, kind, c.id) /\ state # "silence"
      BY <2>2, <3>1, <3>2
    <3>4. /\ a[1] = board /\ a[2] \in Replies /\ a[2].state = state /\ a[2].kind = kind
          /\ a[2].id = c.id /\ a[2].last
      BY ONLY <1>2, <3>1, <3>2, <3>3, AnswerIs
    <3> QED BY <3>2, <3>4
  <2>4. ReplyOK(a[2]) /\ a[2].kind # "wd" /\ ~ IsError(a[2])
    BY <1>3, <2>1, <2>3 DEF ReplyOK, ScanKinds, IsError
  <2> QED BY <1>1, <1>3, <2>1, <2>3, <2>4 DEF Answered
<1>4. ASSUME NEW state \in {"started", "stopped"} \cup Errors, NEW e \in BOOLEAN, NEW b,
             b = board \/ b = [board EXCEPT !.engine = e], IsAnswer(a, b, state, "wd", c.id),
             c.kind \in {"status", "start", "stop"},
             (state \in {"started", "busy"} <=> b.engine)
               \/ (state = "busy" /\ \E k \in ScanKinds : Scanning(k)),
             state \in Errors => b = board
      PROVE  Answered(c, a[1], a[2])
  <2>1. /\ b \in Boards /\ b.seqIn = board.seqIn /\ b.refused = board.refused
        /\ b.scan = board.scan
    BY <1>1, <1>4, EngineSet
  <2>2. PICK kind \in {"none", "gps", "wd", "wifi", "ble"} : kind = "wd"
    OBVIOUS
  <2>3. /\ a[1] = b /\ a[2] \in Replies /\ a[2].state = state /\ a[2].kind = "wd"
        /\ a[2].id = c.id /\ a[2].last
    <3>1. state \in States /\ state # "silence"
      BY DEF States, Errors
    <3>2. IsAnswer(a, b, state, kind, c.id)
      BY <1>4, <2>2
    <3> QED BY ONLY <1>2, <2>2, <3>1, <3>2, AnswerIs
  <2>4. ReplyOK(a[2])
    <3>1. c.id # 0
      BY <1>4
    <3> QED BY <2>3, <3>1 DEF ReplyOK, ScanKinds, Errors
  <2>5. Tells(a[2]) <=> state \in {"started", "busy"}
    BY <2>3 DEF Tells, Errors
  <2>6. IsError(a[2]) => b = board
    BY <1>4, <2>3 DEF IsError
  <2> QED BY <1>4, <2>1, <2>3, <2>4, <2>5, <2>6 DEF Answered
<1>5. CASE c.kind = "status"
  <2>1. PICK state \in {"started", "stopped"} : state = IF board.engine THEN "started" ELSE "stopped"
    OBVIOUS
  <2>2. IsAnswer(a, board, state, "wd", c.id)
    BY <1>5, <2>1, AnswersOf
  <2>3. state \in {"started", "busy"} <=> board.engine
    BY <1>1, <2>1
  <2>4. state \notin Errors
    BY <2>1 DEF Errors
  <2> QED BY <1>1, <1>4, <1>5, <2>2, <2>3, <2>4
<1>6. CASE c.kind = "stop"
  <2>1. CASE board.engine
    <3>0. PICK e \in BOOLEAN : e = FALSE
      OBVIOUS
    <3>1. PICK b : b = [board EXCEPT !.engine = e]
      OBVIOUS
    <3>2. IsAnswer(a, b, "stopped", "wd", c.id)
      BY <1>6, <2>1, <3>0, <3>1, AnswersOf
    <3>3. ~ b.engine
      BY <1>1, <3>0, <3>1, EngineSet
    <3>4. PICK state \in {"stopped"} : state = "stopped" /\ state \notin Errors
      BY DEF Errors
    <3> QED BY <1>4, <1>6, <3>0, <3>1, <3>2, <3>3, <3>4
  <2>2. CASE ~ board.engine
    <3>1. IsAnswer(a, board, "not_running", "wd", c.id)
      BY <1>6, <2>2, AnswersOf
    <3>2. PICK state \in Errors : state = "not_running"
      BY DEF Errors
    <3> QED BY <1>1, <1>4, <1>6, <2>2, <3>1, <3>2
  <2> QED BY <2>1, <2>2
<1>7. CASE c.kind = "start"
  <2>1. CASE board.engine \/ \E k \in ScanKinds : board.scan[k] # NoScan
    <3>1. IsAnswer(a, board, "busy", "wd", c.id)
      BY <1>7, <2>1, AnswersOf
    <3>2. board.engine \/ \E k \in ScanKinds : Scanning(k)
      BY <2>1 DEF ScansOK, Scanning
    <3>3. PICK state \in Errors : state = "busy"
      BY DEF Errors
    <3> QED BY <1>1, <1>4, <1>7, <3>1, <3>2, <3>3
  <2>2. CASE ~ (board.engine \/ \E k \in ScanKinds : board.scan[k] # NoScan)
    <3>0. PICK e \in BOOLEAN : e = TRUE
      OBVIOUS
    <3>1. PICK b : b = [board EXCEPT !.engine = e]
      OBVIOUS
    <3>2. IsAnswer(a, b, "started", "wd", c.id) \/ IsAnswer(a, board, "internal_error", "wd", c.id)
      BY <1>7, <2>2, <3>0, <3>1, AnswersOf
    <3>3. CASE IsAnswer(a, b, "started", "wd", c.id)
      <4>1. b.engine
        BY <1>1, <3>0, <3>1, EngineSet
      <4>2. PICK state \in {"started"} : state = "started" /\ state \notin Errors
        BY DEF Errors
      <4> QED BY <1>4, <1>7, <3>1, <3>3, <4>1, <4>2
    <3>4. CASE IsAnswer(a, board, "internal_error", "wd", c.id)
      <4>1. PICK state \in Errors : state = "internal_error"
        BY DEF Errors
      <4> QED BY <1>1, <1>4, <1>7, <2>2, <3>4, <4>1
    <3> QED BY <3>2, <3>3, <3>4
  <2> QED BY <2>1, <2>2
<1>8. CASE c.kind \in ScanKinds
  <2>0. c.kind \in {"none", "gps", "wd", "wifi", "ble"} /\ c.id # 0
    BY <1>8 DEF ScanKinds
  <2>1. PICK b, s : s = [id |-> c.id, more |-> TRUE] /\ b = WithScan(board, c.kind, s)
    OBVIOUS
  <2>2. \/ board.scan[c.kind] = NoScan /\ IsAnswer(a, b, "silence", c.kind, c.id)
        \/ IsAnswer(a, board, "internal_error", c.kind, c.id)
        \/ IsAnswer(a, board, "busy", c.kind, c.id)
    BY <1>8, <2>1, AnswersOf DEF WithScan
  <2>3. s \in ScanOf /\ s.id = c.id /\ s # NoScan
    BY <1>2, <2>0, <2>1 DEF NoScan, ScanOf
  <2>4. /\ b \in Boards /\ b.engine = board.engine /\ b.seqIn = board.seqIn
        /\ b.refused = board.refused /\ b.scan[c.kind] = s
        /\ \A o \in ScanKinds : o # c.kind => b.scan[o] = board.scan[o]
    <3>1. PICK k \in ScanKinds : k = c.kind
      BY <1>8
    <3>2. b = WithScan(board, k, s)
      BY <2>1, <3>1
    <3>3. /\ b \in Boards /\ b.engine = board.engine /\ b.seqIn = board.seqIn
          /\ b.refused = board.refused /\ b.scan[k] = s
          /\ \A o \in ScanKinds : o # k => b.scan[o] = board.scan[o]
      BY <1>1, <2>3, <3>2, ScanSet
    <3> QED BY <3>1, <3>3
  <2>5. CASE board.scan[c.kind] = NoScan /\ IsAnswer(a, b, "silence", c.kind, c.id)
    <3>1. PICK state \in States : state = "silence"
      BY DEF States
    <3>2. /\ a[1] = b /\ a[2] \in Replies /\ a[2].state = "silence" /\ a[2].id = c.id
      <4>1. IsAnswer(a, b, state, c.kind, c.id)
        BY <2>5, <3>1
      <4> QED BY ONLY <1>2, <2>0, <3>1, <4>1, AnswerIs
    <3>3. ~ Scanning(c.kind)
      BY <1>8, <2>5 DEF ScansOK, Scanning
    <3> QED BY <1>8, <2>3, <2>4, <3>2, <3>3 DEF Answered
  <2>6. ASSUME NEW state \in {"internal_error", "busy"}, IsAnswer(a, board, state, c.kind, c.id)
        PROVE  Answered(c, a[1], a[2])
    <3>1. /\ a[1] = board /\ a[2] \in Replies /\ a[2].state = state /\ a[2].kind = c.kind
          /\ a[2].id = c.id /\ a[2].last
      <4>1. state \in States /\ state # "silence"
        BY DEF States, Errors
      <4> QED BY <1>2, <2>0, <2>6, <4>1, AnswerIs
    <3>2. ReplyOK(a[2]) /\ a[2].kind # "wd" /\ ~ IsError(a[2])
      BY <1>8, <2>0, <3>1 DEF ReplyOK, ScanKinds, IsError
    <3>3. c.kind \notin {"status", "start", "stop", "caps"}
      BY <1>8 DEF ScanKinds
    <3> QED BY <1>1, <3>1, <3>2, <3>3 DEF Answered
  <2>7. PICK s1 \in {"internal_error", "busy"}, s2 \in {"internal_error", "busy"} :
           s1 = "internal_error" /\ s2 = "busy"
    OBVIOUS
  <2> QED BY <2>2, <2>5, <2>6, <2>7
<1> QED BY <1>2, <1>3, <1>5, <1>6, <1>7, <1>8 DEF Kinds, ScanKinds
-----------------------------------------------------------------------------
(* The steps, each by what it does.                                         *)

\* t is s with e behind it.
Extended(s, t, e) ==
  /\ Len(s) \in Nat /\ Len(e) \in Nat /\ Len(t) = Len(s) + Len(e)
  /\ DOMAIN s = 1 .. Len(s) /\ DOMAIN e = 1 .. Len(e) /\ DOMAIN t = 1 .. Len(s) + Len(e)
  /\ \A i \in DOMAIN s : i \in DOMAIN t /\ t[i] = s[i]
  /\ \A j \in DOMAIN e : Len(s) + j \in DOMAIN t /\ Len(s) + j \notin DOMAIN s /\ t[Len(s) + j] = e[j]
  /\ \A i \in DOMAIN t : i \in DOMAIN s \/ \E j \in DOMAIN e : i = Len(s) + j

LEMMA ExtendedIs ==
  ASSUME NEW S, NEW s \in Seq(S), NEW e \in Seq(S)
  PROVE  s \o e \in Seq(S) /\ Extended(s, s \o e, e)
<1> DEFINE t == s \o e
<1>1. /\ t \in Seq(S) /\ Len(t) = Len(s) + Len(e)
      /\ Len(s) \in Nat /\ Len(e) \in Nat /\ DOMAIN s = 1 .. Len(s) /\ DOMAIN e = 1 .. Len(e)
      /\ DOMAIN t = 1 .. Len(s) + Len(e)
      /\ \A i \in DOMAIN s : i \in DOMAIN t /\ t[i] = s[i]
      /\ \A i \in DOMAIN e : Len(s) + i \in DOMAIN t /\ t[Len(s) + i] = e[i]
      /\ \A i \in DOMAIN t : i \notin DOMAIN s => i - Len(s) \in DOMAIN e
  BY ConcatIs
<1> HIDE DEF t
<1>2. \A j \in DOMAIN e : Len(s) + j \notin DOMAIN s
  BY <1>1
<1>3. ASSUME NEW i \in DOMAIN t, i \notin DOMAIN s
      PROVE  \E j \in DOMAIN e : i = Len(s) + j
  <2>1. i - Len(s) \in DOMAIN e /\ i = Len(s) + (i - Len(s))
    BY <1>1, <1>3
  <2> QED BY <2>1
<1> QED BY <1>1, <1>2, <1>3 DEF Extended, t

\* t is s without its first.
Shortened(s, t) ==
  /\ s # << >> /\ Len(s) \in Nat /\ Len(t) = Len(s) - 1
  /\ DOMAIN s = 1 .. Len(s) /\ DOMAIN t = 1 .. Len(s) - 1
  /\ Head(s) = s[1] /\ 1 \in DOMAIN s
  /\ \A i \in DOMAIN t : i + 1 \in DOMAIN s /\ t[i] = s[i + 1]
  /\ \A i \in DOMAIN s : i = 1 \/ \E j \in DOMAIN t : i = j + 1 /\ t[j] = s[i]

LEMMA ShortenedIs ==
  ASSUME NEW S, NEW s \in Seq(S), s # << >>
  PROVE  Tail(s) \in Seq(S) /\ Head(s) \in S /\ Shortened(s, Tail(s))
<1>1. /\ Tail(s) \in Seq(S) /\ Len(Tail(s)) = Len(s) - 1 /\ Len(s) \in Nat
      /\ DOMAIN s = 1 .. Len(s) /\ DOMAIN Tail(s) = 1 .. Len(s) - 1
      /\ Head(s) = s[1] /\ 1 \in DOMAIN s /\ Head(s) \in S
      /\ \A i \in DOMAIN Tail(s) : i + 1 \in DOMAIN s /\ Tail(s)[i] = s[i + 1]
      /\ \A i \in DOMAIN s : i # 1 => i - 1 \in DOMAIN Tail(s) /\ Tail(s)[i - 1] = s[i]
  BY TailIs
<1>2. ASSUME NEW i \in DOMAIN s, i # 1
      PROVE  \E j \in DOMAIN Tail(s) : i = j + 1 /\ Tail(s)[j] = s[i]
  <2>1. i - 1 \in DOMAIN Tail(s) /\ Tail(s)[i - 1] = s[i] /\ i = (i - 1) + 1
    BY <1>1, <1>2
  <2> QED BY <2>1
<1> QED BY <1>1, <1>2 DEF Shortened

\* es is posted: what the queue holds then was there or is of es, and all of it without an overflow.
Grows(es) ==
  /\ es \in Seq(Events)
  /\ events' \in Seq(Events) /\ Len(events') <= QueueDepth
  /\ \A i \in DOMAIN events' : \/ i \in DOMAIN events /\ events'[i] = events[i]
                               \/ \E j \in DOMAIN es : events'[i] = es[j]
  /\ "overflow" \notin raced' => "overflow" \notin raced /\ Extended(events, events', es)
  /\ raced \subseteq raced' /\ raced' \subseteq Timings

LEMMA GrowsIs ==
  ASSUME TypeInv, NEW es \in Seq(Events), events' = Posted(es),
         raced \cup Dropped(es) \subseteq raced', raced' \subseteq Timings
  PROVE  Grows(es)
<1>1. events \in Seq(Events) /\ raced \subseteq Timings
  BY DEF TypeInv
<1>2. /\ Posted(es) \in Seq(Events) /\ Len(Posted(es)) <= QueueDepth
      /\ Dropped(es) \subseteq {"overflow"}
      /\ \A i \in DOMAIN Posted(es) :
              \/ i \in DOMAIN events /\ Posted(es)[i] = events[i]
              \/ \E j \in DOMAIN es : Posted(es)[i] = es[j]
      /\ "overflow" \notin Dropped(es) => Posted(es) = events \o es
  BY PostedIs
<1>3. "overflow" \notin raced' => "overflow" \notin raced /\ Extended(events, events', es)
  <2>1. Extended(events, events \o es, es)
    BY <1>1, ExtendedIs
  <2> QED BY <1>2, <2>1
<1> QED BY <1>2, <1>3 DEF Grows

\* The first event is taken.
Takes ==
  /\ events' \in Seq(Events) /\ Len(events') <= QueueDepth
  /\ Shortened(events, events') /\ Head(events) \in Events

LEMMA TakesIs ==
  ASSUME TypeInv, events # << >>, events' = Tail(events)
  PROVE  Takes
<1>1. events \in Seq(Events) /\ Len(events) <= QueueDepth /\ QueueDepth \in Nat
  BY FlipperAppAssumption DEF TypeInv
<1>2. events' \in Seq(Events) /\ Head(events) \in Events /\ Shortened(events, events')
  BY <1>1, ShortenedIs
<1>3. Len(events') = Len(events) - 1 /\ Len(events) \in Nat
  BY <1>2 DEF Shortened
<1> QED BY <1>1, <1>2, <1>3 DEF Takes

\* What is always so of the records on their way to the board ...
RecsOK ==
  /\ \A r \in Recs : /\ r.session <= session /\ r.cmd.id <= count
                     /\ r.cmd.kind \in {"gps", "caps"} <=> r.cmd.id = 0
  /\ \A r, s \in Recs : r.cmd.id = s.cmd.id /\ r.cmd.id # 0 => r = s

\* ... of a link nobody is behind ...
LinkOK ==
  /\ link # "auth" => /\ toB = << >> /\ toF = << >> /\ worker = "idle"
                      /\ \A k \in ScanKinds : board.scan[k] = NoScan
  /\ link = "up" => mid["worker"] = NoRecord

\* ... of what the board says and does ...
BoardOK ==
  /\ \A i \in DOMAIN toF : ReplyOK(toF[i]) /\ toF[i].id <= count
  /\ ScansOK
  /\ \A k \in ScanKinds : board.scan[k].id <= count

\* ... and of the rows on the screens: they are of scans that were asked for.
RowsOK ==
  /\ \A k \in ScanKinds : ui.scan[k].rows \subseteq 1 .. count
  /\ \A i \in DOMAIN events : events[i].type = "row" => events[i].id \in 1 .. count

Core == TypeInv /\ RecsOK /\ LinkOK /\ BoardOK /\ RowsOK

Transmitting(t, x) ==
  /\ t \in Threads /\ mid[t] # NoRecord
  /\ x \in Recs /\ x = IF mid[t].cmd.kind = "caps" THEN mid[t] ELSE buf
  /\ toB' \in Seq(Records)
  /\ IF link # "auth" THEN toB' = toB ELSE Extended(toB, toB', << x >>)
  /\ seqOut' = seqOut + 1
  /\ mid' = [mid EXCEPT ![t] = NoRecord]
  /\ buf' = IF \E o \in Threads \ {t} : mid[o] # NoRecord THEN buf ELSE NoRecord
  /\ UNCHANGED <<ui, events, pending, worker, cached, link, session, toF, board, count,
                 unasked, owed, raced>>

LEMMA TransmitIs ==
  ASSUME TypeInv, NEW t \in Threads, Transmit(t)
  PROVE  \E x : Transmitting(t, x)
<1> DEFINE y == IF mid[t].cmd.kind = "caps" THEN mid[t] ELSE buf
<1>1. PICK x : x = y
  OBVIOUS
<1>2. /\ mid[t] # NoRecord /\ seqOut' = seqOut + 1
      /\ mid' = [mid EXCEPT ![t] = NoRecord]
      /\ buf' = IF \E o \in Threads \ {t} : mid[o] # NoRecord THEN buf ELSE NoRecord
      /\ toB' = IF link # "auth" THEN toB ELSE Append(toB, x)
      /\ UNCHANGED <<ui, events, pending, worker, cached, link, session, toF, board, count,
                     unasked, owed, raced>>
  BY <1>1 DEF Transmit, NextNumber
<1>3. mid[t] \in Records /\ toB \in Seq(Records)
  BY <1>2 DEF TypeInv
<1>4. x \in Records /\ (x = mid[t] \/ x = buf)
  BY <1>1, <1>2, <1>3 DEF TypeInv
<1>5. x \in Recs
  BY <1>4 DEF Recs, Threads
<1>6. toB' \in Seq(Records) /\ IF link # "auth" THEN toB' = toB ELSE Extended(toB, toB', << x >>)
  <2>1. << x >> \in Seq(Records)
    BY <1>4, OneIs
  <2>2. Append(toB, x) = toB \o << x >>
    BY <1>3, <1>4, AppendIsConcat
  <2>3. toB \o << x >> \in Seq(Records) /\ Extended(toB, toB \o << x >>, << x >>)
    BY <1>3, <2>1, ExtendedIs
  <2> QED BY <1>2, <1>3, <2>2, <2>3
<1> QED BY <1>1, <1>2, <1>5, <1>6 DEF Transmitting

Posting(es) ==
  /\ Grows(es)
  /\ \/ /\ link = "down" /\ link' = "up" /\ session < MaxSessions /\ mid["worker"] = NoRecord
        /\ worker' = worker /\ es = << Event("connected") >>
     \/ link = "auth" /\ link' = "auth" /\ worker' = "ask" /\ es = << Event("caps") >>
     \/ link' = link /\ worker' = worker /\ es = << Event("tick") >>
  /\ UNCHANGED <<ui, pending, seqOut, buf, mid, cached, session, toB, toF, board, count, unasked, owed>>

Authenticating ==
  /\ Grows(<< Event("active") >>)
  /\ link = "up" /\ link' = "auth" /\ mid["worker"] = NoRecord /\ ~ Waits(Resets)
  /\ session' = session + 1 /\ seqOut' = 1 /\ worker' = "bootstrap"
  /\ board' \in Boards /\ board'.seqIn = 1 /\ board'.engine = board.engine
  /\ board'.scan = board.scan /\ board'.refused = board.refused
  /\ UNCHANGED <<ui, pending, buf, mid, cached, toB, toF, count, unasked, owed>>

Dropping ==
  /\ Grows(<< Event("advertising") >>)
  /\ link # "down" /\ link' = "down" /\ toB' = << >> /\ toF' = << >> /\ worker' = "idle" /\ owed' = {}
  /\ board' \in Boards /\ board'.seqIn = board.seqIn /\ board'.engine = board.engine
  /\ \A k \in ScanKinds : board'.scan[k] = NoScan
  /\ board'.refused => \/ board.refused
                       \/ /\ link = "auth" /\ toB # << >>
                          /\ toB[1].seq # board.seqIn \/ toB[1].session # session
  /\ UNCHANGED <<ui, pending, seqOut, buf, mid, cached, session, count, unasked>>

LEMMA AppEventsAre ==
  /\ << Event("connected") >> \in Seq(Events) /\ << Event("caps") >> \in Seq(Events)
  /\ << Event("tick") >> \in Seq(Events) /\ << Event("active") >> \in Seq(Events)
  /\ << Event("advertising") >> \in Seq(Events)
<1>1. {"connected", "caps", "tick", "active", "advertising"} \subseteq Signals
  BY DEF Signals, Resets
<1> QED BY <1>1, EventsAre, OneIs

LEMMA OneDropped ==
  ASSUME TypeInv, NEW es \in Seq(Events)
  PROVE  raced \cup Dropped(es) \subseteq Timings
BY DEF TypeInv, Dropped, Timings

LEMMA PostingIs ==
  ASSUME TypeInv, Connect \/ BootstrapCached \/ GpsTick
  PROVE  \E es : Posting(es)
<1>1. CASE Connect
  <2> DEFINE es == << Event("connected") >>
  <2>1. es \in Seq(Events) /\ raced' = raced \cup Dropped(es) /\ events' = Posted(es)
    BY <1>1, AppEventsAre DEF Connect
  <2>2. Grows(es)
    <3> HIDE DEF es
    <3> QED BY <2>1, OneDropped, GrowsIs
  <2> QED BY <1>1, <2>2 DEF Connect, Posting
<1>2. CASE BootstrapCached
  <2> DEFINE es == << Event("caps") >>
  <2>1. es \in Seq(Events) /\ raced' = raced \cup Dropped(es) /\ events' = Posted(es)
    BY <1>2, AppEventsAre DEF BootstrapCached
  <2>2. Grows(es)
    <3> HIDE DEF es
    <3> QED BY <2>1, OneDropped, GrowsIs
  <2> QED BY <1>2, <2>2 DEF BootstrapCached, Posting, Worker
<1>3. CASE GpsTick
  <2> DEFINE e == Event("tick")
             es == << e >>
  <2>1. es \in Seq(Events) /\ e \in Events /\ events \in Seq(Events) /\ raced \subseteq Timings
    BY EventsAre, AppEventsAre DEF TypeInv, Signals
  <2>2. events' = events \o es
    <3> HIDE DEF e
    <3>1. events' = Append(events, e)
      BY <1>3 DEF GpsTick, e
    <3> QED BY <2>1, <3>1, AppendIsConcat
  <2>3. Len(events) < QueueDepth /\ raced' = raced
    BY <1>3 DEF GpsTick
  <2>4. Len(es) = 1 /\ QueueDepth \in Nat
    BY FlipperAppAssumption
  <2> HIDE DEF es
  <2>5. events' \in Seq(Events) /\ Extended(events, events', es)
    BY <2>1, <2>2, ExtendedIs
  <2>6. Len(events') <= QueueDepth
    BY <2>3, <2>4, <2>5 DEF Extended
  <2>7. Grows(es)
    BY <2>1, <2>3, <2>5, <2>6 DEF Grows, Extended
  <2> QED BY <1>3, <2>7 DEF GpsTick, Posting, es
<1> QED BY <1>1, <1>2, <1>3

LEMMA AuthenticateIs ==
  ASSUME TypeInv, Authenticate
  PROVE  Authenticating
<1> DEFINE es == << Event("active") >>
<1>1. es \in Seq(Events) /\ raced' = raced \cup Dropped(es) /\ events' = Posted(es)
  BY AppEventsAre DEF Authenticate
<1>2. Grows(es)
  <2> HIDE DEF es
  <2> QED BY <1>1, OneDropped, GrowsIs
<1>3. /\ board' \in Boards /\ board'.seqIn = 1 /\ board'.engine = board.engine
      /\ board'.scan = board.scan /\ board'.refused = board.refused
  BY DEF Authenticate, TypeInv, Boards
<1> QED BY <1>2, <1>3 DEF Authenticate, Authenticating, Resets

LEMMA ClearScansIs ==
  ASSUME NEW b \in Boards
  PROVE  LET c == [b EXCEPT !.scan = [k \in ScanKinds |-> NoScan]]
         IN  /\ c \in Boards /\ c.seqIn = b.seqIn /\ c.engine = b.engine /\ c.refused = b.refused
             /\ \A k \in ScanKinds : c.scan[k] = NoScan
BY DEF Boards, NoScan

LEMMA GoneIs ==
  ASSUME TypeInv, Gone
  PROVE  Grows(<< Event("advertising") >>)
<1> DEFINE es == << Event("advertising") >>
<1>1. es \in Seq(Events) /\ raced' = raced \cup Dropped(es) /\ events' = Posted(es)
  BY AppEventsAre DEF Gone
<1> HIDE DEF es
<1>2. Grows(es)
  BY <1>1, OneDropped, GrowsIs
<1> QED BY <1>2 DEF es

LEMMA DisconnectIs ==
  ASSUME TypeInv, Disconnect
  PROVE  Dropping
<1>1. Gone /\ board' = [board EXCEPT !.scan = [k \in ScanKinds |-> NoScan]] /\ link # "down"
  BY DEF Disconnect
<1>2. board \in Boards
  BY DEF TypeInv
<1>3. /\ board' \in Boards /\ board'.seqIn = board.seqIn /\ board'.engine = board.engine
      /\ board'.refused = board.refused /\ \A k \in ScanKinds : board'.scan[k] = NoScan
  BY <1>1, <1>2, ClearScansIs
<1>4. Grows(<< Event("advertising") >>)
  BY <1>1, GoneIs
<1> QED BY <1>1, <1>3, <1>4 DEF Dropping, Gone

\* The board takes the record h, is b but for the next number, and answers r.
Accepting(h, b, r) ==
  /\ link = "auth" /\ h = toB[1] /\ h \in Recs /\ h.seq = board.seqIn /\ h.session = session
  /\ Answered(h.cmd, b, r)
  /\ board' \in Boards /\ board'.seqIn = board.seqIn + 1 /\ board'.engine = b.engine
  /\ board'.scan = b.scan /\ board'.refused = b.refused
  /\ toB' \in Seq(Records) /\ Shortened(toB, toB')
  /\ toF' \in Seq(Replies)
  /\ IF r.state = "silence" THEN toF' = toF ELSE Extended(toF, toF', << r >>)
  /\ UNCHANGED <<ui, events, pending, seqOut, buf, mid, worker, cached, link, session,
                 count, unasked, owed, raced>>

LEMMA StepSeq ==
  ASSUME NEW d \in Boards, NEW b, b = [d EXCEPT !.seqIn = @ + 1]
  PROVE  /\ b \in Boards /\ b.seqIn = d.seqIn + 1 /\ b.engine = d.engine /\ b.scan = d.scan
         /\ b.refused = d.refused
BY DEF Boards

LEMMA BoardHandlesIs ==
  ASSUME Core, BoardHandles
  PROVE  Dropping \/ \E h, b, r : Accepting(h, b, r)
<1>1. TypeInv /\ board \in Boards /\ toB \in Seq(Records) /\ toF \in Seq(Replies)
  BY DEF Core, TypeInv
<1>2. link = "auth" /\ toB # << >>
  BY DEF BoardHandles
<1>3. PICK h : h = Head(toB)
  OBVIOUS
<1>4. /\ Tail(toB) \in Seq(Records) /\ h \in Records /\ Shortened(toB, Tail(toB))
      /\ h = toB[1] /\ 1 \in DOMAIN toB
  <2>1. Tail(toB) \in Seq(Records) /\ Head(toB) \in Records /\ Shortened(toB, Tail(toB))
    BY <1>1, <1>2, ShortenedIs
  <2> QED BY <1>3, <2>1 DEF Shortened
<1>5. CASE h.seq # board.seqIn \/ h.session # session
  <2>1. Gone /\ board' = [board EXCEPT !.scan = [k \in ScanKinds |-> NoScan], !.refused = TRUE]
    BY <1>3, <1>5 DEF BoardHandles
  <2>2. /\ board' \in Boards /\ board'.seqIn = board.seqIn /\ board'.engine = board.engine
        /\ \A k \in ScanKinds : board'.scan[k] = NoScan
    BY <1>1, <2>1 DEF Boards, NoScan
  <2>3. Grows(<< Event("advertising") >>)
    BY <1>1, <2>1, GoneIs
  <2> QED BY <1>2, <1>4, <1>5, <2>1, <2>2, <2>3 DEF Dropping, Gone
<1>6. CASE ~ (h.seq # board.seqIn \/ h.session # session)
  <2>1. PICK a \in Answers(h.cmd) :
          /\ board' = [a[1] EXCEPT !.seqIn = @ + 1]
          /\ toF' = IF a[2].state = "silence" THEN toF ELSE Append(toF, a[2])
    BY <1>3, <1>6 DEF BoardHandles
  <2>2. /\ toB' = Tail(toB)
        /\ UNCHANGED <<ui, events, pending, seqOut, buf, mid, worker, cached, link, session,
                       count, unasked, owed, raced>>
    BY <1>3, <1>6 DEF BoardHandles
  <2>3. h \in Recs
    BY <1>4 DEF Recs
  <2>4. h.cmd \in [kind : Kinds, id : Nat] /\ (h.cmd.kind \in {"gps", "caps"} <=> h.cmd.id = 0)
    BY <1>4, <2>3 DEF Records, Core, RecsOK
  <2>5. ScansOK
    BY DEF Core, BoardOK
  <2>6. PICK c : c = h.cmd
    OBVIOUS
  <2>7. Answered(c, a[1], a[2])
    BY <1>1, <2>1, <2>4, <2>5, <2>6, AnswersAre
  <2>8. PICK b, r : b = a[1] /\ r = a[2]
    OBVIOUS
  <2>9. b \in Boards /\ r \in Replies /\ b.seqIn = board.seqIn
    BY <2>7, <2>8 DEF Answered
  <2>10. /\ board' \in Boards /\ board'.seqIn = board.seqIn + 1 /\ board'.engine = b.engine
         /\ board'.scan = b.scan /\ board'.refused = b.refused
    BY <2>1, <2>8, <2>9, StepSeq
  <2>11. toF' \in Seq(Replies) /\ IF r.state = "silence" THEN toF' = toF ELSE Extended(toF, toF', << r >>)
    <3>1. << r >> \in Seq(Replies)
      BY <2>9, OneIs
    <3>2. Append(toF, r) = toF \o << r >>
      BY <1>1, <2>9, AppendIsConcat
    <3>3. toF \o << r >> \in Seq(Replies) /\ Extended(toF, toF \o << r >>, << r >>)
      BY <1>1, <3>1, ExtendedIs
    <3> QED BY <1>1, <2>1, <2>8, <3>2, <3>3
  <2>12. Answered(h.cmd, b, r)
    BY <2>6, <2>7, <2>8
  <2> QED BY <1>2, <1>4, <1>6, <2>2, <2>3, <2>10, <2>11, <2>12 DEF Accepting
<1> QED BY <1>5, <1>6

\* A batch of results or the end of the scan of kind k, ...
Results(k, r) ==
  /\ ReplyOK(r) /\ r.kind = k /\ r.id # 0 /\ r.id = board.scan[k].id
  /\ \A o \in ScanKinds : o # k => board'.scan[o] = board.scan[o]
  /\ IF r.last THEN board'.scan[k] = NoScan ELSE board'.scan[k].id = r.id /\ board'.scan[k] # NoScan
  /\ board'.engine = board.engine /\ raced' = raced

\* ... of captures, or the two replies of an engine that stops itself.
Captures(r) ==
  /\ ReplyOK(r) /\ r.kind = "wd" /\ r.state = "data" /\ r.id = 0 /\ ~ r.last
  /\ board' = board /\ (board.engine \/ "drain_stopped" \in raced')
Stops(r, s) ==
  /\ ReplyOK(r) /\ r.kind = "wd" /\ r.state = "internal_error" /\ r.id = 0 /\ ~ r.last
  /\ ReplyOK(s) /\ s.kind = "wd" /\ s.state = "stopped" /\ s.id = 0 /\ ~ s.last
  /\ board'.scan = board.scan /\ ~ board'.engine /\ raced' = raced

\* The board says rs.
Saying(rs) ==
  /\ link = "auth" /\ toF' \in Seq(Replies) /\ Extended(toF, toF', rs)
  /\ board' \in Boards /\ board'.seqIn = board.seqIn /\ board'.refused = board.refused
  /\ \/ \E k \in ScanKinds, r \in Replies : rs = << r >> /\ Results(k, r)
     \/ \E r \in Replies : rs = << r >> /\ Captures(r)
     \/ \E r \in Replies, s \in Replies : rs = << r, s >> /\ Stops(r, s)
  /\ raced \subseteq raced' /\ raced' \subseteq Timings /\ unasked' \in Nat
  /\ UNCHANGED <<ui, events, pending, seqOut, buf, mid, worker, cached, link, session, toB,
                 count, owed>>

LEMMA SaysIs ==
  ASSUME TypeInv, NEW rs \in Seq(Replies), BoardSays(rs)
  PROVE  toF' \in Seq(Replies) /\ Extended(toF, toF', rs)
<1>1. toF \in Seq(Replies) /\ toF' = toF \o rs
  BY DEF TypeInv, BoardSays
<1> QED BY <1>1, ExtendedIs

\* A reply of the board that nobody asked for.
Said(state, kind, id, last, r) ==
  r \in Replies /\ r.state = state /\ r.kind = kind /\ r.id = id /\ r.last = last

LEMMA ScanSaysIs ==
  ASSUME Core, NEW k \in ScanKinds, Partial(k) \/ Complete(k)
  PROVE  \E rs : Saying(rs)
<1>1. TypeInv /\ board \in Boards /\ ScansOK /\ unasked' \in Nat /\ raced \subseteq Timings /\ raced' = raced
  BY DEF Core, BoardOK, TypeInv, Partial, Complete
<1>2. board.scan[k].id \in Nat /\ board.scan[k].id = 0 <=> board.scan[k] = NoScan
  BY <1>1 DEF ScansOK, Boards
<1>3. board.scan[k] \in ScanOf /\ board.scan[k].id # 0
  BY <1>1 DEF Partial, Complete, ScansOK, Boards, NoScan, ScanOf
<1>4. CASE Partial(k)
  <2>1. PICK r : r = Reply("partial", k, board.scan[k].id, FALSE)
    OBVIOUS
  <2>2. r \in Replies /\ r.state = "partial" /\ r.kind = k /\ r.id = board.scan[k].id /\ ~ r.last
    BY <1>3, <2>1 DEF Reply, Replies, States, ScanKinds, ScanOf
  <2>3. ReplyOK(r)
    BY <1>3, <2>2 DEF ReplyOK, ScanKinds
  <2>4. toF' \in Seq(Replies) /\ Extended(toF, toF', << r >>)
    <3>1. << r >> \in Seq(Replies) /\ BoardSays(<< r >>)
      BY <1>4, <2>1, <2>2, OneIs DEF Partial
    <3> QED BY <1>1, <3>1, SaysIs
  <2>5. PICK s : s = [board.scan[k] EXCEPT !.more = FALSE]
    OBVIOUS
  <2>6. s \in ScanOf /\ s.id = board.scan[k].id /\ s # NoScan
    BY <1>3, <2>5 DEF ScanOf, NoScan
  <2>7. board' = WithScan(board, k, s)
    BY <1>4, <2>5 DEF Partial, WithScan
  <2>8. /\ board' \in Boards /\ board'.engine = board.engine /\ board'.seqIn = board.seqIn
        /\ board'.refused = board.refused /\ board'.scan[k] = s
        /\ \A o \in ScanKinds : o # k => board'.scan[o] = board.scan[o]
    BY <1>1, <2>6, <2>7, ScanSet
  <2>9. Results(k, r)
    BY <1>1, <1>3, <2>2, <2>3, <2>6, <2>8 DEF Results
  <2> QED BY <1>1, <1>4, <2>2, <2>4, <2>8, <2>9 DEF Saying, Partial, BoardSays
<1>5. CASE Complete(k)
  <2>1. PICK last \in BOOLEAN : last = TRUE
    OBVIOUS
  <2>2. PICK r : r = Reply("complete", k, board.scan[k].id, last)
    OBVIOUS
  <2>3. r \in Replies /\ r.state = "complete" /\ r.kind = k /\ r.id = board.scan[k].id /\ r.last
    BY <1>3, <2>1, <2>2 DEF Reply, Replies, States, ScanKinds, ScanOf
  <2>4. ReplyOK(r)
    BY <1>3, <2>3 DEF ReplyOK, ScanKinds
  <2>5. toF' \in Seq(Replies) /\ Extended(toF, toF', << r >>)
    <3>1. << r >> \in Seq(Replies) /\ BoardSays(<< r >>)
      BY <1>5, <2>1, <2>2, <2>3, OneIs DEF Complete
    <3> QED BY <1>1, <3>1, SaysIs
  <2>6. NoScan \in ScanOf
    BY DEF NoScan, ScanOf
  <2>7. board' = WithScan(board, k, NoScan)
    BY <1>5 DEF Complete, WithScan
  <2>8. /\ board' \in Boards /\ board'.engine = board.engine /\ board'.seqIn = board.seqIn
        /\ board'.refused = board.refused /\ board'.scan[k] = NoScan
        /\ \A o \in ScanKinds : o # k => board'.scan[o] = board.scan[o]
    BY <1>1, <2>6, <2>7, ScanSet
  <2>9. Results(k, r)
    BY <1>1, <1>3, <2>3, <2>4, <2>8 DEF Results
  <2> QED BY <1>1, <1>5, <2>3, <2>5, <2>8, <2>9 DEF Saying, Complete, BoardSays
<1> QED BY <1>4, <1>5

LEMMA EngineSaysIs ==
  ASSUME Core, Drain \/ SelfStop
  PROVE  \E rs : Saying(rs)
<1>1. TypeInv /\ board \in Boards /\ unasked' \in Nat /\ raced \subseteq Timings
  BY DEF Core, TypeInv, Drain, SelfStop
<1>2. CASE Drain
  <2>1. PICK r : r = Reply("data", "wd", 0, FALSE)
    OBVIOUS
  <2>2. r \in Replies /\ r.state = "data" /\ r.kind = "wd" /\ r.id = 0 /\ ~ r.last
    BY <2>1 DEF Reply, Replies, States
  <2>3. ReplyOK(r)
    BY <2>2 DEF ReplyOK, ScanKinds
  <2>4. toF' \in Seq(Replies) /\ Extended(toF, toF', << r >>)
    <3>1. << r >> \in Seq(Replies) /\ BoardSays(<< r >>)
      BY <1>2, <2>1, <2>2, OneIs DEF Drain
    <3> QED BY <1>1, <3>1, SaysIs
  <2>5. raced \subseteq raced' /\ raced' \subseteq Timings /\ (board.engine \/ "drain_stopped" \in raced')
    BY <1>1, <1>2 DEF Drain, Timings
  <2>6. Captures(r)
    BY <1>2, <2>2, <2>3, <2>5 DEF Captures, Drain
  <2> QED BY <1>1, <1>2, <2>2, <2>4, <2>5, <2>6 DEF Saying, Drain, BoardSays
<1>3. CASE SelfStop
  <2>1. PICK r : r = Reply("internal_error", "wd", 0, FALSE)
    OBVIOUS
  <2>2. r \in Replies /\ r.state = "internal_error" /\ r.kind = "wd" /\ r.id = 0 /\ ~ r.last
    BY <2>1 DEF Reply, Replies, States, Errors
  <2>3. PICK s : s = Reply("stopped", "wd", 0, FALSE)
    OBVIOUS
  <2>4. s \in Replies /\ s.state = "stopped" /\ s.kind = "wd" /\ s.id = 0 /\ ~ s.last
    BY <2>3 DEF Reply, Replies, States
  <2>5. ReplyOK(r) /\ ReplyOK(s)
    BY <2>2, <2>4 DEF ReplyOK, ScanKinds, Errors
  <2>6. toF' \in Seq(Replies) /\ Extended(toF, toF', << r, s >>)
    <3>1. << r, s >> \in Seq(Replies) /\ BoardSays(<< r, s >>)
      BY <1>3, <2>1, <2>2, <2>3, <2>4, TwoIs DEF SelfStop
    <3> QED BY <1>1, <3>1, SaysIs
  <2>7. PICK e \in BOOLEAN : e = FALSE
    OBVIOUS
  <2>8. board' = [board EXCEPT !.engine = e] /\ raced' = raced
    BY <1>3, <2>7 DEF SelfStop
  <2>9. /\ board' \in Boards /\ board'.engine = e /\ board'.scan = board.scan
        /\ board'.seqIn = board.seqIn /\ board'.refused = board.refused
    BY <1>1, <2>8, EngineSet
  <2>10. Stops(r, s)
    BY <2>2, <2>4, <2>5, <2>7, <2>8, <2>9 DEF Stops
  <2> QED BY <1>1, <1>3, <2>2, <2>4, <2>6, <2>8, <2>9, <2>10 DEF Saying, SelfStop, BoardSays
<1> QED BY <1>2, <1>3

Buttoning ==
  /\ board' \in Boards /\ board'.seqIn = board.seqIn /\ board'.scan = board.scan
  /\ board'.refused = board.refused
  /\ link = "auth" => "button" \in raced'
  /\ raced \subseteq raced' /\ raced' \subseteq Timings /\ unasked' \in Nat
  /\ UNCHANGED <<ui, events, pending, seqOut, buf, mid, worker, cached, link, session, toB, toF,
                 count, owed>>

LEMMA ButtonIs ==
  ASSUME TypeInv, Button
  PROVE  Buttoning
<1>1. board \in Boards /\ unasked' \in Nat /\ raced \subseteq Timings
  BY DEF TypeInv, Button
<1>2. PICK e \in BOOLEAN : e = ~ board.engine
  BY <1>1 DEF Boards
<1>3. board' = [board EXCEPT !.engine = e]
  BY <1>2 DEF Button
<1>4. /\ board' \in Boards /\ board'.scan = board.scan /\ board'.seqIn = board.seqIn
      /\ board'.refused = board.refused
  BY <1>1, <1>3, EngineSet
<1>5. /\ link = "auth" => "button" \in raced'
      /\ raced \subseteq raced' /\ raced' \subseteq Timings
  BY <1>1 DEF Button, Timings
<1> QED BY <1>1, <1>4, <1>5 DEF Button, Buttoning

Handling(es, p) ==
  /\ link = "auth" /\ worker = "idle" /\ mid["worker"] = NoRecord
  /\ Fits(es, p, Head(toF)) /\ Grows(es)
  /\ Shortened(toF, toF') /\ toF' \in Seq(Replies) /\ Head(toF) \in Replies
  /\ pending' = p /\ cached' \in BOOLEAN
  /\ owed' = IF Head(toF).last THEN owed \ {Head(toF).id} ELSE owed
  /\ Head(toF).id = 0 /\ Head(toF).state \in {"stopped", "internal_error"} /\ owed # {}
       => "unsolicited" \in raced'
  /\ UNCHANGED <<ui, seqOut, buf, mid, worker, link, session, toB, board, count, unasked>>

LEMMA HandlingIs ==
  ASSUME TypeInv, HandlerStep
  PROVE  \E es, p : Handling(es, p)
<1>1. PICK es, p : Handle(es, p) /\ Fits(es, p, Head(toF)) /\ cached' \in BOOLEAN
  BY HandlerIs
<1>2. es \in Seq(Events) /\ toF \in Seq(Replies) /\ toF # << >>
  BY <1>1 DEF Fits, TypeInv, Handle
<1>3. toF' \in Seq(Replies) /\ Head(toF) \in Replies /\ Shortened(toF, toF')
  BY <1>1, <1>2, ShortenedIs DEF Handle
<1> DEFINE c == Head(toF).id = 0 /\ Head(toF).state \in {"stopped", "internal_error"} /\ owed # {}
<1>4. raced' = raced \cup Dropped(es) \cup (IF c THEN {"unsolicited"} ELSE {})
  BY <1>1 DEF Handle
<1>5. c => "unsolicited" \in raced'
  BY <1>4
<1>6. raced \cup Dropped(es) \subseteq raced' /\ raced' \subseteq Timings
  <2>1. raced \cup Dropped(es) \subseteq Timings
    BY <1>2, OneDropped
  <2> QED BY <1>4, <2>1 DEF Timings
<1> HIDE DEF c
<1>7. Grows(es)
  BY <1>1, <1>2, <1>6, GrowsIs DEF Handle
<1> QED BY <1>1, <1>3, <1>5, <1>7 DEF Handling, Handle, Worker, c

\* Thread t takes the command, as the record r.
Sent(t, kind, id, r) ==
  /\ t \in Threads /\ kind \in Kinds /\ id \in Nat /\ count' \in Nat /\ count <= count'
  /\ Encoded(t, kind, id, r)
  /\ IF kind \in {"gps", "caps"} THEN id = 0 ELSE id = count + 1 /\ count' = count + 1
  /\ pending' \in Commands
  /\ events' = events \/ (Takes /\ Head(events).type = "tick")
  /\ IF t = "worker"
     THEN /\ link = "auth" /\ kind \in {"caps", "status"} /\ worker' \in {"ask", "idle"}
          /\ UNCHANGED <<ui, events>>
     ELSE /\ t = "main" /\ ui.active /\ kind # "caps" /\ KeyUi(ui', kind) /\ worker' = worker
  /\ UNCHANGED <<seqOut, cached, link, session, toB, toF, board, unasked>>

LEMMA SentIs ==
  ASSUME TypeInv, NEW t, NEW kind \in Kinds, NEW id, Sending(t, kind, id)
  PROVE  \E r : Sent(t, kind, id, r)
<1>1. /\ t \in Threads /\ id \in Nat /\ count' \in Nat /\ count <= count'
      /\ (\E r : Encoded(t, kind, id, r)) /\ pending' \in Commands
  BY SendingIs
<1>2. events' = events \/ (Takes /\ Head(events).type = "tick")
  BY TakesIs DEF Sending
<1> QED BY <1>1, <1>2 DEF Sending, Sent

Showing(p) ==
  /\ mid["main"] = NoRecord /\ KeyUi(ui', "none")
  /\ p \in {pending, "none"} /\ pending' = p
  /\ p = pending \/ \A k \in ScanKinds : ~ ui'.scan[k].progress
  /\ UNCHANGED <<events, mid, buf, owed, raced, count, seqOut, worker, cached, link, session, toB,
                 toF, board, unasked>>

LEMMA ShowingIs ==
  ASSUME Shown
  PROVE  \E p : Showing(p)
BY DEF Shown, Showing, Shows, Main, UnlessUi

Reading ==
  /\ mid["main"] = NoRecord /\ Takes /\ Sees(Head(events), ui')
  /\ pending' = IF Head(events).type \in Resets THEN "none" ELSE pending
  /\ raced \subseteq raced' /\ raced' \subseteq Timings /\ raced' \subseteq raced \cup {"reset_on_gps"}
  /\ Head(events).type \in Resets /\ ui.screen = "gps" => "reset_on_gps" \in raced'
  /\ UNCHANGED <<mid, buf, owed, count, seqOut, worker, cached, link, session, toB, toF, board,
                 unasked>>

LEMMA ReadingIs ==
  ASSUME TypeInv, MainEvent
  PROVE  Reading
<1>1. /\ mid["main"] = NoRecord /\ events # << >> /\ Sees(Head(events), ui')
      /\ events' = Tail(events)
      /\ pending' = IF Head(events).type \in Resets THEN "none" ELSE pending
      /\ raced \subseteq raced' /\ raced' \subseteq raced \cup {"reset_on_gps"}
      /\ Head(events).type \in Resets /\ ui.screen = "gps" => "reset_on_gps" \in raced'
      /\ UNCHANGED <<mid, buf, owed, count, UnlessUi>>
  BY MainEventIs
<1>2. raced' \subseteq Timings
  BY <1>1 DEF TypeInv, Timings
<1>3. Takes
  BY <1>1, TakesIs
<1> QED BY <1>1, <1>2, <1>3 DEF Reading, UnlessUi

Moved ==
  \/ \E t, kind, id, r : Sent(t, kind, id, r)
  \/ \E t, x : Transmitting(t, x)
  \/ \E p : Showing(p)
  \/ Reading
  \/ \E es, p : Handling(es, p)
  \/ \E es : Posting(es)
  \/ Authenticating \/ Dropping
  \/ \E h, b, r : Accepting(h, b, r)
  \/ \E rs : Saying(rs)
  \/ Buttoning \/ Idles \/ UNCHANGED vars

LEMMA NextIs ==
  ASSUME Core, [Next]_vars
  PROVE  Moved
<1>1. TypeInv
  BY DEF Core
<1>2. \/ UNCHANGED vars
      \/ Connect \/ BootstrapCached \/ GpsTick \/ Authenticate \/ Disconnect
      \/ BootstrapQuery \/ AskStatus \/ PollGps
      \/ HandlerStep \/ MainEvent \/ UserStep
      \/ (\E t \in Threads : Transmit(t))
      \/ BoardHandles \/ Drain \/ SelfStop \/ Button
      \/ \E k \in ScanKinds : Partial(k) \/ Complete(k)
  BY DEF Next, Step, WorkerStep, HandlerStep
<1>3. CASE Connect \/ BootstrapCached \/ GpsTick
  BY <1>1, <1>3, PostingIs DEF Moved
<1>4. CASE Authenticate \/ Disconnect
  BY <1>1, <1>4, AuthenticateIs, DisconnectIs DEF Moved
<1>5. ASSUME NEW t, NEW kind \in Kinds, NEW id, Sending(t, kind, id)
      PROVE  Moved
  BY <1>1, <1>5, SentIs DEF Moved
<1>6. CASE BootstrapQuery \/ AskStatus \/ PollGps
  <2>1. \/ Idles
        \/ Sending("worker", "caps", 0) \/ Sending("worker", "status", count + 1)
        \/ Sending("main", "gps", 0)
    BY <1>1, <1>6, OtherSends
  <2>2. {"caps", "status", "gps"} \subseteq Kinds
    BY DEF Kinds
  <2> QED BY <1>5, <2>1, <2>2 DEF Moved
<1>7. CASE UserStep
  <2>1. \/ Shown
        \/ \E kind \in {"wifi", "ble", "status", "start", "stop"} : Sending("main", kind, count + 1)
    BY <1>1, <1>7, KeyIs
  <2>2. {"wifi", "ble", "status", "start", "stop"} \subseteq Kinds
    BY DEF Kinds
  <2> QED BY <1>5, <2>1, <2>2, ShowingIs DEF Moved
<1>8. CASE HandlerStep
  BY <1>1, <1>8, HandlingIs DEF Moved
<1>9. CASE MainEvent
  BY <1>1, <1>9, ReadingIs DEF Moved
<1>10. CASE \E t \in Threads : Transmit(t)
  BY <1>1, <1>10, TransmitIs DEF Moved
<1>11. CASE BoardHandles
  BY <1>11, BoardHandlesIs DEF Moved
<1>12. CASE Drain \/ SelfStop
  BY <1>12, EngineSaysIs DEF Moved
<1>13. CASE \E k \in ScanKinds : Partial(k) \/ Complete(k)
  BY <1>13, ScanSaysIs DEF Moved
<1>14. CASE Button
  BY <1>1, <1>14, ButtonIs DEF Moved
<1>15. CASE UNCHANGED vars
  BY <1>15 DEF Moved
<1> QED BY <1>2, <1>3, <1>4, <1>6, <1>7, <1>8, <1>9, <1>10, <1>11, <1>12, <1>13, <1>14, <1>15

-----------------------------------------------------------------------------
(* What every step keeps: the types, the records, the link, the replies,    *)
(* the rows.                                                                *)

LEMMA SentRecs ==
  ASSUME TypeInv, NEW t, NEW kind, NEW id, NEW r, Sent(t, kind, id, r)
  PROVE  /\ r \in Records /\ r.cmd.kind = kind /\ r.cmd.id = id /\ r.session = session /\ r.seq = seqOut
         /\ Recs' \subseteq Recs \cup {r}
         /\ mid'[t] = r /\ \A o \in Threads : o # t => mid'[o] = mid[o]
         /\ mid' \in [Threads -> Records \cup {NoRecord}]
         /\ buf' \in {buf, r} /\ (kind # "caps" => buf' = r)
<1>1. /\ r \in Records /\ mid' = [mid EXCEPT ![t] = r] /\ t \in Threads
      /\ buf' = IF kind = "caps" THEN buf ELSE r
      /\ r.cmd.kind = kind /\ r.cmd.id = id /\ r.session = session /\ r.seq = seqOut /\ toB' = toB
  BY DEF Sent, Encoded
<1>2. mid \in [Threads -> Records \cup {NoRecord}]
  BY DEF TypeInv
<1>3. /\ mid'[t] = r /\ \A o \in Threads : o # t => mid'[o] = mid[o]
      /\ mid' \in [Threads -> Records \cup {NoRecord}]
  BY <1>1, <1>2
<1>4. "main" \in Threads /\ "worker" \in Threads
  BY DEF Threads
<1>5. buf' \in {buf, r} /\ (kind # "caps" => buf' = r)
  BY <1>1
<1>6. Recs' \subseteq Recs \cup {r}
  BY <1>1, <1>3, <1>4, <1>5 DEF Recs
<1> QED BY <1>1, <1>3, <1>5, <1>6

LEMMA TransmitRecs ==
  ASSUME TypeInv, NEW t, NEW x, Transmitting(t, x)
  PROVE  /\ Recs' \subseteq Recs
         /\ mid'[t] = NoRecord /\ \A o \in Threads : o # t => mid'[o] = mid[o]
         /\ mid' \in [Threads -> Records \cup {NoRecord}] /\ buf' \in {buf, NoRecord}
<1>1. mid \in [Threads -> Records \cup {NoRecord}]
  BY DEF TypeInv
<1>2. /\ mid'[t] = NoRecord /\ \A o \in Threads : o # t => mid'[o] = mid[o]
      /\ mid' \in [Threads -> Records \cup {NoRecord}] /\ buf' \in {buf, NoRecord}
  BY <1>1 DEF Transmitting
<1>3. \A i \in DOMAIN toB' : toB'[i] = x \/ \E j \in DOMAIN toB : toB'[i] = toB[j]
  <2>1. CASE link # "auth"
    BY <2>1 DEF Transmitting
  <2>2. CASE link = "auth"
    <3>1. Extended(toB, toB', << x >>)
      BY <2>2 DEF Transmitting
    <3>2. DOMAIN << x >> = {1} /\ << x >>[1] = x
      OBVIOUS
    <3> QED BY <3>1, <3>2 DEF Extended
  <2> QED BY <2>1, <2>2
<1>4. x \in Recs /\ \A r \in Records : r # NoRecord
  BY RecordIs DEF Transmitting
<1>5. "main" \in Threads /\ "worker" \in Threads
  BY DEF Threads
<1>6. \A o \in Threads : mid'[o] \in {mid[o], NoRecord}
  BY <1>2
<1>7. Recs' \subseteq Recs
  BY <1>2, <1>3, <1>4, <1>5, <1>6 DEF Recs
<1> QED BY <1>2, <1>7

LEMMA AcceptRecs ==
  ASSUME NEW h, NEW b, NEW r, Accepting(h, b, r)
  PROVE  Recs' \subseteq Recs
<1>1. \A i \in DOMAIN toB' : \E j \in DOMAIN toB : toB'[i] = toB[j]
  BY DEF Accepting, Shortened
<1> QED BY <1>1 DEF Accepting, Recs

LEMMA SameRecs ==
  ASSUME UNCHANGED <<mid, buf>>, toB' = toB \/ toB' = << >>
  PROVE  Recs' \subseteq Recs
BY DEF Recs

LEMMA RecsKept ==
  ASSUME TypeInv, RecsOK, Recs' \subseteq Recs, session' \in Nat, session <= session', count' \in Nat,
         count <= count'
  PROVE  RecsOK'
<1>1. session \in Nat /\ count \in Nat /\ \A r \in Recs : r.session \in Nat /\ r.cmd.id \in Nat
  BY SMTT(20) DEF TypeInv, Recs, Records
<1>2. \A r \in Recs : r.session <= session' /\ r.cmd.id <= count'
  BY <1>1 DEF RecsOK
<1> QED BY <1>2 DEF RecsOK

LEMMA RepliesAre ==
  ASSUME NEW s \in Seq(Replies), NEW i \in DOMAIN s
  PROVE  s[i] \in Replies /\ s[i].id \in Nat /\ s[i].last \in BOOLEAN
<1>1. s[i] \in Replies
  BY ElementOfSeq, LenProperties
<1> QED BY <1>1 DEF Replies

LEMMA BoardKept ==
  ASSUME TypeInv, BoardOK, \A i \in DOMAIN toF' : \E j \in DOMAIN toF : toF'[i] = toF[j],
         \A k \in ScanKinds : board'.scan[k] \in {board.scan[k], NoScan}, count' \in Nat,
         count <= count'
  PROVE  BoardOK'
<1>1. count \in Nat /\ \A i \in DOMAIN toF : toF[i].id \in Nat
  BY RepliesAre DEF TypeInv
<1>2. \A k \in ScanKinds : board.scan[k].id \in Nat
  BY DEF TypeInv, Boards
<1>3. ASSUME NEW i \in DOMAIN toF'
      PROVE  ReplyOK(toF'[i]) /\ toF'[i].id <= count'
  <2>1. PICK j \in DOMAIN toF : toF'[i] = toF[j]
    OBVIOUS
  <2>2. ReplyOK(toF[j]) /\ toF[j].id <= count /\ toF[j].id \in Nat
    BY <1>1 DEF BoardOK
  <2>3. PICK n : n = toF[j].id
    OBVIOUS
  <2>4. n <= count'
    BY <1>1, <2>2, <2>3
  <2> QED BY <2>1, <2>2, <2>3, <2>4
<1>4. ScansOK'
  <2>1. NoScan.id = 0
    BY DEF NoScan
  <2>2. \A k \in ScanKinds : board.scan[k].id = 0 <=> board.scan[k] = NoScan
    BY DEF BoardOK, ScansOK
  <2>3. \A k \in ScanKinds : board'.scan[k].id = 0 <=> board'.scan[k] = NoScan
    BY <2>1, <2>2
  <2> QED BY <2>3 DEF ScansOK
<1>5. \A k \in ScanKinds : board'.scan[k].id <= count'
  BY <1>1, <1>2 DEF BoardOK, NoScan
<1> QED BY <1>3, <1>4, <1>5 DEF BoardOK

LEMMA RowsKept ==
  ASSUME TypeInv, RowsOK, count' \in Nat, count <= count',
         \A k \in ScanKinds : \A x \in ui'.scan[k].rows :
           x \in ui.scan[k].rows \/ \E i \in DOMAIN events : events[i].type = "row" /\ events[i].id = x,
         \A i \in DOMAIN events' : \/ \E j \in DOMAIN events : events'[i] = events[j]
                                   \/ events'[i].type = "row" => events'[i].id \in 1 .. count
  PROVE  RowsOK'
<1>1. count \in Nat /\ 1 .. count \subseteq 1 .. count'
  BY DEF TypeInv
<1> QED BY <1>1 DEF RowsOK

LEMMA SentCore ==
  ASSUME Core, NEW t, NEW kind, NEW id, NEW r, Sent(t, kind, id, r)
  PROVE  Core'
<1>1. /\ r \in Records /\ r.cmd.kind = kind /\ r.cmd.id = id /\ r.session = session
      /\ Recs' \subseteq Recs \cup {r}
      /\ mid'[t] = r /\ \A o \in Threads : o # t => mid'[o] = mid[o]
      /\ mid' \in [Threads -> Records \cup {NoRecord}]
      /\ buf' \in {buf, r} /\ (kind # "caps" => buf' = r)
  BY SentRecs DEF Core
<1>2. /\ TypeInv /\ count \in Nat /\ count' \in Nat /\ count <= count' /\ session \in Nat
      /\ \A q \in Recs : q.cmd.id \in Nat /\ q.session \in Nat
  <2>1. \A q \in Recs : q.cmd.id \in Nat /\ q.session \in Nat
    BY DEF Recs, Records
  <2>2. TypeInv /\ count \in Nat /\ session \in Nat
    BY DEF Core, TypeInv
  <2> QED BY <2>1, <2>2 DEF Sent
<1>3. ui' \in Uis /\ \A k \in ScanKinds : ui'.scan[k].rows \subseteq ui.scan[k].rows
  BY <1>2 DEF Sent, KeyUi, TypeInv
<1>4. /\ events' \in Seq(Events) /\ Len(events') <= QueueDepth
      /\ \A i \in DOMAIN events' : \E j \in DOMAIN events : events'[i] = events[j]
  BY <1>2 DEF Sent, Takes, Shortened, TypeInv
<1>5. TypeInv'
  <2>1. worker' \in {"idle", "bootstrap", "ask"}
    BY <1>2 DEF Sent, TypeInv
  <2>2. owed' \subseteq 1 .. count'
    <3>1. owed' = IF id = 0 THEN owed ELSE owed \cup {id}
      BY DEF Sent, Encoded
    <3>2. id = 0 \/ (id = count + 1 /\ count' = count + 1)
      BY DEF Sent
    <3>3. owed \subseteq 1 .. count
      BY <1>2 DEF TypeInv
    <3>4. 1 .. count \subseteq 1 .. count' /\ (id # 0 => id \in 1 .. count')
      BY <1>2, <3>2
    <3> QED BY <3>1, <3>3, <3>4
  <2>3. raced' \subseteq Timings /\ pending' \in Commands
    BY DEF Sent, Encoded
  <2>4. buf' \in Records \cup {NoRecord}
    BY <1>1, <1>2 DEF TypeInv
  <2>5. \A o \in Threads : mid'[o] # NoRecord /\ mid'[o].cmd.kind # "caps" => buf' # NoRecord
    <3>1. \A o \in Threads : o # t /\ mid'[o] # NoRecord /\ mid'[o].cmd.kind # "caps" => buf # NoRecord
      BY <1>1, <1>2 DEF TypeInv
    <3>2. r # NoRecord
      BY <1>1, RecordIs
    <3> QED BY <1>1, <3>1, <3>2
  <2> QED BY <1>1, <1>2, <1>3, <1>4, <2>1, <2>2, <2>3, <2>4, <2>5 DEF Sent, TypeInv
<1>6. RecsOK'
  <2>1. session' = session
    BY DEF Sent
  <2>2. kind \in {"gps", "caps"} => id = 0
    BY DEF Sent
  <2>3. kind \notin {"gps", "caps"} => id = count + 1 /\ count' = count + 1
    BY DEF Sent
  <2>4. r.session <= session' /\ r.cmd.id <= count' /\ (r.cmd.kind \in {"gps", "caps"} <=> r.cmd.id = 0)
    BY <1>1, <1>2, <2>1, <2>2, <2>3
  <2>5. \A q \in Recs : /\ q.session <= session' /\ q.cmd.id <= count'
                        /\ q.cmd.kind \in {"gps", "caps"} <=> q.cmd.id = 0
    BY <1>2, <2>1 DEF Core, RecsOK
  <2>6. \A q \in Recs : q.cmd.id # 0 => q.cmd.id # r.cmd.id
    <3>1. \A q \in Recs : q.cmd.id <= count
      BY DEF Core, RecsOK
    <3> QED BY <1>1, <1>2, <2>2, <2>3, <3>1
  <2>7. \A q, s \in Recs : q.cmd.id = s.cmd.id /\ q.cmd.id # 0 => q = s
    BY DEF Core, RecsOK
  <2> QED BY <1>1, <2>4, <2>5, <2>6, <2>7 DEF RecsOK
<1>7. LinkOK'
  <2>1. t = "worker" => link = "auth"
    BY DEF Sent
  <2>2. link = "up" => mid'["worker"] = NoRecord
    BY <1>1, <2>1 DEF Core, LinkOK, Threads
  <2>3. link # "auth" => worker' = worker
    BY DEF Sent
  <2> QED BY <2>2, <2>3 DEF Sent, Core, LinkOK
<1>8. BoardOK'
  BY <1>2, BoardKept DEF Sent, Core
<1>9. RowsOK'
  BY <1>2, <1>3, <1>4, RowsKept DEF Core
<1> QED BY <1>5, <1>6, <1>7, <1>8, <1>9 DEF Core

LEMMA TransmittingCore ==
  ASSUME Core, NEW t, NEW x, Transmitting(t, x)
  PROVE  Core'
<1>1. /\ Recs' \subseteq Recs
      /\ mid'[t] = NoRecord /\ \A o \in Threads : o # t => mid'[o] = mid[o]
      /\ mid' \in [Threads -> Records \cup {NoRecord}] /\ buf' \in {buf, NoRecord}
  BY TransmitRecs DEF Core
<1>2. TypeInv /\ count \in Nat /\ session \in Nat /\ t \in Threads
  BY DEF Core, TypeInv, Transmitting
<1>3. TypeInv'
  <2>1. seqOut' \in Nat
    BY <1>2 DEF Transmitting, TypeInv
  <2>2. buf' \in Records \cup {NoRecord}
    BY <1>1, <1>2 DEF TypeInv
  <2>3. \A o \in Threads : mid'[o] # NoRecord /\ mid'[o].cmd.kind # "caps" => buf' # NoRecord
    BY <1>1, <1>2 DEF TypeInv, Transmitting
  <2> QED BY <1>1, <1>2, <2>1, <2>2, <2>3 DEF Transmitting, TypeInv
<1>4. RecsOK'
  BY <1>1, <1>2, RecsKept DEF Transmitting, Core
<1>5. LinkOK'
  <2>1. link # "auth" => toB' = toB
    BY DEF Transmitting
  <2>2. link = "up" => mid'["worker"] = NoRecord
    BY <1>1 DEF Core, LinkOK, Threads
  <2> QED BY <2>1, <2>2 DEF Transmitting, Core, LinkOK
<1>6. BoardOK'
  BY <1>2, BoardKept DEF Transmitting, Core
<1>7. RowsOK'
  BY <1>2, RowsKept DEF Transmitting, Core
<1> QED BY <1>3, <1>4, <1>5, <1>6, <1>7 DEF Core

LEMMA ScreensCore ==
  ASSUME Core, (\E p : Showing(p)) \/ Reading
  PROVE  Core'
<1>1. TypeInv /\ count \in Nat /\ session \in Nat
  BY DEF Core, TypeInv
<1>2. UNCHANGED <<mid, buf, owed, count, seqOut, worker, cached, link, session, toB, toF, board, unasked>>
  BY DEF Showing, Reading
<1>3. RecsOK'
  BY <1>1, <1>2, SameRecs, RecsKept DEF Core
<1>4. LinkOK' /\ BoardOK'
  BY <1>1, <1>2, BoardKept DEF Core, LinkOK
<1>5. CASE \E p : Showing(p)
  <2>1. PICK p : Showing(p)
    BY <1>5
  <2>2. pending' \in Commands
    BY <1>1, <2>1 DEF Showing, TypeInv, Commands
  <2>3. ui' \in Uis /\ \A k \in ScanKinds : ui'.scan[k].rows \subseteq ui.scan[k].rows
    BY <2>1 DEF Showing, KeyUi
  <2>4. TypeInv'
    BY <1>1, <1>2, <2>1, <2>2, <2>3 DEF Showing, TypeInv
  <2>5. RowsOK'
    BY <1>1, <1>2, <2>1, <2>3, RowsKept DEF Showing, Core
  <2> QED BY <1>3, <1>4, <2>4, <2>5 DEF Core
<1>6. CASE Reading
  <2>1. pending' \in Commands
    BY <1>1, <1>6 DEF Reading, TypeInv, Commands
  <2>2. /\ events' \in Seq(Events) /\ Len(events') <= QueueDepth
        /\ Shortened(events, events') /\ Head(events) \in Events
    BY <1>6 DEF Reading, Takes
  <2>3. ui' \in Uis
    BY <1>6 DEF Reading, Sees
  <2>4. raced' \subseteq Timings
    BY <1>6 DEF Reading
  <2>5. TypeInv'
    BY <1>1, <1>2, <2>1, <2>2, <2>3, <2>4 DEF TypeInv
  <2>6. \A k \in ScanKinds : \A x \in ui'.scan[k].rows :
          x \in ui.scan[k].rows \/ (Head(events).type = "row" /\ Head(events).id = x)
    <3>1. Sees(Head(events), ui')
      BY <1>6 DEF Reading
    <3>2. CASE Head(events).type \in Resets
      BY <3>1, <3>2 DEF Sees
    <3>3. ASSUME Head(events).type \notin Resets, NEW k \in ScanKinds, NEW x \in ui'.scan[k].rows
          PROVE  x \in ui.scan[k].rows \/ (Head(events).type = "row" /\ Head(events).id = x)
      <4>1. \/ ui'.scan[k].rows \subseteq ui.scan[k].rows
            \/ /\ Head(events).type = "row"
               /\ ui'.scan[k].rows = ui.scan[k].rows \cup {Head(events).id}
        BY <3>1, <3>3, Zenon DEF Sees
      <4> QED BY <3>3, <4>1
    <3> QED BY <3>2, <3>3
  <2>7. /\ Head(events) = events[1] /\ 1 \in DOMAIN events
        /\ \A i \in DOMAIN events' : \E j \in DOMAIN events : events'[i] = events[j]
    BY <2>2 DEF Shortened
  <2>8. RowsOK'
    BY <1>1, <1>2, <2>6, <2>7, RowsKept DEF Core
  <2> QED BY <1>3, <1>4, <2>5, <2>8 DEF Core
<1> QED BY <1>5, <1>6

LEMMA GrowsRows ==
  ASSUME Core, NEW es, Grows(es), count' = count, ui' = ui,
         \A j \in DOMAIN es : es[j].type = "row" => es[j].id \in 1 .. count
  PROVE  RowsOK'
<1>1. TypeInv /\ RowsOK /\ count \in Nat
  BY DEF Core, TypeInv
<1>2. \A i \in DOMAIN events' : \/ \E j \in DOMAIN events : events'[i] = events[j]
                                \/ events'[i].type = "row" => events'[i].id \in 1 .. count
  BY DEF Grows
<1> QED BY <1>1, <1>2, RowsKept

LEMMA PostingCore ==
  ASSUME Core, NEW es, Posting(es)
  PROVE  Core'
<1>1. TypeInv /\ count \in Nat /\ session \in Nat
  BY DEF Core, TypeInv
<1>2. UNCHANGED <<ui, pending, seqOut, buf, mid, cached, session, toB, toF, board, count, unasked, owed>>
  BY DEF Posting
<1>3. /\ events' \in Seq(Events) /\ Len(events') <= QueueDepth /\ raced' \subseteq Timings
      /\ worker' \in {"idle", "bootstrap", "ask"} /\ link' \in {"down", "up", "auth"}
      /\ link' = "up" => session < MaxSessions
  BY <1>1 DEF Posting, Grows, TypeInv
<1>4. TypeInv'
  BY <1>1, <1>2, <1>3 DEF TypeInv
<1>5. RecsOK'
  BY <1>1, <1>2, SameRecs, RecsKept DEF Core
<1>6. LinkOK'
  BY <1>2 DEF Posting, Core, LinkOK
<1>7. BoardOK'
  BY <1>1, <1>2, BoardKept DEF Core
<1>8. RowsOK'
  <2>1. \A j \in DOMAIN es : es[j].type # "row"
    BY DEF Posting, Event
  <2> QED BY <1>2, <2>1, GrowsRows DEF Posting
<1> QED BY <1>4, <1>5, <1>6, <1>7, <1>8 DEF Core

LEMMA AuthenticatingCore ==
  ASSUME Core, Authenticating
  PROVE  Core'
<1>1. TypeInv /\ count \in Nat /\ session \in Nat /\ link = "up" /\ MaxSessions \in Nat
  BY FlipperAppAssumption DEF Core, TypeInv, Authenticating
<1>2. UNCHANGED <<ui, pending, buf, mid, cached, toB, toF, count, unasked, owed>>
  BY DEF Authenticating
<1>3. session' = session + 1 /\ session' \in Nat /\ session <= session' /\ session' \in 0 .. MaxSessions
  BY <1>1 DEF Authenticating, TypeInv
<1>4. events' \in Seq(Events) /\ Len(events') <= QueueDepth /\ raced' \subseteq Timings
  BY DEF Authenticating, Grows
<1>5. TypeInv'
  BY <1>1, <1>2, <1>3, <1>4 DEF TypeInv, Authenticating
<1>6. RecsOK'
  BY <1>1, <1>2, <1>3, SameRecs, RecsKept DEF Core
<1>7. LinkOK'
  BY DEF Authenticating, LinkOK
<1>8. BoardOK'
  BY <1>1, <1>2, BoardKept DEF Core, Authenticating
<1>9. RowsOK'
  <2> DEFINE es == << Event("active") >>
  <2>1. \A j \in DOMAIN es : es[j].type # "row"
    BY DEF Event
  <2>2. Grows(es)
    BY DEF Authenticating
  <2> HIDE DEF es
  <2> QED BY <1>2, <2>1, <2>2, GrowsRows
<1> QED BY <1>5, <1>6, <1>7, <1>8, <1>9 DEF Core

LEMMA DroppingCore ==
  ASSUME Core, Dropping
  PROVE  Core'
<1>1. TypeInv /\ count \in Nat /\ session \in Nat
  BY DEF Core, TypeInv
<1>2. UNCHANGED <<ui, pending, seqOut, buf, mid, cached, session, count, unasked>>
  BY DEF Dropping
<1>3. events' \in Seq(Events) /\ Len(events') <= QueueDepth /\ raced' \subseteq Timings
  BY DEF Dropping, Grows
<1>4. TypeInv'
  <2>1. << >> \in Seq(Records) /\ << >> \in Seq(Replies)
    BY NoneIs
  <2> QED BY <1>1, <1>2, <1>3, <2>1 DEF TypeInv, Dropping
<1>5. RecsOK'
  BY <1>1, <1>2, SameRecs, RecsKept DEF Core, Dropping
<1>6. LinkOK'
  BY DEF Dropping, LinkOK
<1>7. BoardOK'
  <2>1. DOMAIN toF' = {}
    BY NoneIs DEF Dropping
  <2> QED BY <1>1, <1>2, <2>1, BoardKept DEF Core, Dropping
<1>8. RowsOK'
  <2> DEFINE es == << Event("advertising") >>
  <2>1. \A j \in DOMAIN es : es[j].type # "row"
    BY DEF Event
  <2>2. Grows(es)
    BY DEF Dropping
  <2> HIDE DEF es
  <2> QED BY <1>2, <2>1, <2>2, GrowsRows
<1> QED BY <1>4, <1>5, <1>6, <1>7, <1>8 DEF Core

LEMMA HandlingCore ==
  ASSUME Core, NEW es, NEW p, Handling(es, p)
  PROVE  Core'
<1>1. TypeInv /\ count \in Nat /\ session \in Nat
  BY DEF Core, TypeInv
<1>2. UNCHANGED <<ui, seqOut, buf, mid, worker, link, session, toB, board, count, unasked>>
  BY DEF Handling
<1>3. events' \in Seq(Events) /\ Len(events') <= QueueDepth /\ raced' \subseteq Timings
  BY DEF Handling, Grows
<1>4. TypeInv'
  <2>1. pending' \in Commands
    BY <1>1 DEF Handling, Fits, TypeInv, Commands
  <2>2. owed' \subseteq 1 .. count
    BY <1>1 DEF Handling, TypeInv
  <2> QED BY <1>1, <1>2, <1>3, <2>1, <2>2 DEF TypeInv, Handling
<1>5. RecsOK'
  BY <1>1, <1>2, SameRecs, RecsKept DEF Core
<1>6. LinkOK'
  BY <1>2 DEF Core, LinkOK, Handling
<1>7. BoardOK'
  <2>1. \A i \in DOMAIN toF' : \E j \in DOMAIN toF : toF'[i] = toF[j]
    BY DEF Handling, Shortened
  <2> QED BY <1>1, <1>2, <2>1, BoardKept DEF Core
<1>8. RowsOK'
  <2>1. Head(toF) = toF[1] /\ 1 \in DOMAIN toF /\ Head(toF) \in Replies
    BY DEF Handling, Shortened
  <2>2. ReplyOK(Head(toF)) /\ Head(toF).id <= count /\ Head(toF).id \in Nat
    BY <2>1 DEF Core, BoardOK, Replies
  <2>3. \A j \in DOMAIN es : es[j].type = "row" => es[j].id = Head(toF).id /\ es[j].kind = Head(toF).kind
    BY DEF Handling, Fits
  <2>4. \A j \in DOMAIN es : es[j].type = "row" => Head(toF).kind \in ScanKinds
    <3>1. es \in Seq(Events)
      BY DEF Handling, Fits
    <3>2. \A j \in DOMAIN es : es[j] \in Events
      BY <3>1, ElementOfSeq, LenProperties
    <3> QED BY <2>3, <3>2 DEF Events, Signals, Resets
  <2>5. Head(toF).kind \in ScanKinds => Head(toF).id # 0
    BY <2>2 DEF ReplyOK
  <2>6. \A j \in DOMAIN es : es[j].type = "row" => es[j].id \in 1 .. count
    <3>1. PICK n : n = Head(toF).id
      OBVIOUS
    <3>2. n # 0 => n \in 1 .. count
      BY <1>1, <2>2, <3>1
    <3> QED BY <2>3, <2>4, <2>5, <3>1, <3>2
  <2> QED BY <1>2, <2>6, GrowsRows DEF Handling
<1> QED BY <1>4, <1>5, <1>6, <1>7, <1>8 DEF Core

LEMMA AcceptingCore ==
  ASSUME Core, NEW h, NEW b, NEW r, Accepting(h, b, r)
  PROVE  Core'
<1>1. TypeInv /\ count \in Nat /\ session \in Nat /\ BoardOK /\ ScansOK
  BY DEF Core, TypeInv, BoardOK
<1>2. UNCHANGED <<ui, events, pending, seqOut, buf, mid, worker, cached, link, session,
                  count, unasked, owed, raced>>
  BY DEF Accepting
<1>3. TypeInv'
  BY <1>1, <1>2 DEF TypeInv, Accepting
<1>4. RecsOK'
  BY <1>1, <1>2, AcceptRecs, RecsKept DEF Core
<1>5. LinkOK'
  BY <1>2 DEF Core, LinkOK, Accepting
<1>6. h.cmd.id <= count /\ (h.cmd.kind \in ScanKinds => h.cmd.id # 0)
  BY DEF Accepting, Core, RecsOK, ScanKinds
<1>7. board'.scan = b.scan /\ r.id = h.cmd.id /\ Answered(h.cmd, b, r)
  BY DEF Accepting, Answered
<1>8. BoardOK'
  <2>1. CASE r.state = "silence"
    <3>1. /\ h.cmd.kind \in ScanKinds /\ b.scan[h.cmd.kind].id = h.cmd.id /\ b.scan[h.cmd.kind] # NoScan
          /\ \A o \in ScanKinds : o # h.cmd.kind => b.scan[o] = board.scan[o]
      BY <1>7, <2>1 DEF Answered, ReplyOK
    <3>2. toF' = toF
      BY <2>1 DEF Accepting
    <3>3. ScansOK'
      BY <1>1, <1>6, <1>7, <3>1 DEF ScansOK
    <3>4. \A k \in ScanKinds : board'.scan[k].id <= count
      BY <1>1, <1>6, <1>7, <3>1 DEF BoardOK
    <3> QED BY <1>1, <1>2, <3>2, <3>3, <3>4 DEF BoardOK
  <2>2. CASE r.state # "silence"
    <3>1. ReplyOK(r) /\ board'.scan = board.scan
      BY <1>7, <2>2 DEF Answered
    <3>2. Extended(toF, toF', << r >>) /\ DOMAIN << r >> = {1} /\ << r >>[1] = r
      BY <2>2 DEF Accepting
    <3>3. \A i \in DOMAIN toF' : ReplyOK(toF'[i]) /\ toF'[i].id <= count
      BY <1>1, <1>6, <1>7, <3>1, <3>2 DEF BoardOK, Extended
    <3> QED BY <1>1, <1>2, <3>1, <3>3 DEF BoardOK, ScansOK
  <2> QED BY <2>1, <2>2
<1>9. RowsOK'
  BY <1>1, <1>2, RowsKept DEF Core
<1> QED BY <1>3, <1>4, <1>5, <1>8, <1>9 DEF Core

\* What is said is made as replies are, and of scans that were asked for.
LEMMA SaidIs ==
  ASSUME Core, NEW rs, Saying(rs)
  PROVE  /\ \A j \in DOMAIN rs : ReplyOK(rs[j]) /\ rs[j].id <= count
         /\ ScansOK' /\ \A k \in ScanKinds : board'.scan[k].id \in {0, board.scan[k].id}
<1>1. count \in Nat /\ ScansOK /\ \A k \in ScanKinds : board.scan[k].id <= count /\ NoScan.id = 0
  BY DEF Core, TypeInv, BoardOK, NoScan
<1>2. CASE \E k \in ScanKinds, r \in Replies : rs = << r >> /\ Results(k, r)
  <2>1. PICK k \in ScanKinds, r \in Replies : rs = << r >> /\ Results(k, r)
    BY <1>2
  <2>2. DOMAIN rs = {1} /\ rs[1] = r
    BY <2>1
  <2>3. \A o \in ScanKinds : board'.scan[o].id = 0 <=> board'.scan[o] = NoScan
    BY <1>1, <2>1 DEF Results, ScansOK
  <2>4. \A o \in ScanKinds : board'.scan[o].id \in {0, board.scan[o].id}
    BY <1>1, <2>1 DEF Results
  <2>5. ReplyOK(r) /\ r.id <= count
    BY <1>1, <2>1 DEF Results
  <2> QED BY <2>2, <2>3, <2>4, <2>5 DEF ScansOK
<1>3. CASE \E r \in Replies : rs = << r >> /\ Captures(r)
  <2>1. PICK r \in Replies : rs = << r >> /\ Captures(r)
    BY <1>3
  <2>2. DOMAIN rs = {1} /\ rs[1] = r
    BY <2>1
  <2>3. ReplyOK(r) /\ r.id <= count /\ board'.scan = board.scan
    BY <1>1, <2>1 DEF Captures
  <2> QED BY <1>1, <2>2, <2>3 DEF ScansOK
<1>4. CASE \E r \in Replies, s \in Replies : rs = << r, s >> /\ Stops(r, s)
  <2>1. PICK r \in Replies, s \in Replies : rs = << r, s >> /\ Stops(r, s)
    BY <1>4
  <2>2. DOMAIN rs = {1, 2} /\ rs[1] = r /\ rs[2] = s
    BY <2>1, TwoIs
  <2>3. ReplyOK(r) /\ ReplyOK(s) /\ r.id <= count /\ s.id <= count /\ board'.scan = board.scan
    BY <1>1, <2>1 DEF Stops
  <2> QED BY <1>1, <2>2, <2>3 DEF ScansOK
<1> QED BY <1>2, <1>3, <1>4 DEF Saying

LEMMA SayingCore ==
  ASSUME Core, NEW rs, Saying(rs)
  PROVE  Core'
<1>1. TypeInv /\ count \in Nat /\ session \in Nat /\ BoardOK
  BY DEF Core, TypeInv
<1>2. UNCHANGED <<ui, events, pending, seqOut, buf, mid, worker, cached, link, session, toB,
                  count, owed>>
  BY DEF Saying
<1>3. /\ \A j \in DOMAIN rs : ReplyOK(rs[j]) /\ rs[j].id <= count
      /\ ScansOK' /\ \A k \in ScanKinds : board'.scan[k].id \in {0, board.scan[k].id}
  BY SaidIs
<1>4. TypeInv'
  BY <1>1, <1>2 DEF TypeInv, Saying
<1>5. RecsOK'
  BY <1>1, <1>2, SameRecs, RecsKept DEF Core
<1>6. LinkOK'
  BY <1>2 DEF Core, LinkOK, Saying
<1>7. BoardOK'
  <2>1. Extended(toF, toF', rs)
    BY DEF Saying
  <2>2. \A i \in DOMAIN toF' : ReplyOK(toF'[i]) /\ toF'[i].id <= count
    BY <1>1, <1>3, <2>1 DEF BoardOK, Extended
  <2>3. \A k \in ScanKinds : board'.scan[k].id <= count
    BY <1>1, <1>3 DEF BoardOK
  <2> QED BY <1>2, <1>3, <2>2, <2>3 DEF BoardOK
<1>8. RowsOK'
  BY <1>1, <1>2, RowsKept DEF Core
<1> QED BY <1>4, <1>5, <1>6, <1>7, <1>8 DEF Core

LEMMA RestCore ==
  ASSUME Core, Buttoning \/ Idles \/ UNCHANGED vars
  PROVE  Core'
<1>1. TypeInv /\ count \in Nat /\ session \in Nat
  BY DEF Core, TypeInv
<1>2. /\ UNCHANGED <<ui, events, pending, seqOut, buf, mid, cached, link, session, toB, toF, count, owed>>
      /\ worker' \in {worker, "idle"} /\ board' \in Boards /\ board'.scan = board.scan
      /\ unasked' \in Nat /\ raced' \subseteq Timings
  BY <1>1 DEF Buttoning, Idles, vars, TypeInv
<1>3. TypeInv'
  BY <1>1, <1>2 DEF TypeInv
<1>4. RecsOK'
  BY <1>1, <1>2, SameRecs, RecsKept DEF Core
<1>5. LinkOK'
  BY <1>2 DEF Core, LinkOK
<1>6. BoardOK'
  BY <1>1, <1>2, BoardKept DEF Core
<1>7. RowsOK'
  BY <1>1, <1>2, RowsKept DEF Core
<1> QED BY <1>3, <1>4, <1>5, <1>6, <1>7 DEF Core

LEMMA CoreStep ==
  ASSUME Core, Moved
  PROVE  Core'
BY SentCore, TransmittingCore, ScreensCore, HandlingCore, PostingCore, AuthenticatingCore,
   DroppingCore, AcceptingCore, SayingCore, RestCore DEF Moved

LEMMA CoreInit ==
  ASSUME Init
  PROVE  Core
<1>1. << >> \in Seq(Events) /\ << >> \in Seq(Records) /\ << >> \in Seq(Replies) /\ Len(<< >>) = 0
  BY NoneIs, EmptySeq
<1>2. ui \in Uis /\ \A k \in ScanKinds : ui.scan[k].rows = {}
  BY DEF Init, AtStart, NoList, Uis, Lists, Screens
<1>3. board \in Boards /\ \A k \in ScanKinds : board.scan[k] = NoScan
  BY DEF Init, NoScan, Boards
<1>4. mid \in [Threads -> Records \cup {NoRecord}] /\ \A t \in Threads : mid[t] = NoRecord
  BY DEF Init
<1>5. QueueDepth \in Nat /\ MaxSessions \in Nat
  BY FlipperAppAssumption
<1>6. TypeInv
  BY <1>1, <1>2, <1>3, <1>4, <1>5 DEF Init, TypeInv, Commands, Timings
<1>7. Recs = {}
  <2>1. \A r \in Records : r # NoRecord
    BY RecordIs
  <2>2. DOMAIN toB = {}
    BY NoneIs DEF Init
  <2> QED BY <1>4, <2>1, <2>2 DEF Recs, Init, Threads
<1>8. NoScan.id = 0
  BY DEF NoScan
<1>9. DOMAIN toF = {} /\ DOMAIN events = {}
  BY NoneIs DEF Init
<1>10. RecsOK /\ LinkOK /\ BoardOK /\ RowsOK
  BY <1>2, <1>3, <1>7, <1>8, <1>9 DEF RecsOK, LinkOK, BoardOK, ScansOK, RowsOK, Init
<1> QED BY <1>6, <1>10 DEF Core

-----------------------------------------------------------------------------
(* The reset of the screens: unless an event was lost, the main thread has   *)
(* seen the end of the session before the next one is up.                    *)

ResetLast ==
  \E i \in DOMAIN events :
    /\ events[i].type \in Resets
    /\ \A j \in DOMAIN events : j > i => events[j].type \in Resets \cup {"tick"}

Clear == /\ ~ ui.active /\ ~ ui.known /\ mid["main"] = NoRecord
         /\ \A k \in ScanKinds : ~ ui.scan[k].progress

ResetInv ==
  "overflow" \notin raced =>
    IF link = "auth" THEN \A i \in DOMAIN events : events[i].type \notin Resets
    ELSE ResetLast \/ (Clear /\ \A i \in DOMAIN events : events[i].type = "tick")

LEMMA TakesReset ==
  ASSUME Takes, ResetLast
  PROVE  /\ ResetLast' \/ \A i \in DOMAIN events' : events'[i].type = "tick"
         /\ Head(events).type \notin Resets => ResetLast'
<1>1. /\ Len(events) \in Nat /\ DOMAIN events = 1 .. Len(events)
      /\ DOMAIN events' = 1 .. Len(events) - 1
      /\ Head(events) = events[1]
      /\ \A i \in DOMAIN events' : i + 1 \in DOMAIN events /\ events'[i] = events[i + 1]
      /\ \A i \in DOMAIN events : i = 1 \/ \E j \in DOMAIN events' : i = j + 1 /\ events'[j] = events[i]
  BY DEF Takes, Shortened
<1>2. PICK i \in DOMAIN events :
        /\ events[i].type \in Resets
        /\ \A j \in DOMAIN events : j > i => events[j].type \in Resets \cup {"tick"}
  BY DEF ResetLast
<1>3. ASSUME NEW m \in DOMAIN events', events'[m].type \in Resets, m + 1 >= i
      PROVE  ResetLast'
  <2>1. ASSUME NEW n \in DOMAIN events', n > m
        PROVE  events'[n].type \in Resets \cup {"tick"}
    <3>1. n + 1 \in DOMAIN events /\ events'[n] = events[n + 1] /\ n + 1 > i
      BY <1>1, <1>3, <2>1
    <3> QED BY <1>2, <3>1
  <2> QED BY <1>3, <2>1 DEF ResetLast
<1>4. CASE i # 1
  <2>1. PICK j \in DOMAIN events' : i = j + 1 /\ events'[j] = events[i]
    BY <1>1, <1>2, <1>4
  <2>2. j + 1 >= i
    BY <1>1, <2>1
  <2> QED BY <1>2, <1>3, <2>1, <2>2
<1>5. CASE i = 1
  <2>1. \A n \in DOMAIN events' : n + 1 >= i /\ n + 1 > i
    BY <1>1, <1>5
  <2>2. \A n \in DOMAIN events' : events'[n].type \in Resets \cup {"tick"}
    BY <1>1, <1>2, <2>1
  <2>3. Head(events).type \in Resets
    BY <1>1, <1>2, <1>5
  <2> QED BY <1>3, <2>1, <2>2, <2>3
<1> QED BY <1>4, <1>5

LEMMA PostsReset ==
  ASSUME NEW type, NEW es, es = << Event(type) >>, Extended(events, events', es)
  PROVE  /\ type \in Resets => ResetLast'
         /\ type = "tick" /\ ResetLast => ResetLast'
<1>1. DOMAIN es = {1} /\ es[1].type = type
  BY DEF Event
<1>2. /\ Len(events) \in Nat /\ DOMAIN events = 1 .. Len(events)
      /\ DOMAIN events' = 1 .. Len(events) + 1
      /\ \A i \in DOMAIN events : i \in DOMAIN events' /\ events'[i] = events[i]
      /\ Len(events) + 1 \in DOMAIN events' /\ events'[Len(events) + 1] = es[1]
      /\ \A i \in DOMAIN events' : i \in DOMAIN events \/ i = Len(events) + 1
  <2>1. Len(es) = 1
    OBVIOUS
  <2> QED BY <1>1, <2>1 DEF Extended
<1>3. ASSUME type \in Resets
      PROVE  ResetLast'
  <2>1. \A i \in DOMAIN events' : ~ (i > Len(events) + 1)
    BY <1>2
  <2> QED BY <1>1, <1>2, <1>3, <2>1 DEF ResetLast
<1>4. ASSUME type = "tick", ResetLast
      PROVE  ResetLast'
  <2>1. PICK i \in DOMAIN events :
          /\ events[i].type \in Resets
          /\ \A j \in DOMAIN events : j > i => events[j].type \in Resets \cup {"tick"}
    BY <1>4 DEF ResetLast
  <2>2. \A j \in DOMAIN events' : j > i => events'[j].type \in Resets \cup {"tick"}
    BY <1>1, <1>2, <1>4, <2>1
  <2> QED BY <1>2, <2>1, <2>2 DEF ResetLast
<1> QED BY <1>3, <1>4

LEMMA ResetStep ==
  ASSUME Core, ResetInv, Moved
  PROVE  ResetInv'
<1> SUFFICES ASSUME "overflow" \notin raced'
             PROVE  ResetInv'
  BY DEF ResetInv
<1>0. \A t \in Resets : t # "tick"
  BY DEF Resets
<1>1. ASSUME NEW t, NEW kind, NEW id, NEW r, Sent(t, kind, id, r)
      PROVE  ResetInv'
  <2>1. "overflow" \notin raced /\ link' = link
    BY <1>1 DEF Sent, Encoded
  <2>2. link # "auth" => ui.active
    BY <1>1 DEF Sent
  <2>3. CASE events' = events
    BY <2>1, <2>2, <2>3 DEF ResetInv, Clear, ResetLast
  <2>4. CASE Takes /\ Head(events).type = "tick"
    <3>1. CASE link = "auth"
      BY <2>1, <2>4, <3>1 DEF ResetInv, Takes, Shortened
    <3>2. CASE link # "auth"
      <4>1. ResetLast
        BY <2>1, <2>2, <3>2 DEF ResetInv, Clear
      <4> QED BY <1>0, <2>1, <2>4, <3>2, <4>1, TakesReset DEF ResetInv
    <3> QED BY <3>1, <3>2
  <2> QED BY <1>1, <2>3, <2>4 DEF Sent
<1>2. ASSUME events' = events, link' = link, raced \subseteq raced', Clear => Clear'
      PROVE  ResetInv'
  BY <1>2 DEF ResetInv, ResetLast
<1>3. ASSUME NEW t, NEW x, Transmitting(t, x)
      PROVE  ResetInv'
  <2>1. mid'["main"] \in {mid["main"], NoRecord}
    BY <1>3, TransmitRecs DEF Core, Threads
  <2>2. Clear => Clear'
    BY <1>3, <2>1 DEF Clear, Transmitting
  <2> QED BY <1>2, <1>3, <2>2 DEF Transmitting
<1>4. ASSUME NEW p, Showing(p)
      PROVE  ResetInv'
  <2>1. ui.active \in BOOLEAN /\ ui'.active = ui.active /\ (ui'.known => ui.known)
    BY <1>4 DEF Showing, KeyUi, Core, TypeInv, Uis
  <2>2. \A k \in ScanKinds : ui'.scan[k].progress => ui.scan[k].progress
    BY <1>4 DEF Showing, KeyUi, ScanKinds
  <2>3. Clear => Clear'
    BY <1>4, <2>1, <2>2 DEF Clear, Showing
  <2> QED BY <1>2, <1>4, <2>3 DEF Showing
<1>5. ASSUME Reading
      PROVE  ResetInv'
  <2>1. "overflow" \notin raced /\ link' = link /\ Takes /\ mid'["main"] = NoRecord
    BY <1>5 DEF Reading
  <2>2. CASE link = "auth"
    BY <2>1, <2>2 DEF ResetInv, Takes, Shortened
  <2>3. CASE link # "auth" /\ ResetLast
    <3>1. CASE Head(events).type \notin Resets
      BY <2>1, <2>3, <3>1, TakesReset DEF ResetInv
    <3>2. CASE Head(events).type \in Resets
      <4>1. Clear'
        BY <1>5, <2>1, <3>2 DEF Reading, Sees, Clear
      <4> QED BY <2>1, <2>3, <4>1, TakesReset DEF ResetInv
    <3> QED BY <3>1, <3>2
  <2>4. CASE link # "auth" /\ Clear /\ \A i \in DOMAIN events : events[i].type = "tick"
    <3>1. Head(events).type = "tick" /\ \A i \in DOMAIN events' : events'[i].type = "tick"
      BY <2>1, <2>4 DEF Takes, Shortened
    <3>2. Sees(Head(events), ui') /\ Head(events).type \notin Resets
      BY <1>0, <1>5, <3>1 DEF Reading
    <3>3. Clear'
      BY <2>1, <2>4, <3>1, <3>2 DEF Sees, Clear, Ends_
    <3> QED BY <2>1, <2>4, <3>1, <3>3 DEF ResetInv
  <2> QED BY <2>1, <2>2, <2>3, <2>4 DEF ResetInv
<1>6. ASSUME NEW es, Grows(es), link = "auth", link' = "auth",
             \A j \in DOMAIN es : es[j].type \notin Resets
      PROVE  ResetInv'
  <2>1. \A i \in DOMAIN events : events[i].type \notin Resets
    BY <1>6 DEF ResetInv, Grows
  <2> QED BY <1>6, <2>1 DEF ResetInv, Grows
<1>7. ASSUME NEW es, NEW p, Handling(es, p)
      PROVE  ResetInv'
  <2>1. \A j \in DOMAIN es : es[j].type \notin Resets
    BY <1>7 DEF Handling, Fits, Resets
  <2> QED BY <1>6, <1>7, <2>1 DEF Handling
<1>8. ASSUME NEW es, Posting(es)
      PROVE  ResetInv'
  <2>1. Extended(events, events', es) /\ "overflow" \notin raced
    BY <1>8 DEF Posting, Grows
  <2>2. CASE link = "down" /\ link' = "up" /\ es = << Event("connected") >>
    <3>1. ResetLast'
      BY <2>1, <2>2, PostsReset DEF Resets
    <3> QED BY <2>2, <3>1 DEF ResetInv
  <2>3. CASE link = "auth" /\ link' = "auth"
    <3>1. \A j \in DOMAIN es : es[j].type \notin Resets
      BY <1>8, <2>3 DEF Posting, Event, Resets
    <3> QED BY <1>6, <1>8, <2>3, <3>1 DEF Posting
  <2>4. CASE link' = link /\ link # "auth" /\ es = << Event("tick") >>
    <3>1. CASE ResetLast
      BY <2>1, <2>4, <3>1, PostsReset DEF ResetInv
    <3>2. CASE Clear /\ \A i \in DOMAIN events : events[i].type = "tick"
      <4>1. Clear'
        BY <1>8, <3>2 DEF Clear, Posting
      <4>2. \A j \in DOMAIN es : es[j].type = "tick"
        BY <2>4 DEF Event
      <4>3. \A i \in DOMAIN events' : events'[i].type = "tick"
        BY <2>1, <3>2, <4>2 DEF Extended
      <4> QED BY <2>4, <4>1, <4>3 DEF ResetInv
    <3> QED BY <2>1, <2>4, <3>1, <3>2 DEF ResetInv
  <2> QED BY <1>8, <2>2, <2>3, <2>4 DEF Posting
<1>9. ASSUME Authenticating
      PROVE  ResetInv'
  <2>1. \A i \in DOMAIN events : events[i].type \notin Resets
    BY <1>9 DEF Authenticating, Waits
  <2>2. Extended(events, events', << Event("active") >>)
    BY <1>9 DEF Authenticating, Grows
  <2>3. \A j \in DOMAIN << Event("active") >> : << Event("active") >>[j].type \notin Resets
    BY DEF Event, Resets
  <2>4. \A i \in DOMAIN events' : events'[i].type \notin Resets
    BY <2>1, <2>2, <2>3 DEF Extended
  <2> QED BY <1>9, <2>4 DEF ResetInv, Authenticating
<1>10. ASSUME Dropping
       PROVE  ResetInv'
  <2>1. Extended(events, events', << Event("advertising") >>)
    BY <1>10 DEF Dropping, Grows
  <2>2. ResetLast'
    BY <2>1, PostsReset DEF Resets
  <2> QED BY <1>10, <2>2 DEF ResetInv, Dropping
<1>11. ASSUME NEW h, NEW b, NEW r, Accepting(h, b, r)
       PROVE  ResetInv'
  BY <1>2, <1>11 DEF Accepting, Clear
<1>12. ASSUME NEW rs, Saying(rs)
       PROVE  ResetInv'
  BY <1>2, <1>12 DEF Saying, Clear
<1>13. ASSUME Buttoning \/ Idles \/ UNCHANGED vars
       PROVE  ResetInv'
  <2>1. events' = events /\ link' = link /\ raced \subseteq raced' /\ (Clear => Clear')
    BY <1>13 DEF Buttoning, Idles, vars, Clear
  <2> QED BY <1>2, <2>1
<1> QED BY <1>1, <1>3, <1>4, <1>5, <1>7, <1>8, <1>9, <1>10, <1>11, <1>12, <1>13 DEF Moved

-----------------------------------------------------------------------------
(* The sequence numbers.                                                     *)

\* Unless both threads are sending, the shared record is that of the thread that sends.
OneSender ==
  "two_senders" \notin raced =>
    /\ \A t, o \in Threads : t # o => mid[t] = NoRecord \/ mid[o] = NoRecord
    /\ \A t \in Threads : mid[t] # NoRecord /\ mid[t].cmd.kind # "caps" => buf = mid[t]

\* The numbers under way are those between the one the board expects and the next one.
Numbered ==
  /\ seqOut = board.seqIn + Len(toB)
  /\ \A i \in DOMAIN toB : toB[i].session = session /\ toB[i].seq = board.seqIn + i - 1
  /\ \A t \in Threads : mid[t] # NoRecord => mid[t].seq = seqOut /\ mid[t].session = session

StreamInv ==
  ~ But({"two_senders", "overflow"}) => ~ board.refused /\ (link = "auth" => Numbered)

LEMMA SenderStep ==
  ASSUME Core, OneSender, Moved
  PROVE  OneSender'
<1> SUFFICES ASSUME "two_senders" \notin raced'
             PROVE  OneSender'
  BY DEF OneSender
<1>1. ASSUME mid' = mid, buf' = buf, raced \subseteq raced'
      PROVE  OneSender'
  BY <1>1 DEF OneSender
<1>2. ASSUME NEW t, NEW kind, NEW id, NEW r, Sent(t, kind, id, r)
      PROVE  OneSender'
  <2>1. /\ r.cmd.kind = kind /\ mid'[t] = r /\ \A o \in Threads : o # t => mid'[o] = mid[o]
        /\ kind # "caps" => buf' = r
    BY <1>2, SentRecs DEF Core
  <2>2. \A o \in Threads : o # t => mid'[o] = NoRecord
    BY <1>2, <2>1 DEF Sent, Encoded
  <2> QED BY <2>1, <2>2 DEF OneSender
<1>3. ASSUME NEW t, NEW x, Transmitting(t, x)
      PROVE  OneSender'
  <2>1. t \in Threads /\ mid'[t] = NoRecord /\ \A o \in Threads : o # t => mid'[o] = mid[o]
    BY <1>3, TransmitRecs DEF Core, Transmitting
  <2>2. raced' = raced /\ ((\E o \in Threads : o # t /\ mid[o] # NoRecord) => buf' = buf)
    BY <1>3 DEF Transmitting
  <2> QED BY <2>1, <2>2 DEF OneSender
<1>4. ASSUME ~ (\E t, kind, id, r : Sent(t, kind, id, r)), ~ (\E t, x : Transmitting(t, x))
      PROVE  mid' = mid /\ buf' = buf /\ raced \subseteq raced'
  BY <1>4 DEF Moved, Showing, Reading, Handling, Posting, Authenticating, Dropping, Grows,
     Accepting, Saying, Buttoning, Idles, vars
<1> QED BY <1>1, <1>2, <1>3, <1>4

LEMMA StreamStep ==
  ASSUME Core, ResetInv, OneSender, StreamInv, Moved
  PROVE  StreamInv'
<1> SUFFICES ASSUME ~ But({"two_senders", "overflow"})'
             PROVE  ~ board'.refused /\ (link' = "auth" => Numbered')
  BY DEF StreamInv
<1>0. /\ TypeInv /\ seqOut \in Nat /\ board.seqIn \in Nat /\ Len(toB) \in Nat /\ DOMAIN toB = 1 .. Len(toB)
      /\ toB \in Seq(Records)
  BY LenProperties DEF Core, TypeInv, Boards
<1>1. ASSUME raced \subseteq raced'
      PROVE  /\ ~ board.refused /\ (link = "auth" => Numbered)
             /\ "two_senders" \notin raced /\ "overflow" \notin raced
  BY <1>1 DEF StreamInv, But
<1>2. ASSUME UNCHANGED <<mid, seqOut, toB, session>>, board'.seqIn = board.seqIn,
             board'.refused = board.refused, raced \subseteq raced',
             link' = "auth" => link = "auth"
      PROVE  ~ board'.refused /\ (link' = "auth" => Numbered')
  BY <1>1, <1>2 DEF Numbered
<1>3. ASSUME NEW t, NEW kind, NEW id, NEW r, Sent(t, kind, id, r)
      PROVE  ~ board'.refused /\ (link' = "auth" => Numbered')
  <2>1. /\ r.session = session /\ r.seq = seqOut
        /\ mid'[t] = r /\ \A o \in Threads : o # t => mid'[o] = mid[o]
    BY <1>0, <1>3, SentRecs
  <2>2. UNCHANGED <<seqOut, link, session, toB, board>> /\ raced \subseteq raced'
    BY <1>3 DEF Sent, Encoded
  <2> QED BY <1>1, <2>1, <2>2 DEF Numbered
<1>4. ASSUME NEW t, NEW x, Transmitting(t, x)
      PROVE  ~ board'.refused /\ (link' = "auth" => Numbered')
  <2>1. t \in Threads /\ mid'[t] = NoRecord /\ \A o \in Threads : o # t => mid'[o] = mid[o]
    BY <1>0, <1>4, TransmitRecs DEF Transmitting
  <2>2. UNCHANGED <<link, session, board, raced>> /\ seqOut' = seqOut + 1 /\ mid[t] # NoRecord
    BY <1>4 DEF Transmitting
  <2>3. ~ board.refused /\ (link = "auth" => Numbered) /\ "two_senders" \notin raced
    BY <1>1, <2>2
  <2>4. CASE link = "auth"
    <3>1. x = mid[t]
      BY <1>4, <2>1, <2>2, <2>3 DEF Transmitting, OneSender
    <3>2. x.seq = seqOut /\ x.session = session
      BY <2>1, <2>2, <2>3, <2>4, <3>1 DEF Numbered
    <3>3. \A o \in Threads : mid'[o] = NoRecord
      BY <2>1, <2>2, <2>3 DEF OneSender
    <3>4. Extended(toB, toB', << x >>) /\ DOMAIN << x >> = {1} /\ << x >>[1] = x /\ Len(<< x >>) = 1
      BY <1>4, <2>4 DEF Transmitting
    <3>5. /\ DOMAIN toB' = 1 .. Len(toB) + 1 /\ Len(toB') = Len(toB) + 1
          /\ \A i \in DOMAIN toB : i \in DOMAIN toB' /\ toB'[i] = toB[i]
          /\ toB'[Len(toB) + 1] = x
      BY <3>4 DEF Extended
    <3>6. seqOut = board.seqIn + Len(toB)
      BY <2>3, <2>4 DEF Numbered
    <3>7. seqOut' = board.seqIn + Len(toB')
      BY <1>0, <2>2, <3>5, <3>6
    <3>8. ASSUME NEW i \in DOMAIN toB'
          PROVE  toB'[i].session = session /\ toB'[i].seq = board.seqIn + i - 1
      <4>1. CASE i \in DOMAIN toB
        BY <2>3, <2>4, <3>5, <4>1 DEF Numbered
      <4>2. CASE i = Len(toB) + 1
        <5>1. board.seqIn + i - 1 = seqOut
          BY <1>0, <3>6, <4>2
        <5> QED BY <3>2, <3>5, <4>2, <5>1
      <4> QED BY <1>0, <3>5, <4>1, <4>2
    <3> QED BY <2>2, <2>3, <3>3, <3>7, <3>8 DEF Numbered
  <2>5. CASE link # "auth"
    BY <2>2, <2>3, <2>5
  <2> QED BY <2>4, <2>5
<1>5. ASSUME NEW p, Showing(p)
      PROVE  ~ board'.refused /\ (link' = "auth" => Numbered')
  BY <1>2, <1>5 DEF Showing
<1>6. ASSUME Reading
      PROVE  ~ board'.refused /\ (link' = "auth" => Numbered')
  BY <1>2, <1>6 DEF Reading
<1>7. ASSUME NEW es, NEW p, Handling(es, p)
      PROVE  ~ board'.refused /\ (link' = "auth" => Numbered')
  BY <1>2, <1>7 DEF Handling, Grows
<1>8. ASSUME NEW es, Posting(es)
      PROVE  ~ board'.refused /\ (link' = "auth" => Numbered')
  BY <1>2, <1>8 DEF Posting, Grows
<1>9. ASSUME Authenticating
      PROVE  ~ board'.refused /\ (link' = "auth" => Numbered')
  <2>1. raced \subseteq raced' /\ link = "up" /\ toB' = toB /\ mid' = mid /\ mid["worker"] = NoRecord
    BY <1>9 DEF Authenticating, Grows
  <2>2. toB = << >>
    BY <2>1 DEF Core, LinkOK
  <2>3. ~ ResetLast
    BY <1>9 DEF Authenticating, Waits, ResetLast
  <2>4. Clear
    BY <1>1, <2>1, <2>3 DEF ResetInv
  <2>5. \A t \in Threads : mid'[t] = NoRecord
    BY <2>1, <2>4 DEF Threads, Clear
  <2>6. seqOut' = 1 /\ board'.seqIn = 1 /\ board'.refused = board.refused
    BY <1>9 DEF Authenticating
  <2>7. DOMAIN toB' = {} /\ Len(toB') = 0
    BY <2>1, <2>2, NoneIs, EmptySeq
  <2> QED BY <1>1, <2>1, <2>5, <2>6, <2>7 DEF Numbered
<1>10. ASSUME Dropping
       PROVE  ~ board'.refused /\ (link' = "auth" => Numbered')
  <2>1. raced \subseteq raced' /\ link' = "down"
    BY <1>10 DEF Dropping, Grows
  <2>2. CASE link = "auth" /\ toB # << >>
    <3>1. 1 \in DOMAIN toB
      BY <1>0, <2>2, ShortenedIs DEF Shortened
    <3>2. toB[1].session = session /\ toB[1].seq = board.seqIn + 1 - 1
      BY <1>1, <2>1, <2>2, <3>1 DEF Numbered
    <3>3. toB[1].seq = board.seqIn
      BY <1>0, <3>2
    <3> QED BY <1>1, <1>10, <2>1, <3>2, <3>3 DEF Dropping
  <2>3. CASE ~ (link = "auth" /\ toB # << >>)
    BY <1>1, <1>10, <2>1, <2>3 DEF Dropping
  <2> QED BY <2>2, <2>3
<1>11. ASSUME NEW h, NEW b, NEW r, Accepting(h, b, r)
       PROVE  ~ board'.refused /\ (link' = "auth" => Numbered')
  <2>1. /\ link = "auth" /\ UNCHANGED <<mid, seqOut, session, link, raced>> /\ Shortened(toB, toB')
        /\ board'.seqIn = board.seqIn + 1 /\ board'.refused = board.refused
    BY <1>11 DEF Accepting, Answered
  <2>2. ~ board.refused /\ Numbered
    BY <1>1, <2>1
  <2>3. /\ Len(toB') = Len(toB) - 1 /\ DOMAIN toB' = 1 .. Len(toB) - 1
        /\ \A i \in DOMAIN toB' : i + 1 \in DOMAIN toB /\ toB'[i] = toB[i + 1]
    BY <2>1 DEF Shortened
  <2>4. seqOut' = board'.seqIn + Len(toB')
    <3>1. seqOut = board.seqIn + Len(toB)
      BY <2>2 DEF Numbered
    <3> QED BY <1>0, <2>1, <2>3, <3>1
  <2>5. ASSUME NEW i \in DOMAIN toB'
        PROVE  toB'[i].session = session /\ toB'[i].seq = board'.seqIn + i - 1
    <3>1. toB'[i].session = session /\ toB'[i].seq = board.seqIn + (i + 1) - 1
      BY <2>2, <2>3, <2>5 DEF Numbered
    <3>2. i \in Nat /\ board.seqIn \in Nat
      BY <1>0, <2>3
    <3>3. board.seqIn + (i + 1) - 1 = board'.seqIn + i - 1
      BY <2>1, <3>2
    <3> QED BY <3>1, <3>3
  <2> QED BY <2>1, <2>2, <2>4, <2>5 DEF Numbered
<1>12. ASSUME NEW rs, Saying(rs)
       PROVE  ~ board'.refused /\ (link' = "auth" => Numbered')
  BY <1>2, <1>12 DEF Saying
<1>13. ASSUME Buttoning \/ Idles \/ UNCHANGED vars
       PROVE  ~ board'.refused /\ (link' = "auth" => Numbered')
  <2>1. /\ UNCHANGED <<mid, seqOut, toB, session, link>> /\ board'.seqIn = board.seqIn
        /\ board'.refused = board.refused /\ raced \subseteq raced'
    BY <1>13 DEF Buttoning, Idles, vars
  <2> QED BY <1>2, <2>1
<1> QED BY <1>3, <1>4, <1>5, <1>6, <1>7, <1>8, <1>9, <1>10, <1>11, <1>12, <1>13 DEF Moved

-----------------------------------------------------------------------------
(* Where the answer of a command is still to come from: the command is on    *)
(* its way, or its scan runs, or answers of it are under way; and the last   *)
(* answer is behind the others.                                              *)

\* The records that the board would still take.
Live == {r \in Recs : r.session = session /\ r.seq >= board.seqIn /\ r.cmd.id # 0}

OwedRecs ==
  \A r \in Live : /\ r.cmd.id \in owed
                  /\ \A k \in ScanKinds : board.scan[k].id # r.cmd.id
                  /\ \A i \in DOMAIN toF : toF[i].id # r.cmd.id
OwedScans ==
  \A k \in ScanKinds : Scanning(k) =>
    /\ board.scan[k].id \in owed
    /\ \A l \in ScanKinds : l # k => board.scan[l].id # board.scan[k].id
    /\ \A i \in DOMAIN toF : toF[i].id = board.scan[k].id => ~ toF[i].last
OwedReplies ==
  \A i \in DOMAIN toF : toF[i].id # 0 =>
    /\ toF[i].id \in owed
    /\ toF[i].last => \A j \in DOMAIN toF : toF[j].id = toF[i].id => j <= i
Owing == link = "auth" => OwedRecs /\ OwedScans /\ OwedReplies

\* One command at a time, unless commands have crossed, and the slot is that command's.
OneOwed == "crossed" \notin raced => \A a, b \in owed : a = b
Fitting ==
  "crossed" \notin raced /\ link = "auth" /\ pending # "none" =>
    /\ \A r \in Live : pending = r.cmd.kind
    /\ \A k \in ScanKinds : Scanning(k) => pending = k
    /\ \A i \in DOMAIN toF : toF[i].id # 0 => Owner(pending) = toF[i].kind

\* A step that neither sends nor answers.
Still ==
  /\ Live' \subseteq Live /\ toF' = toF /\ board'.scan = board.scan /\ owed' = owed
  /\ pending' \in {pending, "none"} /\ raced \subseteq raced'
  /\ link' = "auth" => link = "auth"

LEMMA LiveKept ==
  ASSUME Recs' \subseteq Recs, session' = session, board'.seqIn = board.seqIn
  PROVE  Live' \subseteq Live
BY DEF Live

\* Every step is one of these.
LEMMA Stills ==
  ASSUME Core, Moved
  PROVE  \/ Still
         \/ \E t, kind, id, r : Sent(t, kind, id, r)
         \/ \E es, p : Handling(es, p)
         \/ Authenticating \/ Dropping
         \/ \E h, b, r : Accepting(h, b, r)
         \/ \E rs : Saying(rs)
<1>1. ASSUME NEW t, NEW x, Transmitting(t, x)
      PROVE  Still
  <2>1. Live' \subseteq Live
    BY <1>1, TransmitRecs, LiveKept DEF Core, Transmitting
  <2> QED BY <1>1, <2>1 DEF Transmitting, Still
<1>2. ASSUME UNCHANGED <<mid, buf, toB, session, toF, owed>>, board'.seqIn = board.seqIn,
             board'.scan = board.scan,
             pending' \in {pending, "none"}, raced \subseteq raced', link' = "auth" => link = "auth"
      PROVE  Still
  BY <1>2, SameRecs, LiveKept DEF Still
<1>3. ASSUME NEW p, Showing(p)
      PROVE  Still
  BY <1>2, <1>3 DEF Showing
<1>4. ASSUME Reading
      PROVE  Still
  BY <1>2, <1>4 DEF Reading
<1>5. ASSUME NEW es, Posting(es)
      PROVE  Still
  BY <1>2, <1>5 DEF Posting, Grows
<1>6. ASSUME Buttoning \/ Idles \/ UNCHANGED vars
      PROVE  Still
  <2>1. /\ UNCHANGED <<mid, buf, toB, session, toF, owed, pending, link>> /\ board'.seqIn = board.seqIn
        /\ board'.scan = board.scan /\ raced \subseteq raced'
    BY <1>6 DEF Buttoning, Idles, vars
  <2> QED BY <1>2, <2>1
<1> QED BY <1>1, <1>3, <1>4, <1>5, <1>6 DEF Moved

LEMMA SentLive ==
  ASSUME Core, NEW t, NEW kind, NEW id, NEW r, Sent(t, kind, id, r)
  PROVE  /\ Live' \subseteq Live \cup {r} /\ (r.cmd.id = 0 => Live' \subseteq Live)
         /\ r.cmd.id = id /\ r.cmd.kind = kind
         /\ id # 0 => /\ \A q \in Recs : q.cmd.id # id
                      /\ \A k \in ScanKinds : board.scan[k].id # id
                      /\ \A i \in DOMAIN toF : toF[i].id # id
<1>1. /\ r.cmd.kind = kind /\ r.cmd.id = id /\ Recs' \subseteq Recs \cup {r}
  BY SentRecs DEF Core
<1>2. session' = session /\ board' = board /\ (id # 0 => id = count + 1)
  BY DEF Sent
<1>3. /\ count \in Nat /\ \A q \in Recs : q.cmd.id \in Nat /\ q.cmd.id <= count
      /\ \A k \in ScanKinds : board.scan[k].id \in Nat /\ board.scan[k].id <= count
  BY DEF Core, TypeInv, Recs, Records, RecsOK, BoardOK, Boards
<1>4. \A i \in DOMAIN toF : toF[i].id \in Nat /\ toF[i].id <= count
  BY RepliesAre DEF Core, TypeInv, BoardOK
<1>5. \A n \in Nat : n <= count => n # count + 1
  BY <1>3
<1> QED BY <1>1, <1>2, <1>3, <1>4, <1>5 DEF Live

LEMMA AcceptLive ==
  ASSUME Core, NEW h, NEW b, NEW r, Accepting(h, b, r)
  PROVE  /\ Live' \subseteq Live /\ \A q \in Live' : q.cmd.id # h.cmd.id
         /\ h.cmd.id # 0 => h \in Live
         /\ r.id = h.cmd.id /\ link = "auth"
<1>1. /\ h \in Recs /\ h.seq = board.seqIn /\ h.session = session /\ session' = session
      /\ board'.seqIn = board.seqIn + 1 /\ r.id = h.cmd.id /\ link = "auth"
  BY DEF Accepting, Answered
<1>2. Recs' \subseteq Recs
  BY AcceptRecs
<1>3. board.seqIn \in Nat /\ \A q \in Recs : q.seq \in Nat
  BY DEF Core, TypeInv, Boards, Recs, Records
<1>4. \A q \in Recs : q.seq >= board.seqIn + 1 => q.seq >= board.seqIn /\ q.seq # board.seqIn
  BY <1>3
<1>5. Live' \subseteq Live /\ h \notin Live'
  BY <1>1, <1>2, <1>4 DEF Live
<1>6. h.seq >= board.seqIn
  BY <1>1, <1>3
<1>7. \A q \in Live' : q.cmd.id # h.cmd.id
  BY <1>1, <1>2, <1>5 DEF Live, Core, RecsOK
<1> QED BY <1>1, <1>5, <1>6, <1>7 DEF Live

LEMMA SayLive ==
  ASSUME NEW rs, Saying(rs)
  PROVE  Live' \subseteq Live
BY SameRecs, LiveKept DEF Saying

\* What the board says, by the scan it is of: a batch leaves the scan, the end does not.
LEMMA SayingOwed ==
  ASSUME Core, NEW rs, Saying(rs)
  PROVE  /\ \A j \in DOMAIN rs :
              \/ rs[j].id = 0 /\ ~ rs[j].last
              \/ \E k \in ScanKinds :
                   /\ Scanning(k) /\ rs[j].id = board.scan[k].id /\ rs[j].kind = k /\ j = 1 /\ Len(rs) = 1
                   /\ rs[j].last => board'.scan[k].id = 0
         /\ \A k \in ScanKinds : board'.scan[k].id \in {0, board.scan[k].id}
<1>1. NoScan.id = 0
  BY DEF NoScan
<1>2. \A k \in ScanKinds : board'.scan[k].id \in {0, board.scan[k].id}
  BY SaidIs
<1>3. CASE \E k \in ScanKinds, r \in Replies : rs = << r >> /\ Results(k, r)
  <2>1. PICK k \in ScanKinds, r \in Replies : rs = << r >> /\ Results(k, r)
    BY <1>3
  <2>2. DOMAIN rs = {1} /\ rs[1] = r /\ Len(rs) = 1
    BY <2>1
  <2> QED BY <1>1, <1>2, <2>1, <2>2 DEF Results, Scanning
<1>4. CASE \E r \in Replies : rs = << r >> /\ Captures(r)
  <2>1. PICK r \in Replies : rs = << r >> /\ Captures(r)
    BY <1>4
  <2>2. DOMAIN rs = {1} /\ rs[1] = r
    BY <2>1
  <2> QED BY <1>2, <2>1, <2>2 DEF Captures
<1>5. CASE \E r \in Replies, s \in Replies : rs = << r, s >> /\ Stops(r, s)
  <2>1. PICK r \in Replies, s \in Replies : rs = << r, s >> /\ Stops(r, s)
    BY <1>5
  <2>2. DOMAIN rs = {1, 2} /\ rs[1] = r /\ rs[2] = s
    BY <2>1, TwoIs
  <2> QED BY <1>2, <2>1, <2>2 DEF Stops
<1> QED BY <1>3, <1>4, <1>5 DEF Saying

LEMMA OwingStep ==
  ASSUME Core, Owing, Moved
  PROVE  Owing'
<1> SUFFICES ASSUME link' = "auth"
             PROVE  Owing'
  BY DEF Owing
<1>0. /\ toF \in Seq(Replies) /\ Len(toF) \in Nat /\ DOMAIN toF = 1 .. Len(toF)
      /\ \A r \in Live : r.cmd.id # 0
  BY LenProperties DEF Core, TypeInv, Live
<1>1. ASSUME Still
      PROVE  Owing'
  BY <1>1 DEF Still, Owing, OwedRecs, OwedScans, OwedReplies, Scanning
<1>2. ASSUME NEW t, NEW kind, NEW id, NEW r, Sent(t, kind, id, r)
      PROVE  Owing'
  <2>1. /\ Live' \subseteq Live \cup {r} /\ (r.cmd.id = 0 => Live' \subseteq Live)
        /\ r.cmd.id = id
        /\ id # 0 => /\ \A k \in ScanKinds : board.scan[k].id # id
                     /\ \A i \in DOMAIN toF : toF[i].id # id
    BY <1>2, SentLive
  <2>2. /\ board' = board /\ toF' = toF /\ link' = link
        /\ owed \subseteq owed' /\ (id # 0 => id \in owed')
    BY <1>2 DEF Sent, Encoded
  <2>3. OwedRecs /\ OwedScans /\ OwedReplies
    BY <2>2 DEF Owing
  <2>4. OwedRecs'
    BY <2>1, <2>2, <2>3 DEF OwedRecs
  <2>5. OwedScans' /\ OwedReplies'
    BY <2>2, <2>3 DEF OwedScans, OwedReplies, Scanning
  <2> QED BY <2>4, <2>5 DEF Owing
<1>3. ASSUME NEW es, NEW p, Handling(es, p)
      PROVE  Owing'
  <2>1. /\ link = "auth" /\ Shortened(toF, toF') /\ board' = board
        /\ UNCHANGED <<mid, buf, toB, session>>
        /\ owed' = IF toF[1].last THEN owed \ {toF[1].id} ELSE owed
    BY <1>3 DEF Handling, Shortened
  <2>2. Live' \subseteq Live
    BY <2>1, SameRecs, LiveKept
  <2>3. /\ OwedRecs /\ OwedScans /\ OwedReplies
    BY <2>1 DEF Owing
  <2>4. /\ 1 \in DOMAIN toF
        /\ \A i \in DOMAIN toF' : i + 1 \in DOMAIN toF /\ toF'[i] = toF[i + 1] /\ i \in Nat /\ ~ (i + 1 <= 1)
        /\ DOMAIN toF' \subseteq Nat
    BY <2>1 DEF Shortened
  <2>5. OwedRecs'
    BY <2>1, <2>2, <2>3, <2>4 DEF OwedRecs
  <2>6. OwedScans'
    BY <2>1, <2>3, <2>4 DEF OwedScans, Scanning
  <2>7. OwedReplies'
    <3>1. ASSUME NEW i \in DOMAIN toF', toF'[i].id # 0
          PROVE  /\ toF'[i].id \in owed'
                 /\ toF'[i].last => \A j \in DOMAIN toF' : toF'[j].id = toF'[i].id => j <= i
      <4>1. i + 1 \in DOMAIN toF /\ toF'[i] = toF[i + 1] /\ ~ (i + 1 <= 1)
        BY <2>4
      <4>2. /\ toF[i + 1].id \in owed
            /\ toF[i + 1].last => \A j \in DOMAIN toF : toF[j].id = toF[i + 1].id => j <= i + 1
        BY <2>3, <3>1, <4>1 DEF OwedReplies
      <4>3. toF[1].last => toF[1].id # toF[i + 1].id
        BY <2>3, <2>4, <3>1, <4>1 DEF OwedReplies
      <4>4. ASSUME NEW j \in DOMAIN toF', toF'[i].last, toF'[j].id = toF'[i].id
            PROVE  j <= i
        <5>1. j + 1 <= i + 1
          BY <2>4, <4>1, <4>2, <4>4
        <5> QED BY <2>4, <5>1
      <4> QED BY <2>1, <4>1, <4>2, <4>3, <4>4
    <3> QED BY <3>1 DEF OwedReplies
  <2> QED BY <2>5, <2>6, <2>7 DEF Owing
<1>4. ASSUME Authenticating
      PROVE  Owing'
  <2>1. /\ UNCHANGED <<mid, buf, toB, toF>> /\ session' = session + 1 /\ board'.scan = board.scan
        /\ link = "up"
    BY <1>4 DEF Authenticating
  <2>2. toF' = << >> /\ \A k \in ScanKinds : board'.scan[k] = NoScan
    BY <2>1 DEF Core, LinkOK
  <2>3. Live' = {}
    <3>1. Recs' \subseteq Recs
      BY <2>1, SameRecs
    <3>2. session \in Nat /\ \A r \in Recs : r.session \in Nat /\ r.session <= session
      BY DEF Core, TypeInv, Recs, Records, RecsOK
    <3>3. \A r \in Recs : r.session # session + 1
      BY <3>2
    <3> QED BY <2>1, <3>1, <3>3 DEF Live
  <2>4. DOMAIN toF' = {} /\ NoScan.id = 0
    BY <2>2, NoneIs DEF NoScan
  <2> QED BY <2>2, <2>3, <2>4 DEF Owing, OwedRecs, OwedScans, OwedReplies, Scanning
<1>5. ASSUME Dropping
      PROVE  Owing'
  BY <1>5 DEF Dropping
<1>6. ASSUME NEW h, NEW b, NEW r, Accepting(h, b, r)
      PROVE  Owing'
  <2>1. /\ Live' \subseteq Live /\ (\A q \in Live' : q.cmd.id # h.cmd.id)
        /\ h.cmd.id # 0 => h \in Live
        /\ r.id = h.cmd.id /\ link = "auth"
    BY <1>6, AcceptLive
  <2>2. OwedRecs /\ OwedScans /\ OwedReplies /\ owed' = owed /\ board'.scan = b.scan /\ Answered(h.cmd, b, r)
    BY <1>6, <2>1 DEF Owing, Accepting
  <2>3. h.cmd.id # 0 => /\ h.cmd.id \in owed
                        /\ \A k \in ScanKinds : board.scan[k].id # h.cmd.id
                        /\ \A i \in DOMAIN toF : toF[i].id # h.cmd.id
    BY <2>1, <2>2 DEF OwedRecs
  <2>4. CASE r.state = "silence"
    <3>1. /\ h.cmd.kind \in ScanKinds /\ board'.scan[h.cmd.kind].id = h.cmd.id
          /\ (\A o \in ScanKinds : o # h.cmd.kind => board'.scan[o] = board.scan[o]) /\ toF' = toF
      BY <1>6, <2>2, <2>4 DEF Answered, ReplyOK, Accepting
    <3>2. OwedRecs'
      BY <2>1, <2>2, <3>1 DEF OwedRecs
    <3>3. h.cmd.id # 0
      BY <1>6, <3>1 DEF Accepting, Core, RecsOK, ScanKinds
    <3>4. OwedScans'
      BY <2>2, <2>3, <3>1, <3>3 DEF OwedScans, Scanning
    <3>5. OwedReplies'
      BY <2>2, <3>1 DEF OwedReplies
    <3> QED BY <3>2, <3>4, <3>5 DEF Owing
  <2>5. CASE r.state # "silence"
    <3>1. board'.scan = board.scan /\ r.last
      BY <2>2, <2>5 DEF Answered
    <3>2. /\ DOMAIN toF' = 1 .. Len(toF) + 1
          /\ \A i \in DOMAIN toF : i \in DOMAIN toF' /\ toF'[i] = toF[i]
          /\ Len(toF) + 1 \in DOMAIN toF' /\ toF'[Len(toF) + 1] = r
          /\ \A i \in DOMAIN toF' : i \in DOMAIN toF \/ i = Len(toF) + 1
      <4>1. Extended(toF, toF', << r >>) /\ DOMAIN << r >> = {1} /\ << r >>[1] = r /\ Len(<< r >>) = 1
        BY <1>6, <2>5 DEF Accepting
      <4> QED BY <4>1 DEF Extended
    <3>3. OwedRecs'
      BY <1>0, <2>1, <2>2, <3>1, <3>2 DEF OwedRecs
    <3>4. OwedScans'
      BY <2>1, <2>2, <2>3, <3>1, <3>2 DEF OwedScans, Scanning
    <3>5. ASSUME NEW i \in DOMAIN toF', toF'[i].id # 0
          PROVE  /\ toF'[i].id \in owed
                 /\ toF'[i].last => \A j \in DOMAIN toF' : toF'[j].id = toF'[i].id => j <= i
      <4>1. CASE i \in DOMAIN toF
        <5>1. toF'[i] = toF[i] /\ toF[i].id # r.id
          BY <2>1, <2>3, <3>2, <3>5, <4>1
        <5> QED BY <2>2, <3>2, <3>5, <4>1, <5>1 DEF OwedReplies
      <4>2. CASE i = Len(toF) + 1
        <5>1. \A j \in DOMAIN toF' : j <= i
          BY <1>0, <3>2, <4>2
        <5> QED BY <2>1, <2>3, <3>2, <3>5, <4>2, <5>1
      <4> QED BY <3>2, <4>1, <4>2
    <3>6. OwedReplies'
      BY <2>2, <3>5 DEF OwedReplies
    <3> QED BY <3>3, <3>4, <3>6 DEF Owing
  <2> QED BY <2>4, <2>5
<1>7. ASSUME NEW rs, Saying(rs)
      PROVE  Owing'
  <2>1. /\ link = "auth" /\ Extended(toF, toF', rs) /\ owed' = owed /\ Live' \subseteq Live
        /\ OwedRecs /\ OwedScans /\ OwedReplies
    BY <1>7, SayLive DEF Saying, Owing
  <2>2. /\ \A j \in DOMAIN rs :
              \/ rs[j].id = 0 /\ ~ rs[j].last
              \/ \E k \in ScanKinds :
                   /\ Scanning(k) /\ rs[j].id = board.scan[k].id /\ rs[j].kind = k /\ j = 1 /\ Len(rs) = 1
                   /\ rs[j].last => board'.scan[k].id = 0
        /\ \A k \in ScanKinds : board'.scan[k].id \in {0, board.scan[k].id}
    BY <1>7, SayingOwed
  <2>3. OwedRecs'
    <3>1. ASSUME NEW r \in Live'
          PROVE  /\ \A k \in ScanKinds : board'.scan[k].id # r.cmd.id
                 /\ \A j \in DOMAIN rs : rs[j].id # r.cmd.id
      BY <1>0, <2>1, <2>2 DEF OwedRecs
    <3>2. \A r \in Live' : \A i \in DOMAIN toF' : toF'[i].id # r.cmd.id
      BY <2>1, <3>1 DEF OwedRecs, Extended
    <3> QED BY <2>1, <3>1, <3>2 DEF OwedRecs
  <2>4. OwedScans'
    <3>1. ASSUME NEW k \in ScanKinds, board'.scan[k].id # 0
          PROVE  /\ board'.scan[k].id \in owed
                 /\ \A l \in ScanKinds : l # k => board'.scan[l].id # board'.scan[k].id
                 /\ \A i \in DOMAIN toF' : toF'[i].id = board'.scan[k].id => ~ toF'[i].last
      <4>1. board'.scan[k].id = board.scan[k].id /\ Scanning(k)
        BY <2>2, <3>1 DEF Scanning
      <4>2. /\ board.scan[k].id \in owed
            /\ \A l \in ScanKinds : l # k => board'.scan[l].id # board.scan[k].id
            /\ \A i \in DOMAIN toF : toF[i].id = board.scan[k].id => ~ toF[i].last
        BY <2>1, <2>2, <4>1 DEF OwedScans, Scanning
      <4>3. \A j \in DOMAIN rs : rs[j].id = board.scan[k].id => ~ rs[j].last
        BY <2>1, <2>2, <3>1, <4>1 DEF OwedScans, Scanning
      <4> QED BY <2>1, <4>1, <4>2, <4>3 DEF Extended
    <3> QED BY <2>1, <3>1 DEF OwedScans, Scanning
  <2>5. ASSUME NEW i \in DOMAIN toF', toF'[i].id # 0
        PROVE  /\ toF'[i].id \in owed
               /\ toF'[i].last => \A j \in DOMAIN toF' : toF'[j].id = toF'[i].id => j <= i
    <3>1. CASE i \in DOMAIN toF
      <4>1. toF'[i] = toF[i] /\ toF[i].id \in owed
        BY <2>1, <2>5, <3>1 DEF Extended, OwedReplies
      <4>2. toF[i].last => \A j \in DOMAIN rs : rs[j].id # toF[i].id
        BY <2>1, <2>2, <2>5, <3>1, <4>1 DEF OwedScans
      <4>3. toF[i].last => \A j \in DOMAIN toF' : toF'[j].id = toF[i].id => j \in DOMAIN toF /\ toF[j].id = toF[i].id
        BY <2>1, <4>2 DEF Extended
      <4> QED BY <2>1, <2>5, <3>1, <4>1, <4>3 DEF OwedReplies
    <3>2. CASE i \notin DOMAIN toF
      <4>1. PICK j \in DOMAIN rs : i = Len(toF) + j /\ toF'[i] = rs[j]
        BY <2>1, <2>5, <3>2 DEF Extended
      <4>2. PICK k \in ScanKinds : Scanning(k) /\ rs[j].id = board.scan[k].id /\ j = 1 /\ Len(rs) = 1
        BY <2>2, <2>5, <4>1
      <4>3. rs[j].id \in owed
        BY <2>1, <4>2 DEF OwedScans
      <4>4. \A m \in DOMAIN toF' : m <= i
        BY <2>1, <4>1, <4>2 DEF Extended
      <4> QED BY <4>1, <4>3, <4>4
    <3> QED BY <3>1, <3>2
  <2>6. OwedReplies'
    BY <2>1, <2>5 DEF OwedReplies
  <2> QED BY <2>3, <2>4, <2>6 DEF Owing
<1> QED BY Stills, <1>1, <1>2, <1>3, <1>4, <1>5, <1>6, <1>7

LEMMA FreshAuth ==
  ASSUME Core, Authenticating
  PROVE  Live' = {} /\ DOMAIN toF' = {} /\ \A k \in ScanKinds : ~ Scanning(k)'
<1>1. /\ UNCHANGED <<mid, buf, toB, toF>> /\ session' = session + 1 /\ board'.scan = board.scan
      /\ link = "up"
  BY DEF Authenticating
<1>2. toF' = << >> /\ \A k \in ScanKinds : board'.scan[k] = NoScan
  BY <1>1 DEF Core, LinkOK
<1>3. Recs' \subseteq Recs
  BY <1>1, SameRecs
<1>4. session \in Nat /\ \A r \in Recs : r.session \in Nat /\ r.session <= session
  BY DEF Core, TypeInv, Recs, Records, RecsOK
<1>5. \A r \in Recs : r.session # session + 1
  BY <1>4
<1>6. Live' = {}
  BY <1>1, <1>3, <1>5 DEF Live
<1>7. DOMAIN toF' = {} /\ NoScan.id = 0
  BY <1>2, NoneIs DEF NoScan
<1> QED BY <1>2, <1>6, <1>7 DEF Scanning

LEMMA OneOwedStep ==
  ASSUME Core, OneOwed, Moved
  PROVE  OneOwed'
<1>1. ASSUME NEW t, NEW kind, NEW id, NEW r, Sent(t, kind, id, r)
      PROVE  OneOwed'
  BY <1>1 DEF Sent, Encoded, OneOwed
<1>2. ASSUME ~ \E t, kind, id, r : Sent(t, kind, id, r)
      PROVE  owed' \subseteq owed /\ raced \subseteq raced'
  <2>1. CASE Still
    BY <2>1 DEF Still
  <2>2. ASSUME NEW es, NEW p, Handling(es, p)
        PROVE  owed' \subseteq owed /\ raced \subseteq raced'
    BY <2>2 DEF Handling, Grows
  <2>3. CASE Authenticating \/ Dropping
    BY <2>3 DEF Authenticating, Dropping, Grows
  <2>4. ASSUME NEW h, NEW b, NEW r, Accepting(h, b, r)
        PROVE  owed' \subseteq owed /\ raced \subseteq raced'
    BY <2>4 DEF Accepting
  <2>5. ASSUME NEW rs, Saying(rs)
        PROVE  owed' \subseteq owed /\ raced \subseteq raced'
    BY <2>5 DEF Saying
  <2> QED BY <1>2, <2>1, <2>2, <2>3, <2>4, <2>5, Stills
<1>3. ASSUME owed' \subseteq owed, raced \subseteq raced'
      PROVE  OneOwed'
  BY <1>3 DEF OneOwed
<1> QED BY <1>1, <1>2, <1>3

LEMMA FittingStep ==
  ASSUME Core, Owing, Fitting, Moved
  PROVE  Fitting'
<1> DEFINE Fit(p) == /\ \A r \in Live : p = r.cmd.kind
                     /\ \A k \in ScanKinds : Scanning(k) => p = k
                     /\ \A i \in DOMAIN toF : toF[i].id # 0 => Owner(p) = toF[i].kind
<1> SUFFICES ASSUME "crossed" \notin raced', link' = "auth", pending' # "none"
             PROVE  Fitting'
  BY DEF Fitting
<1>0. ASSUME raced \subseteq raced', link = "auth", pending # "none"
      PROVE  /\ \A r \in Live : pending = r.cmd.kind
             /\ \A k \in ScanKinds : Scanning(k) => pending = k
             /\ \A i \in DOMAIN toF : toF[i].id # 0 => Owner(pending) = toF[i].kind
  BY <1>0 DEF Fitting
<1>1. ASSUME Still
      PROVE  Fitting'
  <2>1. pending' = pending /\ raced \subseteq raced' /\ link = "auth"
    BY <1>1 DEF Still
  <2> QED BY <1>0, <1>1, <2>1 DEF Still, Fitting, Scanning
<1>2. ASSUME NEW t, NEW kind, NEW id, NEW r, Sent(t, kind, id, r)
      PROVE  Fitting'
  <2>1. /\ Live' \subseteq Live \cup {r} /\ (r.cmd.id = 0 => Live' \subseteq Live)
        /\ r.cmd.id = id /\ r.cmd.kind = kind
    BY <1>2, SentLive
  <2>2. /\ board' = board /\ toF' = toF /\ link' = link /\ raced \subseteq raced'
        /\ pending' = IF kind \in {"gps", "caps"} THEN pending ELSE kind
        /\ (kind \in {"gps", "caps"} => id = 0) /\ (id = 0 \/ owed = {})
    BY <1>2 DEF Sent, Encoded
  <2>3. CASE kind \in {"gps", "caps"}
    BY <1>0, <2>1, <2>2, <2>3 DEF Fitting, Scanning
  <2>4. CASE kind \notin {"gps", "caps"}
    <3>1. owed = {} /\ pending' = kind
      <4>1. id # 0
        BY <1>2, <2>4 DEF Sent, Core, TypeInv
      <4> QED BY <2>2, <2>4, <4>1
    <3>2. OwedRecs /\ OwedScans /\ OwedReplies
      BY <2>2 DEF Owing
    <3>3. Live = {} /\ (\A k \in ScanKinds : ~ Scanning(k)) /\ \A i \in DOMAIN toF : toF[i].id = 0
      BY <3>1, <3>2 DEF OwedRecs, OwedScans, OwedReplies
    <3> QED BY <2>1, <2>2, <3>1, <3>3 DEF Fitting, Scanning
  <2> QED BY <2>3, <2>4
<1>3. ASSUME NEW es, NEW p, Handling(es, p)
      PROVE  Fitting'
  <2>1. /\ link = "auth" /\ board' = board /\ UNCHANGED <<mid, buf, toB, session>> /\ raced \subseteq raced'
        /\ \A i \in DOMAIN toF' : \E j \in DOMAIN toF : toF'[i] = toF[j]
    BY <1>3 DEF Handling, Shortened, Grows
  <2>2. Live' \subseteq Live
    BY <2>1, SameRecs, LiveKept
  <2>3. pending' = pending
    BY <1>3 DEF Handling, Fits
  <2> QED BY <1>0, <2>1, <2>2, <2>3 DEF Fitting, Scanning
<1>4. ASSUME Authenticating
      PROVE  Fitting'
  BY <1>4, FreshAuth DEF Fitting
<1>5. ASSUME Dropping
      PROVE  Fitting'
  BY <1>5 DEF Dropping
<1>6. ASSUME NEW h, NEW b, NEW r, Accepting(h, b, r)
      PROVE  Fitting'
  <2>1. /\ Live' \subseteq Live /\ (h.cmd.id # 0 => h \in Live) /\ r.id = h.cmd.id /\ link = "auth"
    BY <1>6, AcceptLive
  <2>2. /\ pending' = pending /\ raced' = raced /\ board'.scan = b.scan /\ Answered(h.cmd, b, r)
        /\ h \in Recs
    BY <1>6 DEF Accepting
  <2>3. h.cmd.id # 0 => pending = h.cmd.kind
    BY <1>0, <2>1, <2>2
  <2>4. CASE r.state = "silence"
    <3>1. /\ h.cmd.kind \in ScanKinds /\ toF' = toF
          /\ (\A o \in ScanKinds : o # h.cmd.kind => board'.scan[o] = board.scan[o])
      BY <1>6, <2>2, <2>4 DEF Answered, ReplyOK, Accepting
    <3>2. h.cmd.id # 0
      BY <1>6, <3>1 DEF Accepting, Core, RecsOK, ScanKinds
    <3> QED BY <1>0, <2>1, <2>2, <2>3, <3>1, <3>2 DEF Fitting, Scanning
  <2>5. CASE r.state # "silence"
    <3>1. /\ board'.scan = board.scan
          /\ r.kind = (IF h.cmd.kind \in {"status", "start", "stop"} THEN "wd"
                       ELSE IF h.cmd.kind = "caps" THEN "none" ELSE h.cmd.kind)
      BY <2>2, <2>5 DEF Answered
    <3>2. r.id # 0 => Owner(pending) = r.kind
      <4>1. h.cmd.kind \in Kinds /\ (h.cmd.id # 0 => h.cmd.kind \notin {"gps", "caps"})
        BY <2>2 DEF Recs, Records, Core, RecsOK
      <4> QED BY <2>1, <2>3, <3>1, <4>1 DEF Owner, Kinds, ScanKinds
    <3>3. \A i \in DOMAIN toF' : toF'[i] = r \/ \E j \in DOMAIN toF : toF'[i] = toF[j]
      <4>1. Extended(toF, toF', << r >>) /\ DOMAIN << r >> = {1} /\ << r >>[1] = r
        BY <1>6, <2>5 DEF Accepting
      <4> QED BY <4>1 DEF Extended
    <3> QED BY <1>0, <2>1, <2>2, <3>1, <3>2, <3>3 DEF Fitting, Scanning
  <2> QED BY <2>4, <2>5
<1>7. ASSUME NEW rs, Saying(rs)
      PROVE  Fitting'
  <2>1. /\ link = "auth" /\ Extended(toF, toF', rs) /\ Live' \subseteq Live /\ pending' = pending
        /\ raced \subseteq raced'
    BY <1>7, SayLive DEF Saying
  <2>2. /\ \A j \in DOMAIN rs : rs[j].id # 0 => \E k \in ScanKinds : Scanning(k) /\ rs[j].kind = k
        /\ \A k \in ScanKinds : Scanning(k)' => Scanning(k)
    BY <1>7, SayingOwed DEF Scanning
  <2>3. \A j \in DOMAIN rs : rs[j].id # 0 => Owner(pending) = rs[j].kind
    BY <1>0, <2>1, <2>2 DEF Owner
  <2>4. \A i \in DOMAIN toF' : toF'[i].id # 0 => Owner(pending) = toF'[i].kind
    BY <1>0, <2>1, <2>3 DEF Extended
  <2> QED BY <1>0, <2>1, <2>2, <2>4 DEF Fitting
<1> QED BY Stills, <1>1, <1>2, <1>3, <1>4, <1>5, <1>6, <1>7

\* A scan that is waited for goes out as it was asked for.
BufMine ==
  "crossed" \notin raced /\ mid["main"] # NoRecord /\ mid["main"].cmd.kind \in ScanKinds
    /\ mid["main"].cmd.id \in owed => buf = mid["main"]

LEMMA BufMineStep ==
  ASSUME Core, BufMine, Moved
  PROVE  BufMine'
<1> SUFFICES ASSUME "crossed" \notin raced'
             PROVE  BufMine'
  BY DEF BufMine
<1>1. ASSUME NEW t, NEW kind, NEW id, NEW r, Sent(t, kind, id, r)
      PROVE  BufMine'
  <2>1. /\ mid'[t] = r /\ (\A o \in Threads : o # t => mid'[o] = mid[o]) /\ (kind # "caps" => buf' = r)
        /\ \A q \in Recs : id # 0 => q.cmd.id # id
    BY <1>1, SentRecs, SentLive DEF Core
  <2>2. CASE t = "main"
    BY <1>1, <2>1, <2>2 DEF Sent, BufMine
  <2>3. CASE t = "worker"
    <3>1. mid'["main"] = mid["main"] /\ raced \subseteq raced'
      BY <1>1, <2>1, <2>3 DEF Threads, Sent, Encoded
    <3>2. CASE id = 0
      <4>1. owed' = owed /\ kind = "caps" /\ buf' = buf
        BY <1>1, <2>3, <3>2 DEF Sent, Encoded, Core, TypeInv
      <4> QED BY <3>1, <4>1 DEF BufMine
    <3>3. CASE id # 0
      <4>1. owed' = {id}
        BY <1>1, <3>3 DEF Sent, Encoded
      <4>2. mid["main"] # NoRecord => mid["main"] \in Recs
        BY DEF Core, TypeInv, Recs, Threads
      <4> QED BY <2>1, <3>1, <3>3, <4>1, <4>2 DEF BufMine
    <3> QED BY <3>2, <3>3
  <2> QED BY <1>1, <2>2, <2>3 DEF Sent, Threads
<1>2. ASSUME NEW t, NEW x, Transmitting(t, x)
      PROVE  BufMine'
  <2>1. t \in Threads /\ mid'[t] = NoRecord /\ \A o \in Threads : o # t => mid'[o] = mid[o]
    BY <1>2, TransmitRecs DEF Core, Transmitting
  <2>2. raced' = raced /\ owed' = owed /\ ((\E o \in Threads : o # t /\ mid[o] # NoRecord) => buf' = buf)
    BY <1>2 DEF Transmitting
  <2> QED BY <2>1, <2>2 DEF BufMine, Threads
<1>3. ASSUME ~ (\E t, kind, id, r : Sent(t, kind, id, r)), ~ (\E t, x : Transmitting(t, x))
      PROVE  mid' = mid /\ buf' = buf /\ raced \subseteq raced' /\ owed' \subseteq owed
  BY <1>3 DEF Moved, Showing, Reading, Handling, Posting, Authenticating, Dropping, Grows,
     Accepting, Saying, Buttoning, Idles, vars
<1>4. ASSUME mid' = mid, buf' = buf, raced \subseteq raced', owed' \subseteq owed
      PROVE  BufMine'
  BY <1>4 DEF BufMine
<1> QED BY <1>1, <1>2, <1>3, <1>4


-----------------------------------------------------------------------------
(* The screens.                                                              *)

GpsInv == "reset_on_gps" \notin raced => GpsOK(ui)

\* Only a key and an event change what the main thread shows.
LEMMA UiMoves ==
  ASSUME Moved
  PROVE  \/ ui' = ui /\ raced \subseteq raced'
         \/ \E t, kind, id, r : Sent(t, kind, id, r) /\ t = "main"
         \/ \E p : Showing(p)
         \/ Reading
<1>1. ASSUME NEW t, NEW kind, NEW id, NEW r, Sent(t, kind, id, r), t # "main"
      PROVE  ui' = ui /\ raced \subseteq raced'
  BY <1>1 DEF Sent, Encoded, Threads
<1>2. ASSUME ~ (\E t, kind, id, r : Sent(t, kind, id, r)), ~ (\E p : Showing(p)), ~ Reading
      PROVE  ui' = ui /\ raced \subseteq raced'
  BY <1>2 DEF Moved, Transmitting, Handling, Posting, Authenticating, Dropping, Grows,
     Accepting, Saying, Buttoning, Idles, vars
<1> QED BY <1>1, <1>2

LEMMA ScreensStep ==
  ASSUME ScreenOK(ui), GpsInv, Moved
  PROVE  ScreenOK(ui') /\ GpsInv'
<1>1. CASE ui' = ui /\ raced \subseteq raced'
  BY <1>1 DEF GpsInv
<1>2. ASSUME NEW k, KeyUi(ui', k), raced \subseteq raced'
      PROVE  ScreenOK(ui') /\ GpsInv'
  BY <1>2 DEF KeyUi, GpsInv
<1>3. ASSUME NEW t, NEW kind, NEW id, NEW r, Sent(t, kind, id, r), t = "main"
      PROVE  ScreenOK(ui') /\ GpsInv'
  BY <1>2, <1>3 DEF Sent, Encoded
<1>4. ASSUME NEW p, Showing(p)
      PROVE  ScreenOK(ui') /\ GpsInv'
  BY <1>2, <1>4 DEF Showing
<1>5. ASSUME Reading
      PROVE  ScreenOK(ui') /\ GpsInv'
  BY <1>5 DEF Reading, Sees, GpsInv
<1> QED BY UiMoves, <1>1, <1>3, <1>4, <1>5


-----------------------------------------------------------------------------
(* The rows: those of a screen, those in the queue and those still to come   *)
(* are of one scan.                                                          *)

EventsOf(k, x) == \A i \in DOMAIN events : events[i].type = "row" /\ events[i].kind = k => events[i].id = x
ComingOf(k, x) ==
  /\ \A i \in DOMAIN toF : toF[i].kind = k => toF[i].id = x
  /\ board.scan[k].id \in {0, x}
  /\ \A r \in Live : r.cmd.kind = k => r.cmd.id = x
OneScan(k, x) ==
  /\ ui.scan[k].rows \subseteq {x} /\ EventsOf(k, x)
  /\ link = "auth" => ComingOf(k, x)

ListInv == ~ But({"crossed", "late_keys"}) => \A k \in ScanKinds : \E x \in Nat : OneScan(k, x)

LEMMA RowsTaken ==
  ASSUME Takes, NEW k, NEW x, EventsOf(k, x)
  PROVE  EventsOf(k, x)'
BY DEF Takes, Shortened, EventsOf

LEMMA RowsGrow ==
  ASSUME NEW es, Grows(es), NEW k, NEW x, EventsOf(k, x),
         \A j \in DOMAIN es : es[j].type = "row" /\ es[j].kind = k => es[j].id = x
  PROVE  EventsOf(k, x)'
BY DEF Grows, EventsOf

LEMMA ListSent ==
  ASSUME Core, Owing, NEW t, NEW kind, NEW id, NEW r, Sent(t, kind, id, r), "crossed" \notin raced',
         "late_keys" \notin raced', NEW k \in ScanKinds, NEW x \in Nat, OneScan(k, x)
  PROVE  \E y \in Nat : OneScan(k, y)'
<1>1. /\ Live' \subseteq Live \cup {r} /\ (r.cmd.id = 0 => Live' \subseteq Live)
      /\ r.cmd.id = id /\ r.cmd.kind = kind
  BY SentLive
<1>2. /\ board' = board /\ toF' = toF /\ link' = link /\ id \in Nat
      /\ events' = events \/ Takes
      /\ t = "main" => KeyUi(ui', kind)
      /\ t # "main" => ui' = ui /\ kind \notin ScanKinds
      /\ id = 0 \/ owed = {}
      /\ kind \in ScanKinds => ~ Queued({"row", "done", "error"}, kind) /\ id = count + 1
  BY DEF Sent, Encoded, Threads, ScanKinds
<1>3. CASE kind = k
  <2>1. id # 0 /\ owed = {} /\ t = "main"
    BY <1>2, <1>3 DEF Core, TypeInv
  <2>2. ui'.scan[k].rows \subseteq {id}
    BY <1>2, <1>3, <2>1 DEF KeyUi
  <2>3. \A i \in DOMAIN events : ~ (events[i].type = "row" /\ events[i].kind = k)
    BY <1>2, <1>3 DEF Queued
  <2>4. EventsOf(k, id)
    BY <2>3 DEF EventsOf
  <2>5. EventsOf(k, id)'
    BY <1>2, <2>4, RowsTaken DEF EventsOf
  <2>6. ASSUME link = "auth"
        PROVE  ComingOf(k, id)'
    <3>1. OwedRecs /\ OwedScans /\ OwedReplies
      BY <2>6 DEF Owing
    <3>2. Live = {} /\ (\A l \in ScanKinds : ~ Scanning(l)) /\ \A i \in DOMAIN toF : toF[i].id = 0
      BY <2>1, <3>1 DEF OwedRecs, OwedScans, OwedReplies
    <3>3. \A i \in DOMAIN toF : toF[i].kind # k
      BY <3>2 DEF Core, BoardOK, ReplyOK
    <3> QED BY <1>1, <1>2, <3>2, <3>3 DEF ComingOf, Scanning
  <2> QED BY <1>2, <2>2, <2>5, <2>6 DEF OneScan
<1>4. CASE kind # k
  <2>1. ui'.scan[k].rows \subseteq {x}
    BY <1>2, <1>4 DEF KeyUi, OneScan
  <2>2. EventsOf(k, x)'
    BY <1>2, RowsTaken DEF EventsOf, OneScan
  <2>3. link = "auth" => ComingOf(k, x)'
    BY <1>1, <1>2, <1>4 DEF ComingOf, OneScan
  <2> QED BY <1>2, <2>1, <2>2, <2>3 DEF OneScan
<1> QED BY <1>3, <1>4

LEMMA ListKept ==
  ASSUME Core, Owing, Moved, ~ \E t, kind, id, r : Sent(t, kind, id, r),
         NEW k \in ScanKinds, NEW x \in Nat, OneScan(k, x)
  PROVE  OneScan(k, x)'
<1>1. ASSUME ui'.scan[k].rows \subseteq ui.scan[k].rows, EventsOf(k, x)', Still
      PROVE  OneScan(k, x)'
  BY <1>1 DEF OneScan, ComingOf, Still
<1>2. CASE Still /\ ui' = ui /\ events' = events
  BY <1>1, <1>2 DEF OneScan, EventsOf
<1>3. ASSUME NEW p, Showing(p), Still
      PROVE  OneScan(k, x)'
  BY <1>1, <1>3 DEF Showing, KeyUi, OneScan, EventsOf
<1>4. ASSUME Reading, Still
      PROVE  OneScan(k, x)'
  <2>1. EventsOf(k, x)'
    BY <1>4, RowsTaken DEF Reading, OneScan
  <2>2. Head(events) = events[1] /\ 1 \in DOMAIN events
    BY <1>4 DEF Reading, Takes, Shortened
  <2>3. Head(events).type = "row" /\ Head(events).kind = k => Head(events).id = x
    BY <2>2 DEF OneScan, EventsOf
  <2>4. ui'.scan[k].rows \subseteq {x}
    BY <1>4, <2>3 DEF Reading, Sees, OneScan
  <2> QED BY <1>4, <2>1, <2>4 DEF OneScan, ComingOf, Still
<1>5. ASSUME NEW es, Posting(es), Still
      PROVE  OneScan(k, x)'
  <2>1. \A j \in DOMAIN es : es[j].type # "row"
    BY <1>5 DEF Posting, Event
  <2>2. EventsOf(k, x)'
    BY <1>5, <2>1, RowsGrow DEF Posting, OneScan
  <2> QED BY <1>1, <1>5, <2>2 DEF Posting
<1>6. ASSUME NEW es, NEW p, Handling(es, p)
      PROVE  OneScan(k, x)'
  <2>1. /\ link = "auth" /\ link' = "auth" /\ Shortened(toF, toF') /\ board' = board /\ ui' = ui
        /\ UNCHANGED <<mid, buf, toB, session>> /\ Grows(es) /\ Fits(es, p, Head(toF))
        /\ Head(toF) = toF[1] /\ 1 \in DOMAIN toF
        /\ \A i \in DOMAIN toF' : i + 1 \in DOMAIN toF /\ toF'[i] = toF[i + 1]
    BY <1>6 DEF Handling, Shortened
  <2>2. Live' \subseteq Live
    BY <2>1, SameRecs, LiveKept
  <2>3. ComingOf(k, x) /\ EventsOf(k, x)
    BY <2>1 DEF OneScan
  <2>4. \A j \in DOMAIN es : es[j].type = "row" /\ es[j].kind = k => es[j].id = x
    BY <2>1, <2>3 DEF Fits, ComingOf
  <2>5. EventsOf(k, x)'
    BY <2>1, <2>3, <2>4, RowsGrow
  <2>6. ComingOf(k, x)'
    BY <2>1, <2>2, <2>3 DEF ComingOf
  <2> QED BY <2>1, <2>5, <2>6 DEF OneScan
<1>7. ASSUME Authenticating
      PROVE  OneScan(k, x)'
  <2>1. ui' = ui /\ Grows(<< Event("active") >>)
    BY <1>7 DEF Authenticating
  <2>2. \A j \in DOMAIN << Event("active") >> : << Event("active") >>[j].type # "row"
    BY DEF Event
  <2>3. EventsOf(k, x)'
    BY <2>1, <2>2, RowsGrow DEF OneScan
  <2>4. ComingOf(k, x)'
    BY <1>7, FreshAuth DEF ComingOf, Scanning
  <2> QED BY <2>1, <2>3, <2>4 DEF OneScan
<1>8. ASSUME Dropping
      PROVE  OneScan(k, x)'
  <2>1. ui' = ui /\ Grows(<< Event("advertising") >>) /\ link' = "down"
    BY <1>8 DEF Dropping
  <2>2. \A j \in DOMAIN << Event("advertising") >> : << Event("advertising") >>[j].type # "row"
    BY DEF Event
  <2>3. EventsOf(k, x)'
    BY <2>1, <2>2, RowsGrow DEF OneScan
  <2> QED BY <2>1, <2>3 DEF OneScan
<1>9. ASSUME NEW h, NEW b, NEW r, Accepting(h, b, r)
      PROVE  OneScan(k, x)'
  <2>1. Live' \subseteq Live /\ (h.cmd.id # 0 => h \in Live) /\ r.id = h.cmd.id /\ link = "auth"
    BY <1>9, AcceptLive
  <2>2. /\ ui' = ui /\ events' = events /\ link' = link /\ board'.scan = b.scan
        /\ Answered(h.cmd, b, r) /\ h \in Recs /\ ComingOf(k, x)
    BY <1>9, <2>1 DEF Accepting, OneScan
  <2>3. h.cmd.kind = k => h.cmd.id = x
    <3>1. h.cmd.kind = k => h.cmd.id # 0
      BY <2>2 DEF Core, RecsOK, ScanKinds
    <3> QED BY <2>1, <2>2, <3>1 DEF ComingOf
  <2>4. CASE r.state = "silence"
    <3>1. /\ h.cmd.kind \in ScanKinds /\ toF' = toF /\ board'.scan[h.cmd.kind].id = h.cmd.id
          /\ (\A o \in ScanKinds : o # h.cmd.kind => board'.scan[o] = board.scan[o])
      BY <1>9, <2>2, <2>4 DEF Answered, ReplyOK, Accepting
    <3>2. ComingOf(k, x)'
      BY <2>1, <2>2, <2>3, <3>1 DEF ComingOf
    <3> QED BY <2>2, <3>2 DEF OneScan, EventsOf
  <2>5. CASE r.state # "silence"
    <3>1. board'.scan = board.scan /\ (r.kind = k => h.cmd.kind = k)
      BY <2>2, <2>5 DEF Answered, ScanKinds
    <3>2. \A i \in DOMAIN toF' : toF'[i] = r \/ \E j \in DOMAIN toF : toF'[i] = toF[j]
      <4>1. Extended(toF, toF', << r >>) /\ DOMAIN << r >> = {1} /\ << r >>[1] = r
        BY <1>9, <2>5 DEF Accepting
      <4> QED BY <4>1 DEF Extended
    <3>3. ComingOf(k, x)'
      BY <2>1, <2>2, <2>3, <3>1, <3>2 DEF ComingOf
    <3> QED BY <2>2, <3>3 DEF OneScan, EventsOf
  <2> QED BY <2>4, <2>5
<1>10. ASSUME NEW rs, Saying(rs)
       PROVE  OneScan(k, x)'
  <2>1. /\ link = "auth" /\ Extended(toF, toF', rs) /\ Live' \subseteq Live /\ ui' = ui /\ events' = events
        /\ link' = link
    BY <1>10, SayLive DEF Saying
  <2>2. /\ \A j \in DOMAIN rs : rs[j].id # 0 => \E l \in ScanKinds : /\ Scanning(l) /\ rs[j].kind = l
                                                                    /\ rs[j].id = board.scan[l].id
        /\ board'.scan[k].id \in {0, board.scan[k].id}
    BY <1>10, SayingOwed DEF Scanning
  <2>3. ComingOf(k, x)
    BY <2>1 DEF OneScan
  <2>4. ASSUME NEW i \in DOMAIN toF', toF'[i].kind = k
        PROVE  toF'[i].id = x
    <3>1. CASE i \in DOMAIN toF
      BY <2>1, <2>3, <2>4, <3>1 DEF Extended, ComingOf
    <3>2. CASE i \notin DOMAIN toF
      <4>1. PICK j \in DOMAIN rs : i = Len(toF) + j /\ toF'[i] = rs[j]
        BY <2>1, <2>4, <3>2 DEF Extended
      <4>2. Core'
        BY CoreStep
      <4>3. ReplyOK(toF'[i])
        BY <2>4, <4>2 DEF Core, BoardOK
      <4>4. rs[j].id # 0 /\ rs[j].kind = k
        BY <2>4, <4>1, <4>3 DEF ReplyOK
      <4>5. Scanning(k) /\ rs[j].id = board.scan[k].id
        BY <2>2, <4>4
      <4> QED BY <2>3, <4>1, <4>5 DEF ComingOf, Scanning
    <3> QED BY <3>1, <3>2
  <2>5. ComingOf(k, x)'
    BY <2>1, <2>2, <2>3, <2>4 DEF ComingOf
  <2> QED BY <2>1, <2>5 DEF OneScan, EventsOf
<1>11. ASSUME NEW t, NEW y, Transmitting(t, y)
       PROVE  ui' = ui /\ events' = events
  BY <1>11 DEF Transmitting
<1>12. ASSUME Buttoning \/ Idles \/ UNCHANGED vars
       PROVE  ui' = ui /\ events' = events
  BY <1>12 DEF Buttoning, Idles, vars
<1>13. CASE Still
  <2>1. CASE ui' = ui /\ events' = events
    BY <1>2, <1>13, <2>1
  <2> QED BY <1>3, <1>4, <1>5, <1>6, <1>7, <1>8, <1>9, <1>10, <1>11, <1>12, <1>13, <2>1 DEF Moved
<1> QED BY Stills, <1>6, <1>7, <1>8, <1>9, <1>10, <1>13

LEMMA RacedGrows ==
  ASSUME Moved
  PROVE  raced \subseteq raced'
<1>1. ASSUME NEW t, NEW kind, NEW id, NEW r, Sent(t, kind, id, r)
      PROVE  raced \subseteq raced'
  BY <1>1 DEF Sent, Encoded
<1>2. ASSUME NEW p, Showing(p)
      PROVE  raced \subseteq raced'
  BY <1>2 DEF Showing
<1>3. CASE Reading
  BY <1>3 DEF Reading
<1> QED BY UiMoves, <1>1, <1>2, <1>3

LEMMA ListStep ==
  ASSUME Core, Owing, ListInv, Moved
  PROVE  ListInv'
<1> SUFFICES ASSUME "crossed" \notin raced', "late_keys" \notin raced', NEW k \in ScanKinds
             PROVE  \E x \in Nat : OneScan(k, x)'
  BY DEF ListInv, But
<1>1. raced \subseteq raced'
  BY RacedGrows
<1>2. PICK x \in Nat : OneScan(k, x)
  BY <1>1 DEF ListInv, But
<1>3. CASE \E t, kind, id, r : Sent(t, kind, id, r)
  BY <1>2, <1>3, ListSent
<1>4. CASE ~ \E t, kind, id, r : Sent(t, kind, id, r)
  BY <1>2, <1>4, ListKept
<1> QED BY <1>3, <1>4

LEMMA ListHolds ==
  ASSUME ListInv
  PROVE  ListIsOneScan
<1> SUFFICES ASSUME NEW k \in ScanKinds, ~ But({"crossed", "late_keys"})
             PROVE  Cardinality(ui.scan[k].rows) <= 1
  BY DEF ListIsOneScan
<1>1. PICK x \in Nat : ui.scan[k].rows \subseteq {x}
  BY DEF ListInv, OneScan
<1>2. ui.scan[k].rows = {} \/ ui.scan[k].rows = {x}
  BY <1>1
<1>3. Cardinality(ui.scan[k].rows) \in {0, 1}
  <2>1. CASE ui.scan[k].rows = {}
    BY <2>1, FS_EmptySet
  <2>2. CASE ui.scan[k].rows = {x}
    BY <2>2, FS_Singleton
  <2> QED BY <1>2, <2>1, <2>2
<1> QED BY <1>3


-----------------------------------------------------------------------------
(* A scan that the screen shows as running is waited for.                    *)

\* The end of the scan x of kind k is still to come.
Await(k, x) ==
  \/ mid["main"] # NoRecord /\ mid["main"].cmd.kind = k /\ mid["main"].cmd.id = x
  \/ \E i \in DOMAIN toB : toB[i].cmd.kind = k /\ toB[i].cmd.id = x
  \/ board.scan[k].id = x
  \/ \E i \in DOMAIN toF : Ends(toF[i], k) /\ toF[i].id = x

Told(k) == Waits(Resets) \/ Queued(Ends_, k)
Asked(k) == link = "auth" /\ pending = k /\ \E x \in owed : Await(k, x)
AwaitInv ==
  ~ But({"overflow", "crossed", "unsolicited"}) =>
    \A k \in ScanKinds : ui.scan[k].progress => Told(k) \/ Asked(k)

LEMMA ToldGrows ==
  ASSUME NEW es, Grows(es), "overflow" \notin raced', NEW k
  PROVE  /\ Told(k) => Told(k)'
         /\ Over(es, k) => Told(k)'
         /\ (\E j \in DOMAIN es : es[j].type \in Resets) => Told(k)'
<1>1. /\ \A i \in DOMAIN events : i \in DOMAIN events' /\ events'[i] = events[i]
      /\ \A j \in DOMAIN es : Len(events) + j \in DOMAIN events' /\ events'[Len(events) + j] = es[j]
  BY DEF Grows, Extended
<1> QED BY <1>1 DEF Told, Waits, Queued, Over

LEMMA ToldTaken ==
  ASSUME Takes, NEW k, Told(k), Head(events).type \notin Resets,
         ~ (Head(events).type \in Ends_ /\ Head(events).kind = k)
  PROVE  Told(k)'
<1>1. /\ Head(events) = events[1]
      /\ \A i \in DOMAIN events : i = 1 \/ \E j \in DOMAIN events' : i = j + 1 /\ events'[j] = events[i]
  BY DEF Takes, Shortened
<1> QED BY <1>1 DEF Told, Waits, Queued

LEMMA OwedIs ==
  ASSUME Core, NEW x \in owed
  PROVE  x \in Nat /\ x # 0
BY DEF Core, TypeInv

LEMMA AwaitSent ==
  ASSUME Core, ResetInv, NEW t, NEW kind, NEW id, NEW r, Sent(t, kind, id, r),
         "crossed" \notin raced', "overflow" \notin raced', NEW k \in ScanKinds, ui'.scan[k].progress,
         ui.scan[k].progress => Told(k) \/ Asked(k)
  PROVE  Told(k)' \/ Asked(k)'
<1>1. /\ id \in Nat /\ link' = link /\ toB' = toB /\ board' = board /\ toF' = toF
      /\ events' = events \/ (Takes /\ Head(events).type = "tick")
      /\ (t = "main" => ui.active /\ KeyUi(ui', kind)) /\ (t # "main" => ui' = ui /\ kind \notin ScanKinds)
      /\ IF kind \in {"gps", "caps"} THEN id = 0 ELSE id = count + 1
      /\ mid[t] = NoRecord /\ mid' = [mid EXCEPT ![t] = r] /\ r \in Records /\ r.cmd.kind = kind /\ r.cmd.id = id
      /\ pending' = (IF kind \in {"gps", "caps"} THEN pending ELSE kind)
      /\ owed' = (IF id = 0 THEN owed ELSE owed \cup {id}) /\ (id = 0 \/ owed = {})
      /\ "overflow" \notin raced
  BY DEF Sent, Encoded, Threads, ScanKinds
<1>2. Told(k) => Told(k)'
  <2>1. "tick" \notin Resets \cup Ends_
    BY DEF Resets, Ends_
  <2>2. CASE events' = events
    BY <2>2 DEF Told, Waits, Queued
  <2> QED BY <1>1, <2>1, <2>2, ToldTaken
<1>3. CASE kind = k
  <2>0. id # 0
    <3>1. kind \notin {"gps", "caps"}
      BY <1>3 DEF ScanKinds
    <3>2. id = count + 1 /\ count \in Nat
      BY <1>1, <3>1 DEF Core, TypeInv
    <3> QED BY <3>2
  <2>1. id # 0 /\ t = "main" /\ owed' = {id} /\ pending' = k
    BY <1>1, <1>3, <2>0 DEF ScanKinds
  <2>2. mid'["main"] = r
    BY <1>1, <2>1 DEF Core, TypeInv, Threads
  <2>3. Await(k, id)'
    BY <1>1, <1>3, <2>2, RecordIs DEF Await
  <2>4. CASE link = "auth"
    BY <1>1, <2>1, <2>3, <2>4 DEF Asked
  <2>5. CASE link # "auth"
    <3>1. ResetLast
      BY <1>1, <2>1, <2>5 DEF ResetInv, Clear
    <3>2. Told(k)
      BY <3>1 DEF ResetLast, Told, Waits
    <3> QED BY <1>2, <3>2
  <2> QED BY <2>4, <2>5
<1>4. CASE kind # k
  <2>1. ui.scan[k].progress
    BY <1>1, <1>4 DEF KeyUi
  <2>2. CASE id # 0
    BY <1>1, <1>2, <2>1, <2>2 DEF Asked
  <2>3. CASE id = 0 /\ Asked(k)
    <3>1. PICK x \in owed : Await(k, x)
      BY <2>3 DEF Asked
    <3>2. mid["main"] # NoRecord => mid'["main"] = mid["main"]
      BY <1>1 DEF Core, TypeInv, Threads
    <3>3. Await(k, x)'
      BY <1>1, <3>1, <3>2 DEF Await
    <3>4. pending' = pending /\ owed' = owed
      BY <1>1, <2>3 DEF Core, TypeInv
    <3> QED BY <1>1, <2>3, <3>1, <3>3, <3>4 DEF Asked
  <2> QED BY <1>2, <2>1, <2>2, <2>3
<1> QED BY <1>3, <1>4

LEMMA AwaitTransmitting ==
  ASSUME Core, BufMine, NEW t, NEW y, Transmitting(t, y), "crossed" \notin raced', NEW k \in ScanKinds,
         Told(k) \/ Asked(k)
  PROVE  Told(k)' \/ Asked(k)'
<1>1. /\ t \in Threads /\ mid'[t] = NoRecord /\ (\A o \in Threads : o # t => mid'[o] = mid[o])
      /\ raced' = raced /\ owed' = owed /\ pending' = pending /\ link' = link /\ events' = events
      /\ board' = board /\ toF' = toF
  BY TransmitRecs DEF Core, Transmitting
<1>2. CASE Told(k)
  BY <1>1, <1>2 DEF Told, Waits, Queued
<1>3. CASE Asked(k)
  <2>1. PICK x \in owed : Await(k, x)
    BY <1>3 DEF Asked
  <2>2. Extended(toB, toB', << y >>) /\ DOMAIN << y >> = {1} /\ << y >>[1] = y
    BY <1>3 DEF Asked, Transmitting
  <2>3. /\ \A i \in DOMAIN toB : i \in DOMAIN toB' /\ toB'[i] = toB[i]
        /\ \E i \in DOMAIN toB' : toB'[i] = y
    BY <2>2 DEF Extended
  <2>4. ASSUME mid["main"] # NoRecord, mid["main"].cmd.kind = k, mid["main"].cmd.id = x
        PROVE  Await(k, x)'
    <3>1. CASE t = "main"
      <4>1. k # "caps"
        BY DEF ScanKinds
      <4>2. buf = mid["main"]
        BY <1>1, <2>1, <2>4 DEF BufMine
      <4>3. y = mid["main"]
        BY <2>4, <3>1, <4>1, <4>2 DEF Transmitting
      <4> QED BY <2>3, <2>4, <4>3 DEF Await
    <3>2. CASE t # "main"
      <4>1. mid'["main"] = mid["main"]
        BY <1>1, <3>2 DEF Threads
      <4> QED BY <2>4, <4>1 DEF Await
    <3> QED BY <3>1, <3>2
  <2>5. Await(k, x)'
    BY <1>1, <2>1, <2>3, <2>4 DEF Await
  <2> QED BY <1>1, <1>3, <2>1, <2>5 DEF Asked
<1> QED BY <1>2, <1>3

LEMMA AwaitHandling ==
  ASSUME Core, Fitting, NEW es, NEW p, Handling(es, p), ~ But({"overflow", "crossed", "unsolicited"})',
         NEW k \in ScanKinds, Told(k) \/ Asked(k)
  PROVE  Told(k)' \/ Asked(k)'
<1>1. /\ link = "auth" /\ link' = link /\ board' = board /\ mid' = mid /\ toB' = toB
      /\ Fits(es, p, toF[1]) /\ Grows(es) /\ pending' = p /\ 1 \in DOMAIN toF
      /\ \A i \in DOMAIN toF : i = 1 \/ \E j \in DOMAIN toF' : toF'[j] = toF[i]
      /\ owed' = (IF toF[1].last THEN owed \ {toF[1].id} ELSE owed)
      /\ toF[1].id = 0 /\ toF[1].state \in {"stopped", "internal_error"} /\ owed # {}
           => "unsolicited" \in raced'
  BY DEF Handling, Shortened
<1>2. "overflow" \notin raced' /\ "crossed" \notin raced /\ "unsolicited" \notin raced'
  BY <1>1 DEF But, Grows
<1>3. (Told(k) => Told(k)') /\ (Over(es, k) => Told(k)')
  BY <1>1, <1>2, ToldGrows
<1>4. ASSUME Asked(k), ~ Over(es, k)
      PROVE  Asked(k)'
  <2>1. PICK x \in owed : Await(k, x)
    BY <1>4 DEF Asked
  <2>2. pending = k /\ k # "none" /\ k # "wd" /\ Owner(pending) = k
    BY <1>4 DEF Asked, ScanKinds, Owner
  <2>3. toF[1].id # 0 => toF[1].kind = k
    BY <1>1, <1>2, <2>2 DEF Fitting
  <2>4. ReplyOK(toF[1])
    BY <1>1 DEF Core, BoardOK
  <2>5. toF[1].state \notin {"started", "stopped", "not_running"}
    <3>1. ASSUME toF[1].state \in {"started", "stopped", "not_running"}
          PROVE  toF[1].kind = "wd"
      BY <2>4, <3>1 DEF ReplyOK
    <3>2. ASSUME toF[1].state \in {"started", "stopped", "not_running"}
          PROVE  FALSE
      <4>1. toF[1].id = 0
        BY <2>2, <2>3, <3>1, <3>2
      <4>2. toF[1].state = "stopped"
        BY <2>4, <3>1, <3>2, <4>1 DEF ReplyOK
      <4> QED BY <1>1, <1>2, <2>1, <4>1, <4>2
    <3> QED BY <3>2
  <2>6. p = k
    BY <1>1, <1>4, <2>2, <2>5 DEF Fits
  <2>7. ~ (toF[1].last /\ toF[1].id = x)
    <3>1. ASSUME toF[1].last, toF[1].id = x
          PROVE  FALSE
      <4>1. toF[1].kind = k
        BY <2>1, <2>3, <3>1, OwedIs
      <4>2. toF[1].state \in {"complete", "busy", "internal_error"}
        BY <2>4, <3>1, <4>1 DEF ReplyOK
      <4> QED BY <1>1, <1>4, <2>2, <4>1, <4>2 DEF Fits
    <3> QED BY <3>1
  <2>8. x \in owed'
    BY <1>1, <2>1, <2>7
  <2>9. Await(k, x)'
    <3>1. ASSUME NEW i \in DOMAIN toF, Ends(toF[i], k), toF[i].id = x
          PROVE  \E j \in DOMAIN toF' : Ends(toF'[j], k) /\ toF'[j].id = x
      BY <1>1, <2>7, <3>1 DEF Ends
    <3> QED BY <1>1, <2>1, <3>1 DEF Await
  <2> QED BY <1>1, <2>6, <2>8, <2>9 DEF Asked
<1> QED BY <1>3, <1>4

LEMMA AwaitAccepting ==
  ASSUME Core, NEW h, NEW b, NEW r, Accepting(h, b, r), NEW k \in ScanKinds, NEW x, x # 0, Await(k, x)
  PROVE  Await(k, x)'
<1>1. /\ h = toB[1] /\ h \in Recs /\ mid' = mid /\ board'.scan = b.scan /\ Answered(h.cmd, b, r)
      /\ \A i \in DOMAIN toB : i = 1 \/ \E j \in DOMAIN toB' : toB'[j] = toB[i]
      /\ IF r.state = "silence" THEN toF' = toF ELSE Extended(toF, toF', << r >>)
  BY DEF Accepting, Shortened
<1>2. CASE r.state = "silence"
  <2>1. /\ h.cmd.kind \in ScanKinds /\ toF' = toF /\ board'.scan[h.cmd.kind].id = h.cmd.id
        /\ ~ Scanning(h.cmd.kind)
        /\ (\A o \in ScanKinds : o # h.cmd.kind => board'.scan[o] = board.scan[o])
    BY <1>1, <1>2 DEF Answered, ReplyOK
  <2> QED BY <1>1, <2>1 DEF Await, Scanning
<1>3. CASE r.state # "silence"
  <2>1. /\ board'.scan = board.scan /\ r.last /\ r.id = h.cmd.id
        /\ (h.cmd.kind = k => r.kind = k)
    BY <1>1, <1>3 DEF Answered, ScanKinds
  <2>2. /\ \A i \in DOMAIN toF : i \in DOMAIN toF' /\ toF'[i] = toF[i]
        /\ \E i \in DOMAIN toF' : toF'[i] = r
    <3>1. Extended(toF, toF', << r >>) /\ DOMAIN << r >> = {1} /\ << r >>[1] = r
      BY <1>1, <1>3
    <3> QED BY <3>1 DEF Extended
  <2> QED BY <1>1, <2>1, <2>2 DEF Await, Ends
<1> QED BY <1>2, <1>3

LEMMA AwaitSaying ==
  ASSUME Core, NEW rs, Saying(rs), NEW k \in ScanKinds, NEW x, x # 0, Await(k, x)
  PROVE  Await(k, x)'
<1>1. /\ mid' = mid /\ toB' = toB
      /\ \A i \in DOMAIN toF : i \in DOMAIN toF' /\ toF'[i] = toF[i]
      /\ \A j \in DOMAIN rs : \E i \in DOMAIN toF' : toF'[i] = rs[j]
  BY DEF Saying, Extended
<1>2. CASE board'.scan = board.scan
  BY <1>1, <1>2 DEF Await
<1>3. ASSUME NEW l \in ScanKinds, NEW r \in Replies, rs = << r >>, Results(l, r)
      PROVE  Await(k, x)'
  <2>1. \E i \in DOMAIN toF' : toF'[i] = r
    <3>1. DOMAIN rs = {1} /\ rs[1] = r
      BY <1>3
    <3> QED BY <1>1, <3>1
  <2>2. CASE l = k
    <3>1. CASE r.last
      BY <1>1, <1>3, <2>1, <2>2, <3>1 DEF Await, Results, Ends
    <3>2. CASE ~ r.last
      BY <1>1, <1>3, <2>1, <2>2, <3>2 DEF Await, Results
    <3> QED BY <3>1, <3>2
  <2>3. CASE l # k
    BY <1>1, <1>3, <2>3 DEF Await, Results
  <2> QED BY <2>2, <2>3
<1>4. CASE \E r \in Replies : rs = << r >> /\ Captures(r)
  BY <1>2, <1>4 DEF Captures
<1>5. CASE \E r \in Replies, s \in Replies : rs = << r, s >> /\ Stops(r, s)
  BY <1>2, <1>5 DEF Stops
<1> QED BY <1>3, <1>4, <1>5 DEF Saying

LEMMA AwaitStep ==
  ASSUME Core, ResetInv, BufMine, Fitting, AwaitInv, Moved
  PROVE  AwaitInv'
<1> SUFFICES ASSUME ~ But({"overflow", "crossed", "unsolicited"})', NEW k \in ScanKinds, ui'.scan[k].progress
             PROVE  Told(k)' \/ Asked(k)'
  BY DEF AwaitInv
<1>1. /\ ui.scan[k].progress => Told(k) \/ Asked(k)
      /\ "overflow" \notin raced' /\ "crossed" \notin raced'
  BY RacedGrows DEF AwaitInv, But
<1>2. ASSUME NEW t, NEW kind, NEW id, NEW r, Sent(t, kind, id, r)
      PROVE  Told(k)' \/ Asked(k)'
  BY <1>1, <1>2, AwaitSent
<1>3. ASSUME UNCHANGED <<events, link, pending, owed, mid, toB, toF>>, board'.scan = board.scan,
             Told(k) \/ Asked(k)
      PROVE  Told(k)' \/ Asked(k)'
  <2>1. Told(k)' = Told(k)
    BY <1>3 DEF Told, Waits, Queued
  <2>2. Asked(k) => Asked(k)'
    BY <1>3 DEF Asked, Await
  <2> QED BY <1>3, <2>1, <2>2
<1>4. ASSUME NEW p, Showing(p)
      PROVE  Told(k)' \/ Asked(k)'
  <2>1. ui.scan[k].progress /\ pending' = pending
    BY <1>4 DEF Showing, KeyUi, ScanKinds
  <2> QED BY <1>1, <1>3, <1>4, <2>1 DEF Showing
<1>5. ASSUME Reading
      PROVE  Told(k)' \/ Asked(k)'
  <2>1. /\ ui.scan[k].progress /\ Head(events).type \notin Resets /\ Takes
        /\ ~ (Head(events).type \in Ends_ /\ Head(events).kind = k)
    BY <1>5 DEF Reading, Sees
  <2>2. Told(k) => Told(k)'
    BY <2>1, ToldTaken
  <2>3. Asked(k) => Asked(k)'
    BY <1>5, <2>1 DEF Reading, Asked, Await
  <2> QED BY <1>1, <2>1, <2>2, <2>3
<1>6. ASSUME ui' = ui
      PROVE  Told(k) \/ Asked(k)
  BY <1>1, <1>6
<1>7. ASSUME NEW es, Posting(es)
      PROVE  Told(k)' \/ Asked(k)'
  <2>1. Grows(es) /\ ui' = ui /\ (link = "auth" => link' = "auth")
        /\ UNCHANGED <<pending, owed, mid, toB, toF, board>>
    BY <1>7 DEF Posting
  <2>2. Asked(k) => Asked(k)'
    BY <2>1 DEF Asked, Await
  <2>3. Told(k) => Told(k)'
    BY <1>1, <2>1, ToldGrows
  <2> QED BY <1>6, <2>1, <2>2, <2>3
<1>8. ASSUME Authenticating
      PROVE  Told(k)' \/ Asked(k)'
  <2>1. Grows(<< Event("active") >>) /\ ui' = ui /\ ~ Asked(k)
    BY <1>8 DEF Authenticating, Asked
  <2>2. Told(k) => Told(k)'
    BY <1>1, <2>1, ToldGrows
  <2> QED BY <1>6, <2>1, <2>2
<1>9. ASSUME Dropping
      PROVE  Told(k)' \/ Asked(k)'
  <2>1. PICK es : es = << Event("advertising") >>
    OBVIOUS
  <2>2. Grows(es) /\ 1 \in DOMAIN es /\ es[1].type \in Resets
    BY <1>9, <2>1 DEF Dropping, Event, Resets
  <2> QED BY <1>1, <2>2, ToldGrows
<1>10. ASSUME NEW es, NEW p, Handling(es, p)
       PROVE  Told(k)' \/ Asked(k)'
  <2>1. ui' = ui
    BY <1>10 DEF Handling
  <2> QED BY <1>6, <1>10, <2>1, AwaitHandling
<1>11. ASSUME NEW h, NEW b, NEW r, Accepting(h, b, r)
       PROVE  Told(k)' \/ Asked(k)'
  <2>1. UNCHANGED <<ui, events, pending, link, owed>>
    BY <1>11 DEF Accepting
  <2>2. ASSUME NEW x \in owed, Await(k, x)
        PROVE  Await(k, x)'
    BY <1>11, <2>2, OwedIs, AwaitAccepting
  <2> QED BY <1>6, <2>1, <2>2 DEF Told, Waits, Queued, Asked
<1>12. ASSUME NEW rs, Saying(rs)
       PROVE  Told(k)' \/ Asked(k)'
  <2>1. UNCHANGED <<ui, events, pending, link, owed>>
    BY <1>12 DEF Saying
  <2>2. ASSUME NEW x \in owed, Await(k, x)
        PROVE  Await(k, x)'
    BY <1>12, <2>2, OwedIs, AwaitSaying
  <2> QED BY <1>6, <2>1, <2>2 DEF Told, Waits, Queued, Asked
<1>13. ASSUME NEW t, NEW y, Transmitting(t, y)
       PROVE  Told(k)' \/ Asked(k)'
  <2>1. ui' = ui
    BY <1>13 DEF Transmitting
  <2> QED BY <1>1, <1>6, <1>13, <2>1, AwaitTransmitting
<1>14. ASSUME Buttoning \/ Idles \/ UNCHANGED vars
       PROVE  Told(k)' \/ Asked(k)'
  <2>1. UNCHANGED <<ui, events, link, pending, owed, mid, toB, toF>> /\ board'.scan = board.scan
    BY <1>14 DEF Buttoning, Idles, vars
  <2> QED BY <1>3, <1>6, <2>1
<1> QED BY <1>2, <1>4, <1>5, <1>7, <1>8, <1>9, <1>10, <1>11, <1>12, <1>13, <1>14 DEF Moved

LEMMA AwaitHolds ==
  ASSUME Core, AwaitInv
  PROVE  ScanIsAwaited
<1> SUFFICES ASSUME NEW k \in ScanKinds, ui.scan[k].progress,
                    ~ But({"overflow", "crossed", "unsolicited"})
             PROVE  \/ Waits({"connected", "advertising"})
                    \/ Queued({"done", "error"}, k)
                    \/ /\ pending = k
                       /\ \/ mid.main # NoRecord /\ mid.main.cmd.kind = k
                          \/ \E i \in DOMAIN toB : toB[i].cmd.kind = k
                          \/ board.scan[k] # NoScan
                          \/ \E i \in DOMAIN toF : Ends(toF[i], k)
  BY DEF ScanIsAwaited
<1>1. CASE Told(k)
  BY <1>1 DEF Told, Resets, Ends_
<1>2. CASE Asked(k)
  <2>1. PICK x \in owed : Await(k, x)
    BY <1>2 DEF Asked
  <2>2. board.scan[k].id = x => board.scan[k] # NoScan
    BY <2>1, OwedIs DEF NoScan
  <2> QED BY <1>2, <2>1, <2>2 DEF Asked, Await
<1> QED BY <1>1, <1>2 DEF AwaitInv


-----------------------------------------------------------------------------
(* The run state: what the queue last says of the engine, and then each word *)
(* of the board on its way, up to what the engine does.                      *)

\* After the events under way the screens show v, if they show anything.
EvSays(v) ==
  /\ \A i \in DOMAIN events :
       events[i].type = "run" /\ (\A j \in DOMAIN events : j > i => events[j].type # "run")
         => events[i].running = v
  /\ (\A i \in DOMAIN events : events[i].type # "run") => (ui.known => ui.running = v)

\* An error that the word behind it puts right.
Corrected(s, i) == s[i].state = "internal_error" /\ i + 1 \in DOMAIN s /\ s[i + 1].state = "stopped"

\* w is the engine's state before, between and after the replies s, v the last of it.
Spells(s, w, v) ==
  /\ w \in [0 .. Len(s) -> BOOLEAN] /\ w[Len(s)] = v
  /\ \A i \in DOMAIN s : /\ s[i].kind = "wd" => (w[i] <=> Tells(s[i]))
                         /\ s[i].kind # "wd" => w[i] = w[i - 1]
                         /\ IsError(s[i]) => w[i - 1] = w[i] \/ Corrected(s, i)

Words ==
  link = "auth" /\ ~ But({"drain_stopped", "button", "overflow", "crossed"}) =>
    \E w : /\ Spells(toF, w, board.engine)
           /\ EvSays(w[0]) \/ (1 \in DOMAIN toF /\ toF[1].state = "stopped")

LEMMA SaysGrows ==
  ASSUME NEW es, Extended(events, events', es), ui' = ui, \A j \in DOMAIN es : es[j].type # "run",
         NEW v, EvSays(v)
  PROVE  EvSays(v)'
<1>1. /\ \A i \in DOMAIN events : i \in DOMAIN events' /\ events'[i] = events[i]
      /\ \A i \in DOMAIN events' : events'[i].type = "run" => i \in DOMAIN events
  BY DEF Extended
<1> QED BY <1>1 DEF EvSays

LEMMA SaysRun ==
  ASSUME NEW es, NEW v, es = << RunState(v) >>, Extended(events, events', es)
  PROVE  EvSays(v)'
<1>1. DOMAIN es = {1} /\ es[1].type = "run" /\ es[1].running = v /\ Len(es) = 1
  BY DEF RunState
<1>2. /\ Len(events) + 1 \in DOMAIN events' /\ events'[Len(events) + 1] = es[1]
      /\ \A i \in DOMAIN events' : i = Len(events) + 1 \/ Len(events) + 1 > i
  BY <1>1 DEF Extended
<1> QED BY <1>1, <1>2 DEF EvSays

LEMMA SaysTaken ==
  ASSUME Takes, NEW v, EvSays(v),
         \/ Sees(Head(events), ui')
         \/ Head(events).type = "tick" /\ (ui'.known => ui.known /\ ui'.running = ui.running)
  PROVE  EvSays(v)'
<1>1. /\ Len(events) \in Nat /\ DOMAIN events = 1 .. Len(events) /\ DOMAIN events' = 1 .. Len(events) - 1
      /\ Head(events) = events[1] /\ 1 \in DOMAIN events
      /\ \A i \in DOMAIN events' : i + 1 \in DOMAIN events /\ events'[i] = events[i + 1]
      /\ \A i \in DOMAIN events : i = 1 \/ \E j \in DOMAIN events' : i = j + 1 /\ events'[j] = events[i]
  BY DEF Takes, Shortened
<1>2. ASSUME NEW i \in DOMAIN events', events'[i].type = "run",
             \A j \in DOMAIN events' : j > i => events'[j].type # "run"
      PROVE  events'[i].running = v
  <2>1. i + 1 \in DOMAIN events /\ events'[i] = events[i + 1] /\ i \in Nat
    BY <1>1
  <2>2. ASSUME NEW j \in DOMAIN events, j > i + 1
        PROVE  events[j].type # "run"
    <3>1. j # 1 /\ \A m \in DOMAIN events' : j = m + 1 => m > i
      BY <1>1, <2>1, <2>2
    <3> QED BY <1>1, <1>2, <3>1
  <2> QED BY <1>2, <2>1, <2>2 DEF EvSays
<1>3. ASSUME \A i \in DOMAIN events' : events'[i].type # "run", ui'.known
      PROVE  ui'.running = v
  <2>1. \A i \in DOMAIN events : i = 1 \/ events[i].type # "run"
    BY <1>1, <1>3
  <2>2. CASE events[1].type = "run"
    <3>1. \A j \in DOMAIN events : j > 1 => events[j].type # "run"
      BY <1>1, <2>1
    <3>2. events[1].running = v
      BY <1>1, <2>2, <3>1 DEF EvSays
    <3>3. "run" \notin Resets /\ "run" # "tick"
      BY DEF Resets
    <3>4. Sees(Head(events), ui') /\ Head(events).type = "run" /\ Head(events).type \notin Resets
      BY <1>1, <2>2, <3>3
    <3> QED BY <1>1, <3>2, <3>4 DEF Sees
  <2>3. CASE events[1].type # "run"
    <3>1. ui.known => ui.running = v
      BY <2>1, <2>3 DEF EvSays
    <3>2. ui.known /\ ui'.running = ui.running
      BY <1>1, <1>3, <2>3 DEF Sees
    <3> QED BY <3>1, <3>2
  <2> QED BY <2>2, <2>3
<1> QED BY <1>2, <1>3 DEF EvSays

\* More is said: of two words the first may be wrong.
LEMMA SpellsMore ==
  ASSUME NEW s, NEW t, NEW e, Extended(s, t, e), 1 \in DOMAIN e,
         NEW w, NEW v \in BOOLEAN, NEW z \in BOOLEAN, Spells(s, w, v),
         \A j \in DOMAIN e :
           /\ IF e[j].kind = "wd" THEN z <=> Tells(e[j]) ELSE z = v
           /\ IsError(e[j]) => z = v \/ Corrected(e, j)
  PROVE  \E u : Spells(t, u, z) /\ u[0] = w[0]
<1> DEFINE n == Len(s)
           u == [i \in 0 .. Len(t) |-> IF i <= n THEN w[i] ELSE z]
<1>1. /\ n \in Nat /\ Len(e) \in Nat /\ Len(t) = n + Len(e)
      /\ DOMAIN s = 1 .. n /\ DOMAIN e = 1 .. Len(e) /\ DOMAIN t = 1 .. n + Len(e)
      /\ \A i \in DOMAIN s : i \in DOMAIN t /\ t[i] = s[i]
      /\ \A j \in DOMAIN e : n + j \in DOMAIN t /\ n + j \notin DOMAIN s /\ t[n + j] = e[j]
      /\ \A i \in DOMAIN t : i \in DOMAIN s \/ \E j \in DOMAIN e : i = n + j
  BY DEF Extended
<1>2. w \in [0 .. n -> BOOLEAN] /\ w[n] = v
  BY DEF Spells
<1>3. Len(t) \in Nat /\ Len(t) > n
  BY <1>1
<1>4. /\ u \in [0 .. Len(t) -> BOOLEAN]
      /\ \A i \in 0 .. n : u[i] = w[i]
      /\ \A i \in 0 .. Len(t) : i > n => u[i] = z
  <2>1. \A i \in 0 .. Len(t) : u[i] \in BOOLEAN
    BY <1>1, <1>2
  <2>2. \A i \in 0 .. n : i \in 0 .. Len(t) /\ i <= n
    BY <1>1, <1>3
  <2>3. \A i \in 0 .. Len(t) : i > n => ~ (i <= n)
    BY <1>1, <1>3
  <2> QED BY <2>1, <2>2, <2>3
<1> HIDE DEF u
<1>5. ASSUME NEW i \in DOMAIN s
      PROVE  /\ t[i].kind = "wd" => (u[i] <=> Tells(t[i]))
             /\ t[i].kind # "wd" => u[i] = u[i - 1]
             /\ IsError(t[i]) => u[i - 1] = u[i] \/ Corrected(t, i)
  <2>1. t[i] = s[i] /\ u[i] = w[i] /\ u[i - 1] = w[i - 1]
    <3>1. i \in 0 .. n /\ i - 1 \in 0 .. n
      BY <1>1
    <3> QED BY <1>1, <1>4, <3>1
  <2>2. Corrected(s, i) => Corrected(t, i)
    BY <1>1, <2>1 DEF Corrected
  <2> QED BY <2>1, <2>2 DEF Spells
<1>6. ASSUME NEW j \in DOMAIN e
      PROVE  /\ t[n + j].kind = "wd" => (u[n + j] <=> Tells(t[n + j]))
             /\ t[n + j].kind # "wd" => u[n + j] = u[n + j - 1]
             /\ IsError(t[n + j]) => u[n + j - 1] = u[n + j] \/ Corrected(t, n + j)
  <2>1. t[n + j] = e[j] /\ u[n + j] = z
    <3>1. n + j \in 0 .. Len(t) /\ n + j > n
      BY <1>1
    <3> QED BY <1>1, <1>4, <3>1
  <2>2. u[n + j - 1] = z \/ u[n + j - 1] = v
    <3>1. CASE j = 1
      <4>1. n + j - 1 = n /\ n \in 0 .. n
        BY <1>1, <3>1
      <4> QED BY <1>2, <1>4, <4>1
    <3>2. CASE j # 1
      <4>1. n + j - 1 \in 0 .. Len(t) /\ n + j - 1 > n
        BY <1>1, <3>2
      <4> QED BY <1>4, <4>1
    <3> QED BY <3>1, <3>2
  <2>3. Corrected(e, j) => Corrected(t, n + j)
    <3>1. ASSUME j + 1 \in DOMAIN e
          PROVE  n + j + 1 \in DOMAIN t /\ t[n + j + 1] = e[j + 1]
      <4>1. n + (j + 1) \in DOMAIN t /\ t[n + (j + 1)] = e[j + 1]
        BY <1>1, <3>1
      <4>2. n + (j + 1) = n + j + 1
        BY <1>1
      <4> QED BY <4>1, <4>2
    <3> QED BY <2>1, <3>1 DEF Corrected
  <2> QED BY <2>1, <2>2, <2>3
<1>7. Spells(t, u, z)
  <2>1. u[Len(t)] = z
    <3>1. Len(t) \in 0 .. Len(t)
      BY <1>3
    <3> QED BY <1>3, <1>4, <3>1
  <2>2. ASSUME NEW i \in DOMAIN t
        PROVE  /\ t[i].kind = "wd" => (u[i] <=> Tells(t[i]))
               /\ t[i].kind # "wd" => u[i] = u[i - 1]
               /\ IsError(t[i]) => u[i - 1] = u[i] \/ Corrected(t, i)
    BY <1>1, <1>5, <1>6
  <2> QED BY <1>4, <2>1, <2>2 DEF Spells
<1>8. u[0] = w[0]
  BY <1>1, <1>4
<1> QED BY <1>7, <1>8

\* The first word is heard.
LEMMA SpellsLess ==
  ASSUME NEW s, NEW t, Shortened(s, t), NEW w, NEW v, Spells(s, w, v)
  PROVE  \E u : Spells(t, u, v) /\ u[0] = w[1]
<1> DEFINE u == [i \in 0 .. Len(t) |-> w[i + 1]]
<1>1. /\ Len(s) \in Nat /\ Len(t) = Len(s) - 1 /\ DOMAIN s = 1 .. Len(s) /\ DOMAIN t = 1 .. Len(s) - 1
      /\ \A i \in DOMAIN t : i + 1 \in DOMAIN s /\ t[i] = s[i + 1] /\ 1 \in DOMAIN s
  BY DEF Shortened
<1>2. w \in [0 .. Len(s) -> BOOLEAN] /\ w[Len(s)] = v /\ 1 \in DOMAIN s
  BY DEF Spells, Shortened
<1>3. Len(t) \in Nat /\ Len(t) + 1 = Len(s)
  BY <1>1, <1>2
<1>4. u \in [0 .. Len(t) -> BOOLEAN] /\ \A i \in 0 .. Len(t) : u[i] = w[i + 1]
  <2>1. \A i \in 0 .. Len(t) : i + 1 \in 0 .. Len(s)
    BY <1>3
  <2> QED BY <1>2, <2>1
<1> HIDE DEF u
<1>5. u[Len(t)] = v /\ u[0] = w[1]
  <2>1. Len(t) \in 0 .. Len(t) /\ 0 \in 0 .. Len(t)
    BY <1>3
  <2>2. u[Len(t)] = w[Len(t) + 1] /\ u[0] = w[0 + 1]
    BY <1>4, <2>1
  <2> QED BY <1>2, <1>3, <2>2
<1>6. ASSUME NEW i \in DOMAIN t
      PROVE  /\ t[i].kind = "wd" => (u[i] <=> Tells(t[i]))
             /\ t[i].kind # "wd" => u[i] = u[i - 1]
             /\ IsError(t[i]) => u[i - 1] = u[i] \/ Corrected(t, i)
  <2>1. i + 1 \in DOMAIN s /\ t[i] = s[i + 1] /\ i \in 0 .. Len(t) /\ i - 1 \in 0 .. Len(t) /\ i - 1 + 1 = i
        /\ i + 1 - 1 = i
    BY <1>1, <1>3
  <2>2. u[i] = w[i + 1] /\ u[i - 1] = w[i]
    BY <1>4, <2>1
  <2>3. Corrected(s, i + 1) => Corrected(t, i)
    <3>1. ASSUME i + 1 + 1 \in DOMAIN s
          PROVE  i + 1 \in DOMAIN t /\ t[i + 1] = s[i + 1 + 1]
      <4>1. i + 1 \in DOMAIN t
        BY <1>1, <1>3, <3>1
      <4> QED BY <1>1, <4>1
    <3> QED BY <2>1, <3>1 DEF Corrected
  <2>4. /\ s[i + 1].kind = "wd" => (w[i + 1] <=> Tells(s[i + 1]))
        /\ s[i + 1].kind # "wd" => w[i + 1] = w[i + 1 - 1]
        /\ IsError(s[i + 1]) => w[i + 1 - 1] = w[i + 1] \/ Corrected(s, i + 1)
    BY <2>1 DEF Spells
  <2> QED BY <2>1, <2>2, <2>3, <2>4
<1> QED BY <1>4, <1>5, <1>6 DEF Spells


\* What has to be shown of the first word.
Begun(w) == EvSays(w[0]) \/ (1 \in DOMAIN toF /\ toF[1].state = "stopped")

LEMMA WordsHeard ==
  ASSUME Core, Fitting, NEW es, NEW p, Handling(es, p), "overflow" \notin raced', "crossed" \notin raced',
         NEW w, Spells(toF, w, board.engine), Begun(w)
  PROVE  \E u : Spells(toF', u, board'.engine) /\ Begun(u)'
<1>1. /\ link = "auth" /\ Shortened(toF, toF') /\ board' = board /\ ui' = ui
      /\ Fits(es, p, toF[1]) /\ 1 \in DOMAIN toF /\ Extended(events, events', es) /\ raced \subseteq raced'
      /\ Len(toF) \in Nat /\ DOMAIN toF = 1 .. Len(toF)
      /\ \A i \in DOMAIN toF : i = 1 \/ \E j \in DOMAIN toF' : i = j + 1 /\ toF'[j] = toF[i]
      /\ DOMAIN toF' = 1 .. Len(toF) - 1
  BY DEF Handling, Shortened, Grows
<1>2. PICK u : Spells(toF', u, board'.engine) /\ u[0] = w[1]
  BY <1>1, SpellsLess
<1>3. /\ toF[1].kind = "wd" => (w[1] <=> Tells(toF[1]))
      /\ toF[1].kind # "wd" => w[1] = w[0]
      /\ IsError(toF[1]) => w[0] = w[1] \/ Corrected(toF, 1)
      /\ w[1] \in BOOLEAN
  <2>1. 1 \in 0 .. Len(toF) /\ 1 - 1 = 0
    BY <1>1
  <2> QED BY <1>1, <2>1 DEF Spells
<1>4. ReplyOK(toF[1])
  BY <1>1 DEF Core, BoardOK
<1>5. ASSUME es = << RunState(Tells(toF[1])) >>, toF[1].kind = "wd"
      PROVE  EvSays(u[0])'
  <2>1. PICK v \in BOOLEAN : v = Tells(toF[1])
    <3>1. Tells(toF[1]) \in BOOLEAN
      BY DEF Tells
    <3> QED BY <3>1, Zenon
  <2>2. u[0] = v
    BY <1>2, <1>3, <1>5, <2>1, Zenon
  <2>3. EvSays(v)'
    BY <1>1, <1>5, <2>1, SaysRun
  <2>4. PICK a : a = u[0]
    OBVIOUS
  <2>5. EvSays(a)'
    BY <2>2, <2>3, <2>4
  <2> QED BY <2>4, <2>5
<1>6. ASSUME \A j \in DOMAIN es : es[j].type # "run", toF[1].state # "stopped"
      PROVE  EvSays(w[0])'
  <2>1. PICK v : v = w[0]
    OBVIOUS
  <2>2. EvSays(v)
    BY <1>6, <2>1 DEF Begun
  <2>3. EvSays(v)'
    BY <1>1, <1>6, <2>2, SaysGrows
  <2> QED BY <2>1, <2>3
<1>7. ASSUME toF[1].kind # "wd"
      PROVE  \A j \in DOMAIN es : es[j].type # "run"
  <2>1. toF[1].state \notin {"started", "stopped", "data"}
    BY <1>4, <1>7 DEF ReplyOK, ScanKinds
  <2>2. toF[1].state \in Errors => pending \notin {"start", "stop"}
    <3>1. ASSUME toF[1].state \in Errors, pending \in {"start", "stop"}
          PROVE  FALSE
      <4>1. toF[1].kind \in ScanKinds
        BY <1>4, <1>7, <3>1 DEF ReplyOK, Errors
      <4>2. toF[1].id # 0
        BY <1>4, <4>1 DEF ReplyOK
      <4>3. Owner(pending) = toF[1].kind
        BY <1>1, <3>1, <4>2 DEF Fitting
      <4> QED BY <1>7, <3>1, <4>3 DEF Owner, ScanKinds
    <3> QED BY <3>1
  <2> QED BY <1>1, <2>1, <2>2 DEF Fits
<1>8. CASE toF[1].kind # "wd"
  <2>1. toF[1].state # "stopped"
    BY <1>4, <1>8 DEF ReplyOK, ScanKinds
  <2>2. EvSays(w[0])'
    BY <1>6, <1>7, <1>8, <2>1
  <2> QED BY <1>2, <1>3, <1>8, <2>2 DEF Begun
<1>9. CASE toF[1].kind = "wd" /\ toF[1].state \notin Errors
  <2>1. toF[1].state \in {"started", "stopped", "data"}
    BY <1>4, <1>9 DEF ReplyOK
  <2>2. EvSays(u[0])'
    BY <1>1, <1>5, <1>9, <2>1 DEF Fits
  <2> QED BY <1>2, <2>2 DEF Begun
<1>10. CASE IsError(toF[1])
  <2>1. toF[1].state # "stopped" /\ toF[1].kind = "wd"
    BY <1>10 DEF IsError, Errors
  <2>2. CASE es = << RunState(Tells(toF[1])) >>
    <3>1. EvSays(u[0])'
      BY <1>5, <2>1, <2>2
    <3> QED BY <1>2, <3>1 DEF Begun
  <2>3. CASE \A j \in DOMAIN es : es[j].type # "run"
    <3>1. EvSays(w[0])'
      BY <1>6, <2>1, <2>3
    <3>2. CASE w[0] = w[1]
      BY <1>2, <3>1, <3>2 DEF Begun
    <3>3. CASE Corrected(toF, 1)
      <4>1. 2 \in DOMAIN toF /\ toF[2].state = "stopped"
        BY <3>3 DEF Corrected
      <4>2. 1 \in DOMAIN toF' /\ toF'[1] = toF[2]
        BY <1>1, <4>1
      <4> QED BY <1>2, <4>1, <4>2 DEF Begun
    <3> QED BY <1>3, <1>10, <3>2, <3>3
  <2> QED BY <1>1, <2>2, <2>3 DEF Fits
<1> QED BY <1>8, <1>9, <1>10 DEF IsError

LEMMA WordsFresh ==
  ASSUME Core, ResetInv, Authenticating, "overflow" \notin raced'
  PROVE  \E w : Spells(toF', w, board'.engine) /\ Begun(w)'
<1>1. /\ Grows(<< Event("active") >>) /\ link = "up" /\ ~ Waits(Resets)
      /\ board'.engine = board.engine /\ toF' = toF /\ ui' = ui
  BY DEF Authenticating
<1>2. "overflow" \notin raced /\ Extended(events, events', << Event("active") >>)
  BY <1>1 DEF Grows
<1>3. Clear /\ \A i \in DOMAIN events : events[i].type = "tick"
  BY <1>1, <1>2 DEF ResetInv, ResetLast, Waits
<1>4. ASSUME NEW v
      PROVE  EvSays(v)'
  <2>1. EvSays(v)
    BY <1>3 DEF EvSays, Clear
  <2>2. \A j \in DOMAIN << Event("active") >> : << Event("active") >>[j].type # "run"
    BY DEF Event
  <2> QED BY <1>1, <1>2, <2>1, <2>2, SaysGrows
<1>5. toF' = << >> /\ Len(toF') = 0 /\ DOMAIN toF' = {} /\ board.engine \in BOOLEAN
  BY <1>1, NoneIs DEF Core, LinkOK, TypeInv, Boards
<1> DEFINE w == [i \in 0 .. 0 |-> board.engine]
<1>6. w \in [0 .. 0 -> BOOLEAN] /\ w[0] = board.engine
  BY <1>5
<1> HIDE DEF w
<1>7. Spells(toF', w, board'.engine)
  BY <1>1, <1>5, <1>6 DEF Spells
<1>8. PICK a : a = w[0]
  OBVIOUS
<1>9. EvSays(a)'
  BY <1>4
<1> QED BY <1>7, <1>8, <1>9 DEF Begun

LEMMA WordsAdded ==
  ASSUME NEW e, Extended(toF, toF', e), ui' = ui, events' = events, NEW w, Begun(w), NEW z, 1 \in DOMAIN e,
         NEW v \in BOOLEAN, z \in BOOLEAN, Spells(toF, w, v),
         \A j \in DOMAIN e :
           /\ IF e[j].kind = "wd" THEN z <=> Tells(e[j]) ELSE z = v
           /\ IsError(e[j]) => z = v \/ Corrected(e, j)
  PROVE  \E u : Spells(toF', u, z) /\ Begun(u)'
<1>1. PICK u : Spells(toF', u, z) /\ u[0] = w[0]
  BY SpellsMore
<1>2. 1 \in DOMAIN toF => 1 \in DOMAIN toF' /\ toF'[1] = toF[1]
  BY DEF Extended
<1>3. \A a : EvSays(a) => EvSays(a)'
  BY DEF EvSays
<1> QED BY <1>1, <1>2, <1>3 DEF Begun

LEMMA WordsAnswered ==
  ASSUME Core, Owing, OneOwed, NEW h, NEW b, NEW r, Accepting(h, b, r), "crossed" \notin raced,
         NEW w, Spells(toF, w, board.engine), Begun(w)
  PROVE  \E u : Spells(toF', u, board'.engine) /\ Begun(u)'
<1>1. /\ Answered(h.cmd, b, r) /\ board'.engine = b.engine /\ ui' = ui /\ events' = events
      /\ link = "auth" /\ h \in Recs
  BY DEF Accepting
<1>2. CASE r.state = "silence"
  <2>1. b.engine = board.engine /\ toF' = toF
    BY <1>1, <1>2 DEF Answered, ReplyOK, Accepting
  <2>2. \A a : EvSays(a) => EvSays(a)'
    BY <1>1 DEF EvSays
  <2> QED BY <1>1, <2>1, <2>2 DEF Begun
<1>3. CASE r.state # "silence"
  <2>1. /\ r.kind = (IF h.cmd.kind \in {"status", "start", "stop"} THEN "wd"
                     ELSE IF h.cmd.kind = "caps" THEN "none" ELSE h.cmd.kind)
        /\ r.kind = "wd" => \/ Tells(r) <=> b.engine
                            \/ r.state = "busy" /\ \E k \in ScanKinds : Scanning(k)
        /\ r.kind # "wd" \/ IsError(r) => b.engine = board.engine
    BY <1>1, <1>3 DEF Answered
  <2>2. r.kind = "wd" => (Tells(r) <=> b.engine)
    <3>1. ASSUME r.kind = "wd", NEW k \in ScanKinds, Scanning(k)
          PROVE  FALSE
      <4>1. h.cmd.kind \in Kinds /\ (h.cmd.id = 0 <=> h.cmd.kind \in {"gps", "caps"})
        BY <1>1 DEF Recs, Records, Core, RecsOK
      <4>2. h.cmd.id # 0
        BY <2>1, <3>1, <4>1 DEF Kinds
      <4>3. h \in Live
        BY <4>2, AcceptLive
      <4>4. h.cmd.id \in owed /\ board.scan[k].id # h.cmd.id /\ board.scan[k].id \in owed
        BY <1>1, <3>1, <4>3 DEF Owing, OwedRecs, OwedScans
      <4> QED BY <4>4 DEF OneOwed
    <3> QED BY <2>1, <3>1
  <2>3. PICK v \in BOOLEAN, z \in BOOLEAN : v = board.engine /\ z = b.engine
    BY <1>1 DEF Core, TypeInv, Boards, Answered
  <2>4. PICK e : e = << r >>
    OBVIOUS
  <2>5. DOMAIN e = {1} /\ e[1] = r /\ Extended(toF, toF', e)
    BY <1>3, <2>4 DEF Accepting
  <2>6. \A j \in DOMAIN e :
           /\ IF e[j].kind = "wd" THEN z <=> Tells(e[j]) ELSE z = v
           /\ IsError(e[j]) => z = v \/ Corrected(e, j)
    BY <2>1, <2>2, <2>3, <2>5
  <2>7. \E u : Spells(toF', u, z) /\ Begun(u)'
    BY <1>1, <2>3, <2>5, <2>6, WordsAdded
  <2> QED BY <1>1, <2>3, <2>7
<1> QED BY <1>2, <1>3

LEMMA WordsSaid ==
  ASSUME Core, NEW rs, Saying(rs), "drain_stopped" \notin raced',
         NEW w, Spells(toF, w, board.engine), Begun(w)
  PROVE  \E u : Spells(toF', u, board'.engine) /\ Begun(u)'
<1>1. Extended(toF, toF', rs) /\ ui' = ui /\ events' = events
  BY DEF Saying
<1>2. PICK v \in BOOLEAN, z \in BOOLEAN : v = board.engine /\ z = board'.engine
  BY DEF Core, TypeInv, Boards, Saying
<1>3. ASSUME 1 \in DOMAIN rs,
             \A j \in DOMAIN rs :
               /\ IF rs[j].kind = "wd" THEN z <=> Tells(rs[j]) ELSE z = v
               /\ IsError(rs[j]) => z = v \/ Corrected(rs, j)
      PROVE  \E u : Spells(toF', u, board'.engine) /\ Begun(u)'
  <2>1. \E u : Spells(toF', u, z) /\ Begun(u)'
    BY <1>1, <1>2, <1>3, WordsAdded
  <2> QED BY <1>2, <2>1
<1>4. ASSUME NEW k \in ScanKinds, NEW r \in Replies, rs = << r >>, Results(k, r)
      PROVE  \E u : Spells(toF', u, board'.engine) /\ Begun(u)'
  <2>1. DOMAIN rs = {1} /\ rs[1] = r
    BY <1>4
  <2>2. z = v /\ r.kind # "wd"
    BY <1>2, <1>4 DEF Results, ScanKinds
  <2> QED BY <1>3, <2>1, <2>2
<1>5. ASSUME NEW r \in Replies, rs = << r >>, Captures(r)
      PROVE  \E u : Spells(toF', u, board'.engine) /\ Begun(u)'
  <2>1. DOMAIN rs = {1} /\ rs[1] = r
    BY <1>5
  <2>2. z = v /\ (z <=> Tells(r)) /\ r.kind = "wd"
    BY <1>2, <1>5 DEF Captures, Tells
  <2> QED BY <1>3, <2>1, <2>2
<1>6. ASSUME NEW r \in Replies, NEW s \in Replies, rs = << r, s >>, Stops(r, s)
      PROVE  \E u : Spells(toF', u, board'.engine) /\ Begun(u)'
  <2>1. DOMAIN rs = {1, 2} /\ rs[1] = r /\ rs[2] = s
    BY <1>6, TwoIs
  <2>2. /\ (z <=> Tells(r)) /\ r.kind = "wd" /\ (z <=> Tells(s)) /\ s.kind = "wd" /\ ~ IsError(s)
    BY <1>2, <1>6 DEF Stops, Tells, IsError, Errors
  <2>3. Corrected(rs, 1)
    BY <1>6, <2>1 DEF Corrected, Stops
  <2> QED BY <1>3, <2>1, <2>2, <2>3
<1> QED BY <1>4, <1>5, <1>6 DEF Saying

LEMMA WordsStep ==
  ASSUME Core, ResetInv, Owing, OneOwed, Fitting, Words, Moved
  PROVE  Words'
<1> SUFFICES ASSUME link' = "auth", ~ But({"drain_stopped", "button", "overflow", "crossed"})'
             PROVE  \E w : Spells(toF', w, board'.engine) /\ Begun(w)'
  BY DEF Words, Begun
<1>1. /\ raced \subseteq raced' /\ "overflow" \notin raced' /\ "crossed" \notin raced'
      /\ "drain_stopped" \notin raced' /\ "button" \notin raced'
      /\ "crossed" \notin raced
  BY RacedGrows DEF But
<1>2. ASSUME link = "auth"
      PROVE  \E w : Spells(toF, w, board.engine) /\ Begun(w)
  BY <1>1, <1>2 DEF Words, Begun, But
<1>3. ASSUME toF' = toF, board'.engine = board.engine, link = "auth",
             \A v : EvSays(v) => EvSays(v)'
      PROVE  \E w : Spells(toF', w, board'.engine) /\ Begun(w)'
  BY <1>2, <1>3 DEF Begun
<1>4. ASSUME UNCHANGED <<ui, events>>
      PROVE  \A v : EvSays(v) => EvSays(v)'
  BY <1>4 DEF EvSays
<1>5. ASSUME NEW t, NEW kind, NEW id, NEW r, Sent(t, kind, id, r)
      PROVE  \E w : Spells(toF', w, board'.engine) /\ Begun(w)'
  <2>1. /\ toF' = toF /\ board' = board /\ link = "auth"
        /\ events' = events \/ (Takes /\ Head(events).type = "tick")
        /\ ui'.known => ui.known /\ ui'.running = ui.running
    BY <1>5 DEF Sent, KeyUi
  <2>2. ASSUME NEW v, EvSays(v)
        PROVE  EvSays(v)'
    <3>1. CASE events' = events
      BY <2>1, <2>2, <3>1 DEF EvSays
    <3> QED BY <2>1, <2>2, <3>1, SaysTaken
  <2> QED BY <1>3, <2>1, <2>2
<1>6. ASSUME NEW t, NEW x, Transmitting(t, x)
      PROVE  \E w : Spells(toF', w, board'.engine) /\ Begun(w)'
  BY <1>3, <1>4, <1>6 DEF Transmitting
<1>7. ASSUME NEW p, Showing(p)
      PROVE  \E w : Spells(toF', w, board'.engine) /\ Begun(w)'
  <2>1. /\ toF' = toF /\ board' = board /\ link = "auth" /\ events' = events
        /\ ui'.known => ui.known /\ ui'.running = ui.running
    BY <1>7 DEF Showing, KeyUi
  <2>2. \A v : EvSays(v) => EvSays(v)'
    BY <2>1 DEF EvSays
  <2> QED BY <1>3, <2>1, <2>2
<1>8. ASSUME Reading
      PROVE  \E w : Spells(toF', w, board'.engine) /\ Begun(w)'
  <2>1. toF' = toF /\ board' = board /\ link = "auth" /\ Takes /\ Sees(Head(events), ui')
    BY <1>8 DEF Reading
  <2>2. \A v : EvSays(v) => EvSays(v)'
    BY <2>1, SaysTaken
  <2> QED BY <1>3, <2>1, <2>2
<1>9. ASSUME NEW es, NEW p, Handling(es, p)
      PROVE  \E w : Spells(toF', w, board'.engine) /\ Begun(w)'
  <2>1. PICK w : Spells(toF, w, board.engine) /\ Begun(w)
    BY <1>2, <1>9 DEF Handling
  <2> QED BY <1>1, <1>9, <2>1, WordsHeard
<1>10. ASSUME NEW es, Posting(es)
       PROVE  \E w : Spells(toF', w, board'.engine) /\ Begun(w)'
  <2>1. /\ toF' = toF /\ board' = board /\ link = "auth" /\ ui' = ui /\ Extended(events, events', es)
    BY <1>1, <1>10 DEF Posting, Grows
  <2>2. \A j \in DOMAIN es : es[j].type # "run"
    BY <1>10 DEF Posting, Event
  <2>3. \A v : EvSays(v) => EvSays(v)'
    BY <2>1, <2>2, SaysGrows
  <2> QED BY <1>3, <2>1, <2>3
<1>11. ASSUME Authenticating
       PROVE  \E w : Spells(toF', w, board'.engine) /\ Begun(w)'
  BY <1>1, <1>11, WordsFresh
<1>12. ASSUME NEW h, NEW b, NEW r, Accepting(h, b, r)
       PROVE  \E w : Spells(toF', w, board'.engine) /\ Begun(w)'
  <2>1. PICK w : Spells(toF, w, board.engine) /\ Begun(w)
    BY <1>2, <1>12 DEF Accepting
  <2> QED BY <1>1, <1>12, <2>1, WordsAnswered
<1>13. ASSUME NEW rs, Saying(rs)
       PROVE  \E w : Spells(toF', w, board'.engine) /\ Begun(w)'
  <2>1. PICK w : Spells(toF, w, board.engine) /\ Begun(w)
    BY <1>2, <1>13 DEF Saying
  <2> QED BY <1>1, <1>13, <2>1, WordsSaid
<1>14. ASSUME Idles \/ UNCHANGED vars
       PROVE  \E w : Spells(toF', w, board'.engine) /\ Begun(w)'
  <2>1. UNCHANGED <<ui, events, toF, board, link>>
    BY <1>14 DEF Idles, vars
  <2> QED BY <1>3, <1>4, <2>1
<1>15. ~ Dropping /\ ~ Buttoning
  BY <1>1 DEF Dropping, Buttoning
<1> QED BY <1>5, <1>6, <1>7, <1>8, <1>9, <1>10, <1>11, <1>12, <1>13, <1>14, <1>15 DEF Moved

LEMMA WordsHold ==
  ASSUME Core, Words
  PROVE  RunStateAgrees
<1> SUFFICES ASSUME Quiet, link = "auth", ui.known,
                    ~ But({"drain_stopped", "button", "overflow", "crossed"})
             PROVE  ui.running = board.engine
  BY DEF RunStateAgrees
<1>1. toF = << >> /\ events = << >> /\ DOMAIN toF = {} /\ DOMAIN events = {} /\ Len(toF) = 0
  BY NoneIs DEF Quiet
<1>2. PICK w : Spells(toF, w, board.engine) /\ EvSays(w[0])
  BY <1>1 DEF Words
<1>3. w[0] = board.engine
  BY <1>1, <1>2 DEF Spells
<1> QED BY <1>1, <1>2, <1>3 DEF EvSays


-----------------------------------------------------------------------------
(* The whole of it.                                                          *)

\* The inductive invariant: the types and the records, the session's reset and its numbers,
\* what is owed to whom, and what the screens are about to show.
AppInv ==
  /\ Core /\ ResetInv /\ OneSender /\ StreamInv
  /\ Owing /\ OneOwed /\ Fitting /\ BufMine
  /\ ScreenOK(ui) /\ GpsInv /\ ListInv /\ AwaitInv /\ Words

LEMMA AppInit ==
  ASSUME Init
  PROVE  AppInv
<1>1. Core
  BY CoreInit
<1>2. /\ ui = AtStart /\ events = << >> /\ DOMAIN events = {} /\ link = "down" /\ owed = {}
      /\ mid = [t \in Threads |-> NoRecord] /\ raced = {} /\ ~ board.refused
  BY NoneIs DEF Init
<1>3. /\ ui.screen = "home" /\ ~ ui.active /\ ~ ui.known /\ ~ ui.running
      /\ \A k \in ScanKinds : ~ ui.scan[k].progress /\ ui.scan[k].rows = {}
  BY <1>2 DEF AtStart, NoList
<1>4. \A t \in Threads : mid[t] = NoRecord
  BY <1>2
<1>5. ResetInv
  BY <1>2, <1>3, <1>4 DEF ResetInv, Clear, Threads
<1>6. OneSender /\ StreamInv /\ BufMine
  BY <1>2, <1>4 DEF OneSender, StreamInv, BufMine, Threads
<1>7. Owing /\ OneOwed /\ Fitting /\ Words
  BY <1>2 DEF Owing, OneOwed, Fitting, Words
<1>8. ScreenOK(ui) /\ GpsInv
  BY <1>3 DEF ScreenOK, GpsInv, GpsOK
<1>9. AwaitInv
  BY <1>3 DEF AwaitInv
<1>10. ListInv
  BY <1>2, <1>3 DEF ListInv, OneScan, EventsOf
<1> QED BY <1>1, <1>5, <1>6, <1>7, <1>8, <1>9, <1>10 DEF AppInv

LEMMA AppStep ==
  ASSUME AppInv, [Next]_vars
  PROVE  AppInv'
<1>1. /\ Core /\ ResetInv /\ OneSender /\ StreamInv
      /\ Owing /\ OneOwed /\ Fitting /\ BufMine
      /\ ScreenOK(ui) /\ GpsInv /\ ListInv /\ AwaitInv /\ Words
  BY DEF AppInv
<1>2. Moved
  BY <1>1, NextIs
<1>3. Core' /\ ResetInv'
  BY <1>1, <1>2, CoreStep, ResetStep
<1>4. OneSender'
  BY <1>1, <1>2, SenderStep
<1>5. StreamInv'
  BY <1>1, <1>2, StreamStep
<1>6. Owing' /\ OneOwed'
  BY <1>1, <1>2, OwingStep, OneOwedStep
<1>7. Fitting' /\ BufMine'
  BY <1>1, <1>2, FittingStep, BufMineStep
<1>8. ScreenOK(ui)' /\ GpsInv'
  BY <1>1, <1>2, ScreensStep
<1>9. ListInv' /\ AwaitInv'
  BY <1>1, <1>2, ListStep, AwaitStep
<1>10. Words'
  BY <1>1, <1>2, WordsStep
<1> QED BY <1>3, <1>4, <1>5, <1>6, <1>7, <1>8, <1>9, <1>10 DEF AppInv

\* In every state: every record on its way has one place, one number and one command (the two
\* threads of flipper_esp32_over_ble_app, send_pairing_record, profile_event_handler).
THEOREM AppInvariant == Spec => []AppInv
<1>1. Init => AppInv
  BY AppInit
<1>2. AppInv /\ [Next]_vars => AppInv'
  BY AppStep
<1> QED BY <1>1, <1>2, PTL DEF Spec

LEMMA TypesHold ==
  ASSUME Core
  PROVE  TypeOK
<1>1. TypeInv /\ ui \in Uis /\ board \in Boards
  BY DEF Core, TypeInv
<1>2. /\ ui.screen \in ScanKinds \cup {"home", "wd_running", "wd_stopped", "gps"}
      /\ \A k \in ScanKinds : ui.scan[k].progress \in BOOLEAN
  BY <1>1 DEF Uis, Screens, Lists
<1>3. \A k \in ScanKinds : ui.scan[k].rows \subseteq 1 .. count
  BY DEF Core, RowsOK
<1>4. {ui.active, ui.caps, ui.known, ui.running, ui.gpsTimer, cached, board.engine} \subseteq BOOLEAN
  <2>1. /\ ui.active \in BOOLEAN /\ ui.caps \in BOOLEAN /\ ui.known \in BOOLEAN
        /\ ui.running \in BOOLEAN /\ ui.gpsTimer \in BOOLEAN
    BY <1>1 DEF Uis
  <2>2. cached \in BOOLEAN /\ board.engine \in BOOLEAN
    BY <1>1 DEF TypeInv, Boards
  <2> QED BY <2>1, <2>2, Zenon
<1> QED BY <1>1, <1>2, <1>3, <1>4 DEF TypeInv, TypeOK

\* Two threads send over one session and post to one queue: the board gets every record in
\* turn, unless one thread encodes while the other is sending or an event is lost
\* (send_wifi_scan_command's comment, furi_message_queue_put).
THEOREM SendsStayInStep == Spec => []SendsInStep
<1>1. AppInv => SendsInStep
  BY TypesHold DEF AppInv, SendsInStep, InStep, StreamInv
<1> QED BY <1>1, AppInvariant, PTL

\* What the screens show of the engine and of the GPS is so, or is on its way to be
\* (handle_wardriving_status, handle_runtime_error, reset_scan_ui_state_impl).
THEOREM ScreensStayTrue == Spec => []ScreensAreTrue
<1>1. ASSUME AppInv
      PROVE  ScreensAreTrue
  <2>1. RunStateAgrees
    BY <1>1, WordsHold DEF AppInv
  <2>2. WardrivingScreenFollows
    BY <1>1 DEF AppInv, ScreenOK, WardrivingScreenFollows
  <2>3. GpsScreenIsFed
    BY <1>1 DEF AppInv, GpsInv, GpsOK, GpsScreenIsFed, But
  <2> QED BY <2>1, <2>2, <2>3 DEF ScreensAreTrue
<1> QED BY <1>1, AppInvariant, PTL

LEMMA ErrorHolds ==
  ASSUME Core, Fitting
  PROVE  ErrorFindsItsCommand
<1> SUFFICES ASSUME Worker, Arrives({"busy", "not_running", "internal_error"}), First.id # 0,
                    pending # "none", ~ But({"crossed"})
             PROVE  Owner(pending) = First.kind
  BY DEF ErrorFindsItsCommand
<1>1. toF \in Seq(Replies) /\ toF # << >> /\ link = "auth" /\ "crossed" \notin raced
  BY DEF Core, TypeInv, Arrives, Worker, But
<1>2. 1 \in DOMAIN toF /\ First = toF[1]
  BY <1>1, TailIs DEF First
<1> QED BY <1>1, <1>2 DEF Fitting

\* Answers go with the command that is waited for, although they carry no name the code reads
\* and one slot stands for all commands (pending_command_kind).
THEOREM AnswersAreMatched == Spec => []AnswersFindTheirCommand
<1>1. AppInv => AnswersFindTheirCommand
  BY AwaitHolds, ListHolds, ErrorHolds DEF AppInv, AnswersFindTheirCommand
<1> QED BY <1>1, AppInvariant, PTL
=============================================================================
