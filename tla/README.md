# Verification of flipper-esp32-over-ble

TLA+ models, model checks and machine-checked proofs for the firmware of the ESP32 board
(`src/esp32`, `src/components/feb_protocol`), its Heltec sibling (`src/heltec`) and the Flipper
application (`src/flipper`) that talk to each other over BLE. The source is the reference for
every definition; `PROJECT.json` lists, for each definition, the lines it models.

Contents: [the system](#1-the-system) · [modules](#2-modules-and-how-they-correspond-to-the-code)
· [runs](#3-the-runs) · [proofs](#4-what-is-proved) ·
[disagreements](#5-where-code-and-text-disagree) · [not modelled](#6-what-is-not-modelled-and-why)
· [plan](#7-plan) · [running it](#8-running-it)

## 1. The system

A Flipper is the BLE peripheral, the board the BLE central. The board searches for a paired
Flipper, connects, authenticates and then executes its commands: Wi-Fi and BLE scans, GPS, and
*wardriving*, a background mode that captures the surroundings in a flash log, also while no
Flipper is connected, and sends the backlog when one is.

### Components, their state and operations

| component | state | operations | what is hard | what makes it correct |
|---|---|---|---|---|
| Flash log `wardriving_log.c`, `wardriving_record_format.c` | sector headers and records on raw flash; write and read positions, counters in RAM, rebuilt at boot | `init`, `append` (with roll and eviction), `peek_pending`, `mark_drained` | power loss inside any erase or write, flash errors, a full log, evictions under a batch in flight, the order of generations | no acknowledged capture disappears silently; RAM agrees with flash; no record out of reach; first in, first out |
| Transmit pipeline and drain `main.c` 943-1146, 2346-2491, 3141-3239 | fragments of one record, a queue of records, what to do when the record is out; the batch in flight and the count to mark | `queue_and_send_protected`, `write_complete`, `wardriving_maybe_kick_send`, `wardriving_send_next_batch` | replies, captures and disconnects between any two completions; continuations | fragments in order; only confirmed captures are given up; the drain goes on |
| Fragmentation `framing.c` (both sides) | message id of the sender; one reassembly buffer | `feb_fragment_record`, `feb_reassembly_feed`, `_check_timeout`, `_reset` | lost notifications, broken links, repeated ids, restarts, a wrapping clock | records are never mixed; a rejection costs no other record |
| Scan arbitration and wardriving control `main.c` 1263-2338, 2531-2811 | one Wi-Fi driver, one BLE discovery, two claims, five callouts, one event from another task | the scan commands, the SCAN_DONE event, result batches, the wardriving duty cycle, start, stop, self-stop, button, autostart | three users of two radios; stops, disconnects and requests between a scan's start and its end | sources are claimed, held and given back; wardriving never stalls; a client gets its own results |
| Discovery and reconnection `main.c` 628-819, 3246-3442 | the discovery, a reconnect callout, boot mode, pairing window | `start_scan`, GAP events, the outcomes of a disconnect | discovery is shared with the scans and cancelled by them | the board never stops looking for the Flipper |
| Pairing `pairing.c`, `pairing_crypto.c`, both sides | pairing state, attempt keys, stored secret | `pair_init`, `pair_reply`, `pair_confirm`, `pair_complete` | a link lost between the two persists | both sides end with the same secret, or with the old one |
| Runtime authentication and sessions `session.c`, `main.c` 3027-3139 | authentication state, session key, sequence numbers | `hello`, `hello_ack`, `client_auth`, protected records | late answers, backoff, sequence limit, two sending threads on the Flipper | agreement on the session; no number used twice; no record accepted twice |
| Flipper application `flipper_esp32_over_ble.c` | event queue, command slot, sequence counter, scan lists, screens | BLE worker, main thread, keys, GPS timer | two threads that send, dropped events, one slot for the pending command | answers go with their commands; the screens say what is so |
| Capture and deduplication `wardriving_dedup.c`, `main.c` 1363-1418, 1862-1940 | one table of addresses per source, a count of failures | a pass over the results: look up, append, remember | full table, colliding hashes, appends that fail behind the lookup | nothing is filtered that was never logged |
| Export `wardriving_csv.c`, `flipper_esp32_over_ble.c` 2305-2534 | a second table, the open file, rows since the last sync | write a record of a batch, sync, close | card errors, power loss, a file closed under a batch, batches that come twice | what the filter withholds is in the file; a power loss takes few rows |
| Scan results `main.c` 1263-1348, 1441-1510, 1740-1989, 2372-2491 | raw lists, the selection, the record being filled | catalogue, select, pack, send | limits of lists and records, sizes | the strongest are reported, each once; every record fits |
| CBOR codecs, both copies | none | encode and decode every record | two implementations of one format | they accept the same records, and each record has one encoding |
| Heltec firmware `heltec/main/main.c` | as the board's, without wardriving | search, pairing, authentication, scans | batches of scans through a pipeline that replies share | as the board's |
| Settings `wardriving_persist.c`, `wardriving_validate.c` | one NVS blob | load, save, resolve | partial and old blobs | not modelled, section 6 |
| GPS `location.c`, `nmea_parser.c` | sentence buffer, last fix | byte, sentence, age | overlong and cut sentences, stale fixes | not modelled, section 6 |
| Factory reset, status LED, tools | see section 6 | | | |

### Tasks and interactions

On the boards everything runs on the NimBLE host task, one handler at a time, with three
exceptions: `wifi_scan_done_handler` on the event task, which hands over by arming
`wifi_scan_done_co`; `factory_reset_task`, which posts button presses; and the UART reader of the
GPS. The Flipper has two threads, the BLE worker and the main thread, which share the session and
meet in a bounded queue. Handlers therefore are atomic actions in the models, except where the
Flipper's threads both send (FlipperApp); interleaving is between handlers. The pipeline calls
`write_complete` for every GATT write that the Flipper's ATT server confirms. The capture side
calls `wardriving_log_append` and kicks the drain; the drain calls `peek_pending`, sends a batch
and, when its last fragment is confirmed, `mark_drained`.

The hazards this code is exposed to are listed with their lines under `hazards` in
`PROJECT.json`, each with the properties that would catch it.

## 2. Modules and how they correspond to the code

    StoreAndForward      what wardriving_log.h promises
        ^ implements
    WardrivingLog  <--  WardrivingScan  <--  MCWardrivingLog  <--  WardrivingLog_proofs
    EspTx          <--  EspTx_proofs         uses the promise as its log
    Framing        <--  Framing_proofs,  MCFraming
    ScanArbiter    <--  ScanArbiter_proofs
    Session        <--  Session_proofs       both sides and the link between them
    FlipperApp     <--  FlipperApp_proofs    the application behind Session
    HeltecState    <--  HeltecBoard          the second firmware, whole
                   <--  EspTx_proofs         holds its proofs too
    ScanResults    <--  ScanResults_proofs
    Capture        <--  Export  <--  CaptureToCsv  <--  CaptureToCsv_proofs
    CborItem       <--  BoardCodec,  FlipperCodec;  Codec is both side by side

**WardrivingLog** is `wardriving_log.c`. Its variables carry the names of the static `wd_*`
variables; flash is `head`, `gen` and `slot`. Each entry point is one action for the call that
succeeds, with `append`'s roll, eviction and write in one action (`LogAppend`) and its failures in
others (`RollFails`, `RecordWriteFails`). A power loss inside a call is an action too
(`AppendCut`, `MarkCut`, `BootCut`): it leaves on flash what the operation may have programmed by
then, and the RAM as at reset. Flash is modelled by what it does: an erase blanks a sector, a
write only clears bits. A sector is a row of record slots; that records differ in length appears
as the free choice whether a record still fits. The payload of a record is the number of the
capture. `Faults` says what else may go wrong.

**WardrivingScan** is the same file one level down: the walk of `wardriving_log_init` and the
collection loop of `peek_pending` record by record, as recursive functions, with the discard of
records that no longer decode. `ScanAgrees` compares what the boot scan finds with what is *on
flash* (`OnFlash`: every undrained record, in whatever sector), and where it starts with the
capture that was taken first; `PeekAgrees` compares the collection with the batch that the log's
actions hand out (`IsPeek`). Both must hold on every reachable flash image.

**StoreAndForward** is the abstract specification: a queue, the batch handed out, what was
drained and evicted. **MCWardrivingLog** maps the log onto it (the queue is the stored captures in
the order they were taken) and states the fairness.

**EspTx** is the pipeline. `tx` holds the `tx_*` variables and the queue; `writes` are the GATT
writes in the air. A handler is computed as a chain of operators on a record of the state, named
as the C functions it calls, in their order, and `Returns` / `HandlerReturns` turn the result
into the next state. The log below it is `StoreAndForward` without evictions.

**Framing** is one direction of the link with both ends of `framing.c`. `r` is
`feb_reassembly_t`; bytes are abstracted to lengths; a fragment carries the number of the record
it was cut from, which the receiver's code never reads. `ReceiverResets` and `Lossy` tell the two
directions apart: the Flipper's notifications can be lost (nobody checks their result), the
board's writes cannot; the board resets its reassembly at a disconnect, the Flipper does not.
**MCFraming** runs both: `direction` is "notified" or "written" for a whole behaviour.

**ScanArbiter** is who has the radios. `wifi` and `ble` hold the flags and callouts of one source
each, `radio` the Wi-Fi driver with the SCAN_DONE events it has raised, `disc` the discovery,
`link`, `mode`, `reconnect` the search for the Flipper, `chain` the pipeline's records that
continue a scan's results. One action per handler; `wardriving_stop_internal`,
`wardriving_start_internal`, `start_scan`, `schedule_reconnect` and the two `send_next_batch` are
operators the handlers' actions use. What scans find is abstracted to which scan found it;
`answers` records whose results went to which request. A request that is refused as busy or
malformed changes nothing and is no step. One that the driver refuses does change something: the
claim is taken back, but the source and the request number stay overwritten
(`main.c:1543-1556`, `1594-1617`), which are the actions `WifiScanRefused` and `BleScanRefused`.

The CONSTANT `Races` names six timings. Each is an interleaving the code admits in which one of
the properties fails (table in section 5). With a timing absent from `Races` its action is
disabled, so that a run or a theorem says: *but for these timings, this holds*. None of the
exclusions is needed for more than the properties named.

**Session** is pairing and runtime authentication, the board and the Flipper composed over their
link. `board` and `flip` are records of the C statics of each side (the comments in `BoardAtBoot`
and `FlipperOff` name them), in RAM and on flash or card. Records travel in three queues: `toF`,
writes the Flipper's stack has not confirmed; `inbox`, confirmed and not yet handled by the
application's BLE worker; `toB`, confirmations and notifications in the order the link delivers
them. Handlers are chains of operators on the state of one side, named for the C functions, as in
EspTx. The Flipper's BLE worker (`FlipperHandles`) and main thread (`MainHandles`,
`UserCommand`) are separate actions that share the session's variables and meet in the event
queue, which drops what it has no room for. Cryptography is symbolic: a secret is the attempt it
comes from, a session key the pair of session and secret, and a proof or an encrypted record
carries what it was made with; `FreshSecret` and `FreshSession` are random values no one holds.
The bounds on the names are guarded by `NamesLeft`: a dialogue begins only while there is a name
that is in no use, and in `session` there always is.
A loss of the link, a lost notification, a failed write or save, a reset, a factory reset, the end
of the application, a deleted pairing record or one that cannot be read costs one of `MaxFaults`.
`pairing_storage_load` answers "none" for a record that is missing, unreadable or of the wrong
length alike (`flipper_esp32_over_ble.c:930-955`), so each `hello` may meet a record it does not
see; the record may be readable the next time. Two history variables follow what that leads to:
`unread` is that the Flipper has said "unknown board" with a record on the card, `forgot` that a
side has been separated from the common secret, by an erase of the board or by such a read. What is
abstracted: fragments (Framing, EspTx); the capacity of the ESP32's queue of records (EspTx);
several captures in a batch; records that do not decode, which the peers of the model never send.
Nothing in `src/` removes a pairing record from the Flipper although the documents speak of it;
`RecordRemoved` is the user's file manager and is marked external.

`LateReset` is a timing like those of `Races`: with FALSE the Flipper's main thread has emptied
its event queue before the next connection and its first record, which take service discovery
and several round trips, with TRUE it may be slower (section 5).

**FlipperApp** goes on where Session stops, at `handle_client_auth`. Sending is cut into two steps
of either thread, `Encode` (take the number, fill the buffers, remember the command) and
`Transmit` (the fragments, and only then the next number), because the threads share the counter
and the buffer. `Posted` drops what the queue has no room for, as a `furi_message_queue_put`
without a wait does. `MainEvent` is the main thread with an event of the worker, a `Key...` action
the same thread with a key; the worker's `Handle...` actions are named for the records they take.
The board and its engine are external, reduced to what it answers in which order. As in
ScanArbiter, timings that defeat a property are recorded (`raced`) rather than left out: every
behaviour with up to `MaxRaces` of them is explored, and each property names, in `But(...)`, the
ones it does not survive; section 5 has what happens then.

**HeltecBoard** is the whole of the second firmware in one module: where the ESP32's parts are
taken apart, here the batches of a scan go through the pipeline fragment by fragment, between the
replies and the handshakes. NimBLE may refuse the search (`disc_error`: logged, with nothing to
retry, `heltec/main/main.c:454-457`), and a batch may fail to be queued, also because it does not
encode. `p` is the pipeline with its queue and what is on the wire, `scan`,
`wifiRadio`, `window` and `disc` the scans and the search, `stage` both state machines of pairing
and authentication. `heard` is what the Flipper has whole. Timings are recorded as in FlipperApp.
Its variables and properties stand in **HeltecState**, so that the proofs about it can be in one
module with those about EspTx.

**ScanResults** is the way from what the radio reports to records: `Advertisement` is the
catalogue of a BLE window (`ble_scan_catalog_advertisement`), `WifiScanDone` the driver's list,
`Round` one round of the selection loop, `Pack` one turn of a packing loop with the encoder's
sizes, `SendBatch` and the two `Continue` actions the chain of records. Sizes are the real ones,
down to the heads of the CBOR items; `text` stands for the bytes of an entry that vary. The log of
wardriving is a queue here, and its records are packed by the same loop. An entry that does not
fit a record alone is dropped by the code; `EntryFitsAssumption` rules it out, as the code's
limits do. A Wi-Fi driver that fails to say what it found (`main.c:1275-1281`) leaves an empty list,
which is answered as "complete" without networks; the history variable `unfetched` records it.

**Capture**, **Export** and **CaptureToCsv** follow a sighting to a row of the file. Capture is
the board's filter: hash, probing, the cursor that evicts from a full table, the append and its
failure, the failure count that stops wardriving, passes of results that outlive a stop, and the
fix taken once per pass (`EnterLoop` takes any place, `DiscardPass` is a pass without a fix).
Export is the Flipper's filter and file: what is in the file, what of it is safe, what the table
withholds. CaptureToCsv joins them with batches that are sent again when the link breaks before
they are drained. `about` says whether the Flipper is present at all; without it more sightings
are explored. One of the two sources is modelled; they share nothing but the log and the count.

**CborItem**, **BoardCodec**, **FlipperCodec** and **Codec** are the two implementations of the
wire format. An item keeps its kind, value, form of head and elements instead of its bytes; an
encoder makes an item, a decoder accepts or refuses one, each in the manner of its copy: the boards'
looks keys up in a table of names, the Flipper's expects one key after the other. Codec holds the
values the applications use, at their limits, and damages a record up to `MaxFaults` times: other
kinds, longer heads, other values and lengths, entries left out, twice, swapped or added. The seal
of a protected record is symbolic.

## 3. The runs

| run | question | distinct states | result |
|---|---|---|---|
| `wardriving_log` | three sectors of two records, evictions, power loss at every flash operation, records that no longer decode | 14,237 | holds |
| `wardriving_faults` | flash errors while appending and power losses, three sectors that roll over and are evicted; the record loops on every flash image | 289,715 | holds |
| `esp_tx` | replies, captures, errors, disconnects and completions in every order, under fairness | 10,588 | holds |
| `framing` | both directions: fragments lost one by one with ids modulo 3 and a receiver that is reset; none lost with ids modulo 2 and one that is not; clock modulo 4, three MTUs | 160,594 | holds |
| `scan_arbiter` | two manual scans against wardriving, the search, stops and restarts | 169,312 | holds |
| `session` | pairing and sessions of both sides, three faults anywhere, under fairness | 291,444 | holds |
| `flipper_app` | two threads, two commands, an unasked record, two sessions, one hostile timing | 656,797 | holds |
| `heltec` | the Heltec firmware over two connections, three commands, two hostile timings | 156,373 | holds |
| `codec` | every kind of record with up to two faults, before both decoders | 132,435 | holds |
| `scan_results` | two scans and the backlog through catalogue, selection and packing | 1,013,647 | holds |
| `capture` | from the air to the CSV file through two filters, with failures on both sides | 1,898,390 | holds |
| `batch_headroom` | does every record of a scan fit its payload? | | violated |

### What the properties say

A property that names several parts (`X == A /\ B`) is checked as one; each part is stated above
its definition in the module.

*Flash log.* `NoSilentLoss`: a capture whose append returned true is stored, drained, or in a
sector whose eviction was logged; it is checked with power losses in `wardriving_log` and with
failing appends in `wardriving_faults`. `RamAgrees`: the counters that decide evictions, the "was empty"
case and `backlog_remaining` equal what is on flash (`CountsAgree`); no record lies where the read
walk will not pass (`NothingStranded`); discarding while collecting keeps the counters right, for
every set of records that might not decode (`PeekDiscardsCleanly`; it holds with failing appends
too, and does not with torn headers or failing marks). `LoopsAgree`: the record loop of boot counts
every undrained record on flash, whichever sector it is in, and begins with the oldest; that of
`peek_pending` collects the batch the log's actions hand out. `IsStoreAndForward`: the log implements the
store. `EveryCaptureLeaves`: every capture is eventually drained or evicted.

*Pipeline.* `PipelineInOrder`: on the wire, records follow each other whole.
`DrainInTurn` and `StableLinkDrains`: a capture is marked drained only when all of its record was
confirmed, a batch in flight is followed up, and a link that stays up drains the log, as long as no
record was started in the window of an unanswered last write (`overlap`).

*Framing.* `NeverMixed`, `IntactDelivered` (the records the link or a repeated id may spoil are
recorded in `spoiled`), and `ReassemblyHolds`: a buffer that is never overrun and a timeout that
fires for old records only, although the clock wraps.

*Scans.* `KeepsLookingForPeer`, `DutyCycleAlive`, `BusyIsReleased`, `AnswersOwnScan`,
`AnswersLiveRequest`, and `WardrivingIsWhole`: wardriving has all of its sources or none, and holds
them alone.

*Session.* `OnlyForgottenSecretsDiffer`: the sides hold two different secrets only after one of them
forgot the common one (the board was erased, or the Flipper could not read its record and the
board stored the secret of the ceremony that followed), wherever pairing was cut off. `EndsAgree`: when the board takes a session for
authenticated and its `client_auth` has been handled, the Flipper has the same session and key
(`BothEndsAgree`); along a session no sequence number is used twice, and the Flipper misses none on
a live link (`StreamsInStep`). `DrainedIsAccepted`: a batch the link confirmed is taken by the
application. `FailuresAreAnswered`: no failure but a missing or unreadable record opens a pairing window, and
attempts against another secret are delayed by the whole row of failures. `Recovers`: with a
common secret the sides come to a session, again and again.

*Flipper application.* `SendsInStep`: the board never gets a number out of turn. `ScreensAreTrue`:
what the wardriving screens say is what the engine does once nothing is under way, and an open GPS
screen is polled. `AnswersFindTheirCommand`: a scan shown as running has an end under way that will
be routed to it, a list of results is one scan's, an error is shown as that of the command it
answers. `ScansEnd`: a scan the screen shows as running ends.

*Heltec.* `HeardIsTrue`: what the Flipper gets is in turn, `pair_complete` means stored, the board
believes a session to be up only with all of `client_auth` on the link, results go to the client
that asked. `NeverStuck`: a queued record, a claimed scan and the search always have something
under way that goes on with them. `ScanEnds`.

*Codecs.* `BothRead`: what either side writes both read, and the copies accept the same records,
but for three named shapes (`FlipperIsLooser`, `BoardIsLooser`; section 5). `OneEncoding`: an
accepted record is, entry by entry, what the encoder makes of its fields (but for a cut `version`,
and for queries and protected records, of which the encoders make something else than was read).
`ProofsAgree`: a record
opens only as it was sealed and in its direction; both sides derive keys from the same bytes.

*Scan results.* `AnswerIsWhole`: a scan that completes has reported the strongest of what there was
room for, each once, strongest first, wherever the records were cut, and nothing if the driver did
not hand its list over. `RecordsAreSized`: a batch of the backlog fits its payload (`DataFits`), and a
record is too long by no more than its wrapper exceeds the headroom, and a connection is closed over
no other (`OverrunIsBounded`). `ResultsEnd`: selection and packing come to an end.

*Capture.* `FilteredIsLogged`: what the board leaves out has a record at least as good in the log.
`FiltersAreSound`: each table holds the last record per address and lets through only what says
more. `FileIsSound`: the Flipper's filter remembers only what is in the file, and a power loss takes
less than `SyncEvery` rows. `NothingMissing`: every sighting that either filter saw is in the log,
under way, or stands in the file, unless the user was shown an error or the Flipper lost power;
the two filters together lose no more than 10 dB and twice 30 m.

### Bounds

* Flash log: with three sectors the active, the oldest and another one are distinct; two records
  per sector give torn, drained and undrained neighbours; four captures (five in
  `wardriving_faults`) roll into the third sector and, since a record need not fit behind another,
  round to evictions. With two sectors every sector in use is walked wherever the walk starts;
  three are the least with which a boot scan can miss one. `GenMod` is larger than the generations
  these runs reach; the wrap is met only behind a torn header, whose word is `GenMod - 1`
  (section 5).
* Pipeline: records of one and two fragments, one place in the queue (full with one record),
  batches of one and two, three captures, two replies, a sequence limit that a run reaches.
* Framing: records of up to four units in capacities 1 to 3 need one to three fragments and, with
  capacity 1, too many; ids modulo 2 and 3 repeat within three records; the clock wraps.
* Scans: two requests are the least that can be confused; two pending events allow the event of a
  stopped scan next to that of a new one.
* Session: three faults reach a failed save, a second pairing and a cut within it; six secrets and
  five sessions are enough that a fresh one always exists (TLC would report the `CHOOSE`
  otherwise). `SequenceMax` is 3 instead of 2^24 - 1, so that sessions do run out; an event queue
  of 3 instead of 8 overflows; `MaxFails` 2 reaches the slow cadence; one command of the user is
  in the air at a time.
* Flipper application: two commands are the least of which one can take the other's answer; a
  second session finds what the first left; a queue of 2 instead of 8 overflows; one unasked record
  and one timing at a time show each timing by itself. Some of the timings of section 5 need
  three commands.
* Heltec: scans of two batches of two fragments have a middle that can be lost; one place in the
  queue is full with one record; four numbers run out; `MaxRaces` 2 includes pairs of timings.
* Codecs: two faults can compensate each other (a wrong count and a missing entry);
  `VersionModulus` 1000 stands for 2^32. Values are at and next to the limits of heads and fields.
* Scan results: raw lists of 5 and 3 and four entries per record overflow with six networks and
  four advertisements; a payload of 348 instead of 512 holds a few entries at most, so that
  records are cut. `Headroom` and the sizes of entries are the code's; `batch_headroom` has the
  code's limits, too.
* Capture: three addresses, two places: a full table and collisions; strengths 0, 5, 6 lie below and
  at the gain of 6; two places on a line lie `Distance` apart; two failures end wardriving; a table
  of one entry on the Flipper evicts at once; every second row is synced.

Each bound is a CONSTANT and appears in a guard. `CHECK_DEADLOCK FALSE` is set where behaviours
come to an end: in `framing` everything may have been sent, in `session` and `heltec` the board is
idle for good after a pairing window until somebody resets it (or the bounded connections are used
up), in `codec` a record is damaged no further, in `capture` all sightings have been made.

### Fairness

`EveryCaptureLeaves` assumes that the board boots when it can (weak fairness of the boot actions)
and that taking a batch and marking it drained, which power losses interrupt, succeed if they are
possible again and again (strong fairness): the drain is kicked at every authentication and after
every capture. `esp_tx` assumes weak fairness of `WriteComplete` only: NimBLE ends every GATT
procedure with an answer, an error or a disconnect. `StableLinkDrains` speaks about links that
stay up; nothing is assumed about captures, replies or connections.

`session` assumes weak fairness of the handlers, timers and the stack: both sides' tasks run, a
connection that can be set up is, writes are answered, timers fire, a closed link goes down, and
the user opens the application. Faults, captures, commands, idle timeouts and the end of a
window are not bound to happen. `Recovers` speaks of behaviours that come to rest with a common
secret; sessions that run out of sequence numbers, which takes 2^24 records in the code and two
in the model, are left out of it.

`flipper_app` assumes weak fairness of the worker, of the main thread's loop (events and the poll
of the GPS), of a send that has begun, of the board's answering and of a scan's end; keys, unasked
records and the loss of the link are not bound to happen. `heltec` assumes that a Wi-Fi scan ends
and its event and callout are handled, that the timer of a BLE window fires, that a write is
answered and that a link the board closes goes down. `scan_results` assumes that the selection,
the packing and the chain of records go on; they are loops of one task. In `ScansEnd` and
`ScanEnds` a behaviour with one of the hostile timings is exempt: those are the ways a scan gets
lost (section 5).

## 4. What is proved

TLAPS proves the following for every value of the constants that satisfies the module's `ASSUME`.

**`ScanArbiter_proofs`.** The inductive invariant `ArbiterInv` is
`TypeOK /\ WifiClaim /\ WifiOnePlace /\ BleClaim /\ DutyCycleAlive /\ AllSourcesOrNone`. The
properties are not inductive alone: that wardriving never stalls needs that a callout or a scan of
an active source cannot be taken by a manual scan, that is, `WifiClaim` (wardriving is active
exactly while it holds the claim; the driver scans only for a claim); that in turn needs
`WifiOnePlace` (the results of a manual scan are in the driver, or in one event, or with the host
task, or in the pipeline, so that no second end of a scan gives the source back twice). There is
one lemma per group of handlers, and lemmas for the shared operations (`StopInternalOK`,
`StartOK`, `HaltedOK`, `WifiBatchOK`, ...).

| theorem | property | timings excluded |
|---|---|---|
| `ArbiterInvariant` | `ArbiterInv` | `stale_scan_done` |
| `ArbiterTypeOK` | `TypeOK` | `stale_scan_done` |
| `WardrivingNeverStalls` | `DutyCycleAlive` | `stale_scan_done` |
| `WardrivingStaysWhole` | `WardrivingIsWhole` (from `WardrivingIsExclusive` and `StartIsAtomic`) | `stale_scan_done` |
| `SourcesAreReleased` | `BusyIsReleased` | and `drop_mid_chain` |
| `ScansAnswerTheirRequest` | `AnswersOwnScan` | `stale_scan_done` |
| `ScansAnswerTheirClient` | `AnswersLiveRequest` | and `fast_reconnect` |
| `TheSearchGoesOn` | `KeepsLookingForPeer` | and `drop_in_window`, `stop_while_down`, `disc_error` |

The run checks the same properties with all timings excluded and two requests; the theorems hold
for any number of requests and with every timing that is not named. On top of `ArbiterInv`,
`BusyInv` adds that results are continued only on their connection, `OwnInv` that the results of a
manual scan are its own wherever they are, `LiveInv` that on an authenticated connection a manual
claim is this connection's, and `SearchInv` that a window callout armed for nobody meets no
search.

**`Framing_proofs`.** `FramingTypeOK`: the reassembly buffer is never overrun, for every MTU,
record size and loss. `LosslessNeverMixed`: without loss of single fragments records are never
mixed; the inductive `Contiguous` says that what is in the buffer and on the wire is a run of
consecutive fragments. `LossyNeverMixed`: with loss, as long as no id is used twice
(`MaxRecords <= IdMod`); the inductive `IdsTell` says that ids identify records.
`FirstFragmentFits`: the early length check never refuses a record the sender may send.
`ReassemblyIsBounded`: the timeout fires at the true age of a record (`ReassemblyHolds`); the
inductive `ClockRuns` says that the clock has wrapped at most once since the record began.
`LosslessIntact` and `LossyIntact` prove `IntactDelivered`, that a record nobody spoiled is handed
over once the link has run empty, on the two kinds of link (the second again with ids that are not
used twice). The inductive `IntactInv` follows an unspoiled record: it has been handed over, or all
its fragments still lie together on the link (`Waits`), or it is the record in progress and its
next fragments are those that arrive next (`Arrives`); `StartsClear` says that the first one finds
nothing in its way. Without loss that rests on `Whole` (only whole records are on the link), with
loss on `Ordered` and `IdsTell`.

**`ScanResults_proofs`**, for any limits, strengths, texts and request ids. `ResultsTypeCorrect`:
no list overruns its array and no record has more entries than it may, with the inductive
`TypeInv` (`TypeOK` and, during a selection, what is selected so far). `BatchInv` adds what the
packing loop maintains: the result with what is packed leaves the headroom (`PackedFits`), no more
is packed than was taken from the list (`Counted`), and a selection starts from an empty record
(`Unpacked`). From it:

| theorem | property | assumption |
|---|---|---|
| `WardrivingBatchesFit` | `RecordsAreSized` | the headroom covers the record around a result without a request (32 does) |
| `OverrunsAreShort` | `OverrunIsBounded` | none |
| `TheAnswerIsWhole` | `AnswerIsWhole` | none |

That every batch of a scan fits (`BatchFits`) would need a headroom of at least the wrapper, which
takes 34 bytes and more; both firmwares keep 32 (`main.c:1469`, `heltec/main/main.c:80`, `83`), hence
the run `batch_headroom`. `OverrunsAreShort` says how far it can go wrong: for any sizes a record
exceeds its payload by the missing bytes at most (2 to 11 with 32), and with a headroom that covers
the wrapper never.

`TheAnswerIsWhole` rests on `AnswerInv`, which says in each phase how far the answer is. While the
window is open the catalogue holds, of the first addresses heard, the strongest signal and the first name
(`Catalogued`); while results are selected the candidates stand in the raw buffer, each once, and
what has been taken is its front and at least as strong as what is behind (`Chosen`); while
records are packed and sent, what was told and what is packed put together is the front of the
selection up to the next entry (`PackingInv`, `SentInv`). `EmptyInv` says that only a scan that
found nothing, or whose driver handed nothing over, builds a record without entries, `OpenInv` that
"complete" was not told while anything is left to do. `FlattenSeq`, which puts the records together, is a recursive function:
`FlattenExists` and `FlattenAgrees` show from the least-number principle that it is well defined,
`FlattenAppend` what a record more adds.

**`CaptureToCsv_proofs`**, for any number of addresses, slots, failures and restarts.
`NothingFilteredIsLost` proves `FilteredIsLogged` from `FilterInv`: every used entry of the table
has its record in the log (`TableIsLogged`), which an append that fails behind a lookup must not
break. `TheFileIsSound` proves `FileIsSound` from `ExportInv`: entries of the Flipper's table have
distinct addresses (`EntriesDiffer`), the last row of an entry's address says what the entry says
(`Backed`), and the rows since the last sync are counted (`Counted`); `WithheldForAReason` and
`FewRowsAtRisk` are its halves. `EverySightingIsStoodFor` proves `NothingMissing` from
`DeliveryInv`, which follows a record through the log, a batch that may be sent again, and the file
it ends in. `TheFiltersAreSound` proves `FiltersAreSound`: a used entry of the board's table is
found again by the probes of its address, because an address is entered once and a place is given
up only when the table is full (`BoardInv`), and the rows of one address say more one after the
other (`RowsInv`).

**`WardrivingLog_proofs`**, for any number of sectors, records per sector, batch size, captures
and order of calls, with a power loss inside any flash operation. The inductive invariant `LogInv`
describes the flash as a picture `init` can find again: the occupied sectors are an arc of the ring
in the order of their generations (`RingOK`), captures are stored in the order in which they were
appended (`IdsInOrder`), no record lies behind a blank one (`RecordsInOrder`, `Tidy`); and, between
a boot and a power loss, the RAM: the next record goes behind those of the active sector
(`ActiveOK`), sectors are counted exactly unless they were given up (`CountsOK`), every counted
record lies between the oldest position and the active sector (`WalkOK`), and a batch handed out
is the first counted records of that walk (`PeekOK`). None of the properties is inductive
alone: that an eviction takes the oldest needs the arc, whose order needs that an erase and a
header are programmed only at its ends; that marking a batch clears the right flags needs that
nothing was evicted under it; and a boot rebuilds all of the RAM from the flash part.

| theorem | property | assumption |
|---|---|---|
| `LogInvariant` | `LogInv` | `Premises` |
| `NoCaptureIsLostSilently` | `NoSilentLoss` | `Premises` |
| `EvictionTakesTheOldest` | `EvictsOldest` | `Premises` |
| `RangesAreKept` | `TypeOK` | `Premises` |
| `LoopsFindWhatIsThere` | `LoopsAgree` | `Premises` |
| `BatchesDiscardCleanly` | `PeekDiscardsCleanly` | `Premises` |
| `CountersAreTrue` | `CountsAgree`, `NothingStranded` | and no failing append |
| `RamIsRight` | `RamAgrees` | and no failing append |

`Premises` says that of the faults only a failing append occurs, and that the generation does
not wrap: it is a 32-bit word that grows by one per sector, so `MaxAppends + 2 < GenMod`. With each of the three other faults properties of the table fail
(section 5); power losses are no fault and always included. `LoopsFindWhatIsThere` says that every
boot finds all undrained records on flash, for which the arc of the sectors (`RingOK`) is needed:
it is what a torn generation breaks.

The refinement is `LogIsStoreAndForward`: with no failing flash
operation the log implements `StoreAndForward` (`IsStoreAndForward`). The queue is the sorted sequence of the stored
captures; the first lemmas are about such sequences (`SortsIs`: there is only one; `SortsMore`,
`SortsBoth`, `Splits`: what is added behind, put together, or taken off the front). `WalkIds` and
`FirstOfQueue` join them to the ring: the order of the walk is the order of the numbers, so the
batch is the front of the queue. Then there is one lemma per action: `AppendQueue` (an eviction
takes a front of the queue, the append adds behind), `MarkQueue` (a mark removes the batch handed
out and nothing else), `EraseQueue`, `AppendCutStep`, `MarkCutStep` (a power loss leaves a prefix
of the effect), and `QueueStep` for the step as a whole.

The last part is about the two record loops, which are recursive functions on the number of the
turn: that such a function exists is proved from the least number of turns for which there would
be none (`PeekRunExists`, `ScanRunExists`), and an invariant of the loop in the same way. Of the
collection loop (`PeekInv`): what is pending is in the batch or ahead of the cursor, what was
discarded is missing from every counter, the batch comes before the rest on the walk, and every
turn brings the cursor further along a walk of bounded length, so the loop ends. `PeekResult` then
gives `PeekDiscardsCleanly` for every set of records that do not decode, and, where all decode,
`PeekAgrees`. Of the boot scan (`ScanInv`): after `n` visits the counters count the records met
(`Met`), and the oldest position is the first of them; the visits number the slots of the occupied
sectors in the order of the walk (`VisitIs`, `PlaceIs`). `RangesOK` is what `LogInv` lacks for
`TypeOK`: the generation words, also of sectors that lost their header, the captures of the stored
records, and the history; with it neither the generation nor the pending count wraps.

**`EspTx_proofs`**, for any record sizes, batch sizes, queue, sequence limit and number of captures
and replies. `TxInv` is stated over the state of a running handler, as the operators of the module
are, so that each operator has lemmas on what it keeps. `OnTheWire`: the writes in the air
are consecutive fragments that end where the current record stands; `OneBatch`: of the record
being sent and those queued at most one goes on with the drain, and it carries the batch in
flight; outside the window of an unanswered last write, at most one write is in the air
(`Alone`) and a batch in flight is on its way (`FollowedUp`). `WholeAndInOrder` proves
`PipelineInOrder` without a condition, `NoBatchIsSkipped` proves `DrainInTurn`.

The second part of the module is about HeltecBoard, the other firmware with such a pipeline. Its
state and properties come from HeltecState, its steps from the instance `H` of HeltecBoard. For any
number of connections, commands, fragments and batches, any queue, sequence limit and set of
timings, `HeltecHeardIsTrue` proves `HeardIsTrue` and `HeltecNeverStuck` proves `NeverStuck`, under
`HeltecAssumption` alone. Their invariant `HeltecInv` follows a record from the call that makes it,
through the queue and the wire, to the Flipper, on a link that may break at any write:

* `TurnInv`: the numbers the Flipper has heard, those of the records on the wire and that of the
  record being cut go on from each other up to the next to be given, and a record is cut to its end
  before the next begins. "In turn" of `HeardIsTrue` is its first part, which is not inductive
  without the others: what is heard next is what is on the wire;
* `StageInv` and `HandInv`: what the pipeline can hold at each step of a handshake; `hello` and
  `client_auth` follow each other on the wire, and the continuation that makes the session active
  waits for the last write of the second;
* `TagInv`: `pair_complete` exists, queued, on the wire or heard, only while the secret of its
  ceremony is the stored one, and a batch only in the connection its scan was asked for in (`Fine`);
* `ScanInv` with `Once`: a busy scan between its batches has exactly one place that goes on with it
  (the record being cut or one queued record), unless the timing was raced that breaks the chain.
  That it is not two makes the invariant inductive: when the one has gone on, no other is left
  behind a scan that has ended. `NeverStuck` needs that it is at least one;
* `Fed`: what waits for a completion (a fragment, a queued record, a continuation) has a write on
  the wire whose answer brings it, or the connection is being closed.

The lemmas say first what each operator of the pipeline (`Write`, `Load`, `Send`, `Closed`,
`StartNext`) makes of these parts (`TurnLoad`, `WriteIs`, `SendIs`, ...), then, one lemma per
action, that the steps keep them. What a completion starts is taken apart by the continuation
(`TakenComplete`, `TakenAuthenticated`, `TakenBatch`, ...).

**`Session_proofs`**, for any number of secrets, sessions, faults and records under way, and for a
main thread of the Flipper that is late with its reset, too (`LateReset`), except where said.
`SessionInvariant` is the invariant `SessionInv`, `OnlyForgettingSeparates` proves
`OnlyForgottenSecretsDiffer` and `FailedLoginsAreAnswered` the action property `FailuresAreAnswered`, none
under an assumption beyond the constants' types. The handlers of the model are chains of operators,
so the proof has two layers. The first says what each handler does at most: `Calm` (nothing the
invariant speaks of), `Quiet` (one step of a dialogue, or a verdict on it for a record that gives
one) and `Ended` (a secret is stored) on the ESP32, `Told` (nothing is written that is not so) and
`Saved` on the Flipper; `CalmThenQuiet` and `QuietThenCalm` put chains together. The second says
that steps which do no more keep `SessionInv`. That the two devices disagree only after one of them forgot the secret
is not inductive: the ESP32 stores a secret before it tells the Flipper so, whose `pair_complete` may
come late, in another connection's time or never. `CompleteInv` says that one that is under way
carries the secret the ESP32 still has and finds it in no other ceremony; `WindowInv` that a
ceremony that can end in a new secret runs only while the Flipper has no record, after an erase, or
after the Flipper could not read the one it has; `UnknownInv` that "unknown board" comes only of a
Flipper without a record or with one it could not read (`unread`), which is why the window it
opens separates nobody who has not forgotten. `StepInv` and `LinkInv` say which verdict a dialogue may end in and that
nothing outlives the link but what the Flipper's worker has in hand.

Three more theorems are about the session. `TypesAreKept` is `TypeOK`, in which only the
counter of the backlog is not a matter of kinds: `BooksInv` says that of the batch queued, the one on
its way and the mark that one is in flight each stands for the same capture, so the answer to a
batch finds a capture to take off the log. `EndsStayInAgreement` proves `EndsAgree` and
`WhatIsDrainedIsAccepted` the action property `DrainedIsAccepted`; both assume `~ LateReset`,
without which they are false (section 5). Their invariant `DialogueInv` takes a dialogue through
its four states, by what is on its way: `HelloOut`, `HelloGone` (an answer may be), `AuthOut`
(`client_auth` is, perhaps with records behind it) and `AuthGone`. With a link that is up and not
being closed the records on their way to the Flipper are then all those from its counter to the
board's, under the board's session and key (`Whole`); in every case those that are left have rising
numbers between the two (`Climbs`). That needs the main thread to have nothing to reset behind
`client_auth` (`Steady`, from `ConnectingInv`), and that no command is sent in a session before
the Flipper has opened it (`Unopened`). The steps of the ESP32 come down to five shapes
(`BoardServes`), one lemma each; `SentInv` adds that a record of a session is under way on a live
link only within a dialogue.

**`FlipperApp_proofs`**, for any depth of the queue, any number of commands, sessions and records
under way, and any set of timings. `AppInvariant` is the invariant `AppInv`; from it
`SendsStayInStep` proves `SendsInStep`, `ScreensStayTrue` `ScreensAreTrue` and `AnswersAreMatched`
`AnswersFindTheirCommand`, with no assumption beyond the constants' types; every part of the
invariant excludes only the timings its property excludes. The proof has two layers. The first
turns the actions into thirteen shapes that say what a step does to what the invariant speaks of
(`Sent`, `Transmitting`, `Handling`, `Reading`, `Accepting`, `Saying`, ...; `NextIs`). The second
shows for each part of the invariant that no shape breaks it:

* `StreamInv`, the numbers under way are those between the board's and the Flipper's, rests on
  `OneSender` (the shared buffer is that of the thread that sends) and on `ResetInv`: the main
  thread has seen the end of a session before the next is up, unless an event was lost, so no
  command is encoded for a session that is gone;
* `Owing` follows a command by its number through buffer, link, board and answers: it is in one of
  these places, and nothing comes behind its last answer. `OneOwed`, `Fitting` and `BufMine` say
  what the slot and the buffer have to do with it while commands do not cross;
* `AwaitInv` strengthens `ScanIsAwaited`: of the command that has the slot, by its number, the end
  is still to come; `ListInv` says that rows on a screen, in the queue and to come are of one scan;
* `Words` is what makes `RunStateAgrees` inductive: there is a sequence of run states, from the one
  the queue leads to (`EvSays`) over the one each reply tells to the one the engine is in. A reply
  may leave it only where the board changed it; an error repeats it, but for the first record of
  an engine that stops itself, which the second puts right (`Corrected`).

**Only model-checked:**

* liveness (`EveryCaptureLeaves`, `StableLinkDrains`, `Recovers`, `ScansEnd`, `ScanEnds`,
  `ResultsEnd`), which is out of the prover's reach;
* the codecs, whose operators are `RECURSIVE`;
* `TypeOK` of the capture modules.

The log with torn generations, failing marks and evictions under a batch is neither: there its
properties fail, and TLC shows how (section 5).

## 5. Where code and text disagree

With a run (the entry under `findings` quotes the text):

1. `wifi_scan_send_next_batch` keeps 32 bytes for the record around a result (`main.c:1469`), but
   that takes 35 and more. Six access points of 79 bytes make a result of 480 and a payload of 515
   bytes, more than the 512 of a payload: the encoder gives up, and so does the scan, whose
   connection is closed. `docs/PROTOCOL.md:199` says that each record is sized to fit, and the
   comment at `main.c:120-124` calls the 32 bytes a generous margin. `heltec/main/main.c:80` and `83`
   keep the same 32 bytes and fail in the same way.

Seen in the models; the third column is how to see it (a change of a run's cfg):

| where | what happens | shown by |
|---|---|---|
| `wardriving_log.c:490` | captures appended between `peek_pending` and `mark_drained` evict the peeked sector; `mark_drained` then clears flags in the sector that replaced it | `wardriving_faults.cfg`, `Faults = {"evict_in_flight"}`: `NoSilentLoss` |
| `wardriving_record_format.c:62` | a header cut behind its magic word has generation 0xFFFFFFFF, and the next one wraps to 0. The boot scan (`wardriving_log.c:305-347`) then takes the sector behind the cut one for the oldest and walks as many as are in use: a cut sector that is not next to the start is not visited. Captures acknowledged in it are not counted, not sent, and later erased by a roll that does not take the sector for the oldest and logs no eviction (line 158), against the comment at lines 297-300 | `wardriving_faults.cfg` with `SlotsPerSector = 1`, `MaxBatch = 1`, `MaxAppends = 9`, `Faults = {"torn_generation"}`: `LoopsAgree` and `NoSilentLoss`; `EvictsOldest` as well |
| `wardriving_log.c:521-528` | a record whose flag write fails is stranded until the next boot, where the message at line 509 says it "will be resent" | `wardriving_log.cfg`, `Faults = {"mark_error"}`: `NothingStranded` |
| `main.c:1140` | a record started while the last write of another is unanswered lets the drain mark captures too early, against the comment at `main.c:2396-2403` | `esp_tx.cfg` with `DrainedIsConfirmed` for `DrainInTurn` |
| `main.c:1870` | a connection lost during a manual BLE scan: the scan's callout cancels the search | `scan_arbiter.cfg`, `Races = {"drop_in_window"}`: `KeepsLookingForPeer` |
| `main.c:2107` | the button, or too many flash failures, stop wardriving while no client is connected; the discovery it shared with the search is cancelled and not resumed | `"stop_while_down"`: `KeepsLookingForPeer` |
| `main.c:714` | NimBLE refuses `ble_gap_disc`; the error is logged and nothing retries | `"disc_error"`: `KeepsLookingForPeer` |
| `main.c:3352` | a disconnect between two batches clears `tx_done_action`; the flag is then cleared by nobody, although the comment at `main.c:3366` says "uniformly" | `"drop_mid_chain"`: `BusyIsReleased` |
| `main.c:2091` | a Wi-Fi scan asked for right after wardriving was stopped gets the stopped scan's results | `"stale_scan_done"`: `AnswersOwnScan` |
| `main.c:1610` | a BLE scan asked for in the window of a stopped pass, which the driver refuses: the callout of that window answers it all the same, and its results go on beside a later start | `"stale_scan_done"`: `WardrivingIsWhole`, `DutyCycleAlive` |
| `main.c:1419` | a client authenticates before the scan of the lost connection has ended, and gets its results | `"fast_reconnect"`: `AnswersLiveRequest` |
| `flipper_esp32_over_ble.c:5130-5133` | the main thread resets the session when it handles the event of a connection; if the worker was faster, an active session is wiped, against the comment at line 1515 | `session.cfg`, `LateReset = TRUE`: `BothEndsAgree` |
| `flipper_esp32_over_ble.c:2580` | a start refused because a manual scan runs is taken for "already running", and the screen says so | `flipper_app.cfg`, `MaxCommands = 3`, `MaxSessions = 1`, `MaxUnasked = 0`: `BusyMeansRunning` |

The timings of FlipperApp; removing one from a property's `But` shows the violation:

| timing | what happens | properties |
|---|---|---|
| `two_senders` | the comment at `flipper_esp32_over_ble.c:2644-2655` derives that the threads never send at once from `capability_has_wifi_scan` becoming true only after the worker's own query. The flag stays true over a reconnection, a cached capability record sets it without a query, and the worker asks for the status behind it: both encode with one number in one buffer, and the board closes the session | `InStep` |
| `overflow` | an event is dropped: a scan stays on the screen, a run state is wrong, a reset is missed | `InStep`, `RunStateAgrees`, `ScanIsAwaited` |
| `crossed` | a second command takes the slot of one that is unanswered; the first one's answers go to the second's screen | `RunStateAgrees` (three commands), `ListIsOneScan`, `ScanIsAwaited`, `ErrorFindsItsCommand` |
| `unsolicited` | the engine stops itself while a scan is unanswered; its record clears the slot | `ScanIsAwaited` |
| `drain_stopped` | a batch of the backlog comes while nothing is captured; the screen takes it for running | `RunStateAgrees` |
| `button` | the engine is switched at the board, which tells nobody | `RunStateAgrees` |
| `late_keys` | a scan is asked for with rows of the one before in the queue, which then join its list | `ListIsOneScan` |
| `reset_on_gps` | the session changes while the GPS screen is open; its timer stops, the screen stays | `GpsScreenIsFed` |

Those of HeltecBoard: `drop_mid_chain` and `send_in_window` defeat `BusyIsReleased`,
`fast_reconnect` `ResultsReachTheirClient`, `drop_in_window` and `disc_error` (a refused
`ble_gap_disc`, `heltec/main/main.c:454-457`) `KeepsLooking`, in the same ways as on the ESP32
board, whose code they share.

Further observations:

* A pairing record that cannot be read once (`flipper_esp32_over_ble.c:930-955`) counts as none: the
  Flipper answers "unknown board", a window opens, and the board replaces its secret
  (`main.c:2998`). If the Flipper's save or `pair_complete` is lost then, its old record and the
  board's new secret differ, with nobody having erased anything.
* A Wi-Fi driver that fails to hand over its list (`main.c:1275-1281`) is answered as a complete scan
  without networks, not as an error.
* `pairing_storage_save` removes the old record before it renames the new one
  (`flipper_esp32_over_ble.c:920-921`): if the rename fails both are gone, although the comment at
  line 892 calls the save atomic.
* The timing of `main.c:1140` the other way round: a reply overwrites the armed continuation of a
  batch (`main.c:1082`), `wardriving_tx_in_flight` stays true, and the backlog is not sent until the
  link drops. The comment at `main.c:395-400` says of a held back kick that nothing is lost.
* The boot scan subtracts a discarded record from counts it was not added to
  (`wardriving_log.c:135`, `332`).
* The two copies of the codec accept different records in three places: the Flipper takes any item
  for the arguments of a command and for the result of a status (`FlipperIsLooser`), the board
  takes wardriving parameters in combinations, and with bytes behind them, that the Flipper
  refuses (`BoardIsLooser`). The comment at `flipper/cbor_records.c:686-688` wants them identical.
  Both cut `version` to 32 bits before they compare it.
* The count of flash failures is reset by a sighting that was filtered and is not reset at a start
  (`main.c:1399`; the comment at `main.c:158-163` speaks of consecutive failures).
* An unplugged GPS keeps the state of its last fix: `location.c` has no timeout, where
  `docs/PLAN.md:342` says that logging pauses.
* A header or row of the CSV file that was cut by a power loss is appended to at the next start
  (`flipper_esp32_over_ble.c:2372`, `2422`).
* A batch that the ATT layer has confirmed is lost if the application ends before it handles it.
* A start of wardriving with `ble_passive` alone starts nothing and is answered as started
  (`main.c:2144` tests `want_ble`); `docs/WARDRIVING_REDESIGN.md` lists `ble_passive` as known to
  be broken.

## 6. What is not modelled, and why

* Cryptography, byte layouts, CRCs, NVS and GATT discovery of the ESP32: abstracted, or external.
* Settings (`wardriving_persist.c`, `wardriving_validate.c`): one blob that is read at boot and
  written at a start, and comparisons with limits; no interleaving of its own. The start, its
  roll-back and the autostart are in ScanArbiter.
* GPS: `nmea_parser.c` is the parsing of text, `location.c` hands its result over under a lock. What
  `location_get_fix` answers is a free choice in Capture.
* Battery, LED, display, logging: no control state the properties depend on.
* The factory reset's gesture: debouncing in one polling loop. What it does is in Session, its short
  press in ScanArbiter.
* Of the Flipper application: drawing, scrolling, the wizard's and the publish screens, sounds. Of
  the export: the text of a row, the header, and the index file that the publish screen reads.
* Records that do not decode, in Session: what decoders refuse is Codec's; a record that is refused
  ends a ceremony like a wrong one.
* `coex_test`, `gps_antenna_test`, scripts and tools: stand-alone programs.
* In `ScanArbiter`: what a refused or malformed command answers, the length of backoffs, and the
  failure of `queue_and_send_protected` beyond "the batch could not be sent"; the pipeline has
  its own module.

## 7. Plan

The components that carry the program's logic are modelled. What is left is proof:

1. An abstract specification of Session (two parties that have a common secret and session, or
   none) with its refinement.
2. The type invariants of the capture modules, and Premises of the flash log without the bound on
   the generation, where the order of the sectors has to survive a wrap.

New modules bring runs that hold; where the number of runs has to stay small, properties of one
kind are joined, and a disagreement is listed in section 5 with the change that shows it.

## 8. Running it

In this directory, with the TLA+ tools and the community modules on the path:

    tlc -config scan_arbiter.cfg ScanArbiter.tla     # a run: the module and cfg of PROJECT.json
    tlapm ScanArbiter_proofs.tla                     # the proofs of a module

`mutants` in `PROJECT.json` names, for each checked property, a plausible bug of the code (an
operator marked *Mutant* in the module) under which TLC finds the property violated.
