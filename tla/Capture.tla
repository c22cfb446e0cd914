------------------------------- MODULE Capture -------------------------------
(***************************************************************************)
(* From a pass over the air to a record in the flash log: the table that   *)
(* filters what was logged already, and the count of failures that ends    *)
(* wardriving.  The Wi-Fi and the BLE source have a table each and share   *)
(* the rest; one of them is modelled.  Which source runs when is           *)
(* ScanArbiter's, and the log itself WardrivingLog's: here it is a queue.  *)
(***************************************************************************)
EXTENDS Naturals, Sequences, FiniteSets, SequencesExt, FiniteSetsExt, Functions

CONSTANTS
    NumAddresses, Slots,    \* addresses on the air, and places in the table
    Strengths, Places,      \* rssi_offset, and positions on a line
    Gain, Distance,         \* 6 dB, 2700 e7 units
    FailureLimit,           \* FEB_WARDRIVING_FLASH_FAILURE_LIMIT
    MaxSightings, MaxPass,  \* bounds: all sightings, and those of a pass
    Faults                  \* of "append_error", "write_error"

ASSUME CaptureAssumption ==
    /\ NumAddresses \in Nat \ {0} /\ Slots \in Nat \ {0} /\ FailureLimit \in Nat \ {0}
    /\ Gain \in Nat \ {0} /\ Distance \in Nat \ {0} /\ MaxSightings \in Nat
    /\ Strengths \subseteq Nat /\ Places \subseteq Nat /\ 0 \in Places
    /\ Faults \subseteq {"append_error", "write_error"}

VARIABLES
    running,        \* wardriving_wifi_active or wardriving_ble_active
    pass,           \* a pass: on the air, or the loop over its results with the fix it took
    table,          \* wifi_table or ble_table: its slots in use
    failures,       \* wardriving_flash_failure_count
    pending,        \* the flash log: records that are not drained
    logged,         \* history: every record ever logged
    filtered,       \* history: every sighting the table filtered
    recent,         \* history: address to the record logged last since the boot
    crowded,        \* history: the table has been full
    left            \* bound: sightings to come

history  == <<logged, filtered, recent, crowded, left>>
boardVars == <<running, pass, table, failures, pending, history>>

Addresses == 0 .. NumAddresses-1
Record    == [address : Addresses, rssi : Strengths, place : Places]
NoPass    == [step |-> "none", place |-> 0, seen |-> {}]
InLoop    == pass.step = "loop"
None      == [x \in {} |-> 0]
With(f, key, value) == [x \in DOMAIN f \cup {key} |-> IF x = key THEN value ELSE f[x]]

BoardTypeOK ==
    /\ running \in BOOLEAN /\ crowded \in BOOLEAN
    /\ pass \in [step : {"none", "air", "loop"}, place : Places, seen : SUBSET Addresses]
    /\ DOMAIN table \subseteq 0..Slots-1 /\ Range(table) \subseteq Record
    /\ failures \in 0..FailureLimit
    /\ pending \in Seq(Record)
    /\ logged \subseteq Record /\ filtered \subseteq Record
    /\ DOMAIN recent \subseteq Addresses /\ Range(recent) \subseteq logged
    /\ left \in 0..MaxSightings

BoardInit ==
    /\ running = FALSE /\ pass = NoPass /\ table = None /\ failures = 0
    /\ pending = <<>>
    /\ logged = {} /\ filtered = {} /\ recent = None /\ crowded = FALSE

-----------------------------------------------------------------------------
(* find_slot: from its hash on, the first slot that is free or holds the   *)
(* address; in a full table without it, the first of all.                  *)
Slot(address, i) == (address + i) % Slots

\* Mutant of FindSlot: addresses that collide share a slot.
HashSlot(address) == Slot(address, 0)
FindSlot(address) ==
    LET stops == {i \in 0..Slots-1 : \/ Slot(address, i) \notin DOMAIN table
                                     \/ table[Slot(address, i)].address = address}
    IN  Slot(address, IF stops = {} THEN 0 ELSE Min(stops))

Existing(address) ==
    /\ FindSlot(address) \in DOMAIN table
    /\ table[FindSlot(address)].address = address

Apart(p, q) == IF p > q THEN p - q ELSE q - p

(* What the filters of both sides take for the same sighting again, each  *)
(* by its own measure of distance.                                         *)
Repeats(seen, known, distance) ==
    /\ seen.address = known.address
    /\ seen.rssi < known.rssi + Gain
    /\ Apart(seen.place, known.place) < distance

(* should_log_record.                                                      *)
ShouldLog(seen) ==
    Existing(seen.address) => ~Repeats(seen, table[FindSlot(seen.address)], Distance)

Remembered(seen) == With(table, FindSlot(seen.address), seen)

\* Mutant of AfterFailure: the table is updated before the append.
RemembersAnyway(seen) == Remembered(seen)
AfterFailure(seen) == table

(* A pass begins while wardriving runs, and its results may arrive after   *)
(* it was stopped.                                                         *)
BeginPass ==
    /\ running /\ pass.step = "none" /\ left > 0
    /\ pass' = [NoPass EXCEPT !.step = "air"]
    /\ UNCHANGED <<running, table, failures, pending, history>>

(* wifi_scan_done_cb, ble_scan_window_close_cb: the fix that               *)
(* location_get_fix answers now serves the whole loop; without one every   *)
(* result is discarded.                                                    *)
EnterLoop(place) ==
    /\ pass.step = "air"
    /\ pass' = [step |-> "loop", place |-> place, seen |-> {}]
    /\ UNCHANGED <<running, table, failures, pending, history>>

DiscardPass ==
    /\ pass.step = "air" /\ pass' = NoPass
    /\ UNCHANGED <<running, table, failures, pending, history>>

LeaveLoop ==
    /\ InLoop /\ pass' = NoPass
    /\ UNCHANGED <<running, table, failures, pending, history>>

(* One result of the loop; a pass has each address once.                   *)
Sighted(seen) ==
    /\ InLoop /\ seen.place = pass.place
    /\ seen.address \notin pass.seen /\ Cardinality(pass.seen) < MaxPass
    /\ left > 0 /\ left' = left - 1

SeenNow(seen) == pass' = [pass EXCEPT !.seen = @ \cup {seen.address}]

(* wardriving_dedup_and_maybe_append and what the loop does with its       *)
(* answer.  A sighting that is filtered counts as a success.               *)
Filter(seen) ==
    /\ Sighted(seen) /\ SeenNow(seen)
    /\ ~ShouldLog(seen)
    /\ filtered' = filtered \cup {seen}
    /\ failures' = 0
    /\ UNCHANGED <<running, table, pending, logged, recent, crowded>>

Log(seen) ==
    /\ Sighted(seen) /\ SeenNow(seen)
    /\ ShouldLog(seen)
    /\ pending' = Append(pending, seen)
    /\ logged' = logged \cup {seen}
    /\ recent' = With(recent, seen.address, seen)
    /\ crowded' = (crowded \/ Cardinality(DOMAIN table) = Slots)
    /\ table' = Remembered(seen)
    /\ failures' = 0
    /\ UNCHANGED <<running, filtered>>

AppendFails(seen) ==
    /\ "append_error" \in Faults
    /\ Sighted(seen)
    /\ ShouldLog(seen)
    /\ table' = AfterFailure(seen)
    /\ failures' = IF failures < FailureLimit THEN failures + 1 ELSE failures
    /\ IF failures' >= FailureLimit
       THEN running' = FALSE /\ pass' = NoPass      \* wardriving_self_stop
       ELSE SeenNow(seen) /\ UNCHANGED running
    /\ UNCHANGED <<pending, logged, filtered, recent, crowded>>

(* wardriving_start_internal, wardriving_stop_internal: neither the table  *)
(* nor the count of failures is reset; the scan that is under way is       *)
(* stopped, or its results were on their way already.                      *)
Start ==
    /\ ~running /\ ~InLoop /\ running' = TRUE
    /\ UNCHANGED <<pass, table, failures, pending, history>>

Stop ==
    /\ running /\ ~InLoop /\ running' = FALSE
    /\ pass' \in {pass, NoPass}
    /\ UNCHANGED <<table, failures, pending, history>>

(* Power is lost: all but the log starts over, and wardriving as it was    *)
(* configured.                                                             *)
Reboot ==
    /\ running' \in BOOLEAN
    /\ pass' = NoPass /\ table' = None /\ failures' = 0
    /\ recent' = None /\ crowded' = FALSE
    /\ UNCHANGED <<pending, logged, filtered, left>>

BoardNext ==
    \/ BeginPass \/ DiscardPass \/ LeaveLoop
    \/ \E place \in Places : EnterLoop(place)
    \/ \E seen \in Record : Filter(seen) \/ Log(seen) \/ AppendFails(seen)
    \/ Start \/ Stop

-----------------------------------------------------------------------------
(* Nothing is filtered that is not in the log: a sighting that is left out *)
(* has a record of its address, less than 6 dB weaker and less than 30 m   *)
(* away, through collisions in the table, evictions from it, appends that  *)
(* fail, passes that outlive a stop, and restarts.                         *)
FilteredIsLogged ==
    \A seen \in filtered : \E record \in logged : Repeats(seen, record, Distance)

(* The table holds each address once, with the record logged last, and     *)
(* until it has been full it finds every address logged since the boot,    *)
(* whatever their hashes: only then is an address logged again for nothing.*)
RemembersTheLast ==
    /\ \A i, j \in DOMAIN table : table[i].address = table[j].address => i = j
    /\ Range(table) \subseteq Range(recent)
    /\ ~crowded => \A address \in DOMAIN recent :
                      Existing(address) /\ table[FindSlot(address)] = recent[address]
=============================================================================
