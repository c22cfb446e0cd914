------------------------------- MODULE Export --------------------------------
(***************************************************************************)
(* The wardriving export of the Flipper: the records of a "data" status    *)
(* pass the table of what was written and are appended to the CSV file,    *)
(* on the thread of the BLE stack.  The application's main thread closes   *)
(* the file when a session ends, at a time of its own, also between two    *)
(* records of a batch.                                                     *)
(***************************************************************************)
EXTENDS Capture

CONSTANTS
    ExportDistance, \* FEB_WARDRIVING_DEDUP_MOVE_METERS, as the crow flies
    ExportSlots,    \* FEB_WARDRIVING_DEDUP_WIFI_CAPACITY
    SyncEvery       \* FEB_WARDRIVING_CSV_SYNC_EVERY_N_RECORDS

ASSUME ExportAssumption == {ExportDistance, ExportSlots, SyncEvery} \subseteq Nat \ {0}

VARIABLES
    batch,          \* the records of the status that are still to be handled
    known,          \* wardriving_dedup_table: its entries in use
    cursor,         \* next_evict_index
    opened,         \* wardriving_csv_file
    failed,         \* wardriving_csv_write_failed
    unsynced,       \* wardriving_csv_records_since_sync
    rows,           \* the rows of the CSV file
    safe,           \* history: how many of them are on the card
    first,          \* history: the first row of the open file's session
    evicted,        \* history: the table gave up an entry in this session
    excused         \* history: records the user was told of, or a crash took

exportVars == <<batch, known, cursor, opened, failed, unsynced, rows, safe, first, evicted, excused>>

ExportTypeOK ==
    /\ batch \in Seq(Record) /\ rows \in Seq(Record)
    /\ DOMAIN known \subseteq 0..ExportSlots-1 /\ Range(known) \subseteq Record
    /\ cursor \in 0..ExportSlots-1
    /\ opened \in BOOLEAN /\ failed \in BOOLEAN /\ evicted \in BOOLEAN
    /\ unsynced \in 0..SyncEvery-1
    /\ safe \in 0..Len(rows) /\ first \in 1..Len(rows)+1
    /\ excused \subseteq Record

\* wardriving_csv_reset_state
\* Mutant of ResetState: the table outlives the session.
KeepsTable ==
    /\ unsynced' = 0 /\ failed' = FALSE
    /\ UNCHANGED <<known, cursor, evicted>>
ResetState ==
    /\ unsynced' = 0 /\ failed' = FALSE
    /\ known' = None /\ cursor' = 0
    /\ evicted' = FALSE

ExportInit ==
    /\ batch = <<>> /\ known = None /\ cursor = 0
    /\ opened = FALSE /\ failed = FALSE /\ unsynced = 0
    /\ rows = <<>> /\ safe = 0 /\ first = 1
    /\ evicted = FALSE /\ excused = {}

-----------------------------------------------------------------------------
(* wardriving_dedup_table_should_write: an address that is known is        *)
(* written when it is stronger or has moved; another takes the next place  *)
(* of the ring.                                                            *)
Held(record) == {i \in DOMAIN known : known[i].address = record.address}

Updated(record) ==
    IF Held(record) # {} THEN [known EXCEPT ![Min(Held(record))] = record]
                            ELSE With(known, cursor, record)

\* Mutant of ShouldWrite: an address is written once.
WritesOnce(record)  == Held(record) = {}
ShouldWrite(record) == \A i \in Held(record) : ~Repeats(record, known[i], ExportDistance)

NextPlace == (cursor + 1) % ExportSlots

Taken(record) ==
    /\ known' = Updated(record)
    /\ cursor' = IF Held(record) # {} THEN cursor ELSE NextPlace
    /\ evicted' = (evicted \/ (Held(record) = {} /\ cursor \in DOMAIN known))

(* One record of handle_wardriving_status' "data" branch, under            *)
(* wardriving_state_mutex.                                                 *)
Withhold ==
    /\ batch # <<>> /\ ~ShouldWrite(Head(batch))
    /\ batch' = Tail(batch)
    /\ UNCHANGED <<known, cursor, opened, failed, unsynced, rows, safe, first, evicted, excused>>

(* wardriving_csv_write_record: every so many rows the file is synced.     *)
SyncIsDue == unsynced + 1 >= SyncEvery

Write ==
    /\ batch # <<>> /\ ShouldWrite(Head(batch)) /\ ~failed
    /\ Taken(Head(batch))
    /\ rows' = Append(rows, Head(batch))
    /\ opened' = TRUE
    /\ unsynced' = IF SyncIsDue THEN 0 ELSE unsynced + 1
    /\ safe' = IF SyncIsDue THEN Len(rows') ELSE safe
    /\ batch' = Tail(batch)
    /\ UNCHANGED <<failed, first, excused>>

(* The file cannot be opened or written: the error is shown, and nothing   *)
(* more is written this session.                                           *)
WriteFails ==
    /\ "write_error" \in Faults
    /\ batch # <<>> /\ ShouldWrite(Head(batch)) /\ ~failed
    /\ Taken(Head(batch))
    /\ failed' = TRUE
    /\ opened' \in {opened, TRUE}
    /\ excused' = excused \cup {Head(batch)}
    /\ batch' = Tail(batch)
    /\ UNCHANGED <<unsynced, rows, safe, first>>

DropWrite ==
    /\ batch # <<>> /\ ShouldWrite(Head(batch)) /\ failed
    /\ Taken(Head(batch))
    /\ excused' = excused \cup {Head(batch)}
    /\ batch' = Tail(batch)
    /\ UNCHANGED <<opened, failed, unsynced, rows, safe, first>>

(* wardriving_csv_close, by the main thread or the BLE stack's.            *)
Close ==
    /\ opened \/ failed \/ known # None
    /\ opened' = FALSE
    /\ ResetState
    /\ safe' = IF opened THEN Len(rows) ELSE safe
    /\ first' = Len(rows) + 1
    /\ UNCHANGED <<batch, rows, excused>>

(* "stopped": synced, though the count of rows goes on.                    *)
Stopped ==
    /\ opened
    /\ safe' = Len(rows)
    /\ UNCHANGED <<batch, known, cursor, opened, failed, unsynced, rows, first, evicted, excused>>

(* The Flipper loses its power, or the application crashes.                *)
ExportCrash ==
    \E kept \in safe..Len(rows) :
        /\ rows' = SubSeq(rows, 1, kept) /\ safe' = kept /\ first' = kept + 1
        /\ excused' = excused \cup Range(batch) \cup
                      {record \in logged : \E i \in kept+1..Len(rows) :
                                               Repeats(record, rows[i], ExportDistance)}
        /\ batch' = <<>> /\ opened' = FALSE
        /\ ResetState

-----------------------------------------------------------------------------
\* Row i is the last of row j's address before it.
LastBefore(i, j) == \A k \in i+1 .. j-1 : rows[k].address # rows[j].address

(* A row says more than the last of its address in the session's file,     *)
(* unless the table had to give an entry up: it is at least 6 dB stronger  *)
(* or 30 m away, whatever is delivered twice, and however wardriving is    *)
(* stopped and started.                                                    *)
RowsSayMore ==
    ~evicted => \A i, j \in first..Len(rows) :
                    i < j /\ LastBefore(i, j) => ~Repeats(rows[j], rows[i], ExportDistance)

(* While the file can be written, an entry of the table withholds later    *)
(* records for a reason: the last row of its address in this session's     *)
(* part of the file says what the entry says, after writes that failed,    *)
(* files closed under a batch, and crashes.                                *)
KnownIsWritten ==
    ~failed => \A entry \in Range(known) :
                   LET mine == {i \in first..Len(rows) : rows[i].address = entry.address}
                   IN  mine # {} /\ rows[Max(mine)] = entry

(* A power loss of the Flipper takes less than SyncEvery rows, and none of *)
(* a file that was closed.                                                 *)
CrashTakesFew == Len(rows) - safe < SyncEvery /\ (~opened => safe = Len(rows))
=============================================================================
