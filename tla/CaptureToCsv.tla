---------------------------- MODULE CaptureToCsv -----------------------------
(***************************************************************************)
(* Board and Flipper together: the drain delivers the oldest records of    *)
(* the log in batches and gives a batch up once it is confirmed; a         *)
(* connection that is lost before delivers it again.  Both sides filter    *)
(* what they take for repetitions, each against its own memory, and each   *)
(* can lose its memory without the other.                                  *)
(***************************************************************************)
EXTENDS Export

CONSTANTS
    MaxBatch,       \* FEB_WARDRIVING_MAX_RECORDS_PER_BATCH
    MaxExported,    \* bound: sightings when the Flipper is about
    MaxEvents       \* bound: disconnects, restarts, crashes, stops and closes

ASSUME BoundsAssumption ==
    /\ MaxBatch \in Nat \ {0} /\ MaxEvents \in Nat
    /\ MaxExported \in 0..MaxSightings

VARIABLES
    about,          \* whether there is a Flipper at all
    sent,           \* wardriving_pending_drain_count
    events          \* bound

vars == <<boardVars, exportVars, about, sent, events>>

TypeOK ==
    /\ BoardTypeOK /\ ExportTypeOK
    /\ about \in BOOLEAN /\ sent \in 0..MaxBatch /\ sent <= Len(pending)
    /\ events \in 0..MaxEvents

Init == /\ BoardInit /\ ExportInit
        /\ about \in BOOLEAN /\ left = (IF about THEN MaxExported ELSE MaxSightings)
        /\ sent = 0 /\ events = 0

(* wardriving_send_next_batch and the writes it leads to, which one task   *)
(* of the board takes between two passes.                                  *)
Deliver(n) ==
    /\ about /\ ~InLoop
    /\ sent = 0
    /\ n <= Len(pending)
    /\ batch' = batch \o SubSeq(pending, 1, n)
    /\ sent' = n
    /\ UNCHANGED <<boardVars, known, cursor, opened, failed, unsynced, rows, safe, first,
                   evicted, excused, about, events>>

(* The Flipper's BLE stack confirms the last write, which its application  *)
(* may still be working on.                                                *)
Drain ==
    /\ sent > 0 /\ ~InLoop
    /\ pending' = SubSeq(pending, sent + 1, Len(pending))
    /\ sent' = 0
    /\ UNCHANGED <<running, pass, table, failures, history, exportVars,
                   about, events>>

Event == events < MaxEvents /\ events' = events + 1 /\ UNCHANGED about

Disconnect == /\ Event /\ sent > 0 /\ sent' = 0
              /\ UNCHANGED <<boardVars, exportVars>>

Board == /\ BoardNext
         /\ UNCHANGED <<exportVars, about, sent, events>>

Flipper == /\ \/ (Withhold \/ Write \/ WriteFails \/ DropWrite) /\ UNCHANGED <<about, events>>
              \/ Event /\ (Close \/ Stopped \/ ExportCrash)
           /\ UNCHANGED <<boardVars, sent>>

Restart == /\ Event /\ Reboot /\ sent' = 0
           /\ UNCHANGED exportVars

Next == Board \/ Flipper \/ Restart \/ Disconnect \/ Drain \/ \E n \in 1..MaxBatch : Deliver(n)

Spec == Init /\ [][Next]_vars

-----------------------------------------------------------------------------
(* What a record says of a sighting that both sides took for a repetition: *)
(* at most 10 dB weaker, and less than twice 30 m away.                    *)
StandsFor(record, seen) ==
    /\ seen.address = record.address
    /\ seen.rssi < record.rssi + 2 * Gain - 1
    /\ Apart(seen.place, record.place) < Distance + ExportDistance - 1

(* What the user is owed: every sighting that was not refused by the flash *)
(* is in the log, on its way, or stands in the CSV file with a row like    *)
(* it, unless the user was shown that the export fails or the Flipper lost *)
(* its power with rows unsynced.  Neither filter hides what the other has  *)
(* forgotten.                                                              *)
NothingMissing ==
    \A seen \in logged \cup filtered :
        \E record \in Range(pending) \cup Range(batch) \cup Range(rows) \cup excused :
            StandsFor(record, seen)

(* Both filters remember the last they let through, and let through only   *)
(* what says more than it (find_slot, feb_wardriving_dedup_should_write).  *)
FiltersAreSound == TypeOK /\ RemembersTheLast /\ RowsSayMore

(* The file has what the filter says was written, and keeps it but for the *)
(* rows a sync is still owed (wardriving_csv_write_record).                *)
FileIsSound == KnownIsWritten /\ CrashTakesFew
=============================================================================
