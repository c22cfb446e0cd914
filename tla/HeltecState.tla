---------------------------- MODULE HeltecState -----------------------------
(***************************************************************************)
(* The parameters and the state of HeltecBoard, and what is to hold of     *)
(* them.  The steps are in HeltecBoard.  The two are apart because the     *)
(* proofs about HeltecBoard stand beside those about EspTx: they take the  *)
(* state from here and the steps from an instance of HeltecBoard.          *)
(*                                                                         *)
(* raced records which of the timings have happened that break a property: *)
(*   "drop_mid_chain"  the link is lost between two batches of results     *)
(*   "drop_in_window"  the link is lost while a BLE window is open         *)
(*   "send_in_window"  a record is started while the last write of another *)
(*                     one, which has a continuation, is unanswered        *)
(*   "fast_reconnect"  a client authenticates while a scan of the lost     *)
(*                     connection is not over                              *)
(*   "disc_error"      NimBLE refuses to start the search                  *)
(***************************************************************************)
EXTENDS Integers, Sequences

CONSTANTS
  MaxConnections,  \* bound: connections, with which ceremonies are numbered
  MaxCommands,     \* bound: records of an authenticated client
  MaxPieces,       \* bound: fragments of a record
  MaxBatches,      \* bound: batches of a scan's results
  MaxRaces,        \* bound: different timings of raced in one behaviour
  QueueDepth,      \* FEB_TX_PENDING_PROTECTED_COUNT
  MaxSequence      \* FEB_SESSION_SEQUENCE_MAX

ASSUME HeltecAssumption ==
  /\ MaxConnections \in Nat \ {0} /\ MaxCommands \in Nat /\ MaxPieces \in Nat \ {0}
  /\ MaxBatches \in Nat \ {0} /\ MaxRaces \in Nat /\ QueueDepth \in Nat \ {0}
  /\ MaxSequence \in Nat \ {0}

VARIABLES
  mode,       \* boot_mode: "runtime", or pairing with its window "open" or "closed"
  nvs,        \* the stored secret: the connection it was agreed in, 0: before, or NoSecret
  bleLink,    \* "none", "connecting", "up"
  conn,       \* connections so far
  setup,      \* how far the discovery of the service has come
  stage,      \* pairing_state and runtime_auth_state
  reason,     \* pending_disconnect_reason
  p,          \* the transmit pipeline, see PipeIdle
  scan,       \* per kind of scan: its flag and results, see ScanIdle
  wifiRadio,  \* the Wi-Fi driver and wifi_scan_done_co: "idle", "scanning", "event", "done"
  window,     \* ble_scan_done_co is armed
  disc,       \* BLE discovery is running
  reconnect,  \* reconnect_task_active
  commands,   \* records of an authenticated client so far
  heard,      \* history: the records the Flipper has whole, of this connection
  raced       \* history: the timings that have happened, see above

Kinds == {"wifi", "ble"}
NoSecret == -1

\* The steps of the discovery, the last of which is the write that subscribes.
Steps == <<"mtu", "service", "characteristics", "descriptors", "subscribing">>

\* Between two batches: nothing but the transmit pipeline knows that there is one more.
Chained(k) ==
  scan[k].busy /\ (IF k = "wifi" THEN wifiRadio = "idle" ELSE ~ window)

\* The Flipper has a record of this type.
Has(type) == \E i \in DOMAIN heard : heard[i].type = type

-----------------------------------------------------------------------------
(* Properties.                                                               *)

RecordTypes ==
  {"none", "pair_init", "pair_confirm", "pair_complete", "pair_error", "hello", "client_auth",
   "capability_response", "error", "partial", "complete"}
Without(timings) == raced \cap timings = {}

\* Types of the variables, and the queue of protected records within its array.
BoardTypeOK ==
  /\ mode \in {"runtime", "open", "closed"} /\ nvs \in NoSecret .. MaxConnections
  /\ bleLink \in {"none", "connecting", "up"} /\ conn \in 0..MaxConnections
  /\ setup \in {"none", "ready"} \cup {Steps[i] : i \in 1..5}
  /\ stage \in {"idle", "init_sent", "confirm_sent", "complete_sent", "failed", "hello_sent",
                "authenticated"}
  /\ reason \in {"normal", "auth_failed", "unknown_board"}
  /\ p.rec.type \in RecordTypes /\ p.seq \in 0..MaxSequence /\ p.left \in 0..MaxPieces
  /\ Len(p.pending) <= QueueDepth
  /\ \A k \in Kinds : scan[k].busy \in BOOLEAN /\ scan[k].left \in 0..MaxBatches
  /\ wifiRadio \in {"idle", "scanning", "event", "done"}
  /\ window \in BOOLEAN /\ disc \in BOOLEAN /\ reconnect \in BOOLEAN
  /\ \A i \in DOMAIN heard : heard[i].type \in RecordTypes

\* The Flipper has pair_complete only if the secret of this ceremony is stored
\* (finish_pairing_after_confirm, behind the completion of pair_confirm).
CompleteMeansStored == Has("pair_complete") => nvs = conn

\* Until the board gives a connection up, the protected records the Flipper gets whole on it
\* are numbered 1, 2, 3 ...: no record is started over an unfinished one and no number is
\* used twice (queue_and_send_protected).
SessionInTurn ==
  LET sent == {i \in DOMAIN heard : heard[i].seq # 0}
  IN \/ p.closing
     \/ \A i \in sent :
          /\ \A j \in sent : j < i => heard[j].seq < heard[i].seq
          /\ \A n \in 1 .. heard[i].seq - 1 : \E j \in sent : j < i /\ heard[j].seq = n

\* The board takes the session as up only when all of client_auth is on the link: what it
\* sends then comes behind it (write_complete, TX_DONE_RUNTIME_AUTHENTICATED).
AuthenticatedIsTold ==
  bleLink = "up" /\ stage = "authenticated" =>
    \/ Has("client_auth")
    \/ \E i \in DOMAIN p.wire : p.wire[i].last /\ p.wire[i].rec.type = "client_auth"

\* A queued record does not wait for a completion that never comes (write_complete,
\* start_next_pending_protected_send).
PendingIsFollowedUp == p.pending # << >> => p.wire # << >> \/ p.closing

\* A scan that is in progress has something under way that ends it: the driver, a callout, or
\* the continuation of a batch.  Else every later scan is refused as busy.
BusyIsReleased ==
  \A k \in Kinds :
    scan[k].busy =>
      \/ ~ Chained(k) \/ p.closing
      \/ p.action = k \/ \E i \in DOMAIN p.pending : p.pending[i].action = k
      \/ ~ Without({"drop_mid_chain", "send_in_window"})

\* Results go to the client that asked for the scan (wifi_scan_done_cb).
ResultsReachTheirClient ==
  \A i \in DOMAIN heard :
    heard[i].type \in {"partial", "complete"} =>
      heard[i].conn = conn \/ ~ Without({"fast_reconnect"})

\* The board looks for the Flipper while it may connect and is not connected, unless NimBLE
\* refused to start the search, which nothing repeats, or a BLE window took the search with it
\* (start_scan, schedule_reconnect).
KeepsLooking ==
  bleLink = "none" /\ mode # "closed" =>
    disc \/ reconnect \/ ~ Without({"drop_in_window", "disc_error"})

\* A scan ends, one way or another.
ScanEnds ==
  \A k \in Kinds : scan[k].busy ~> ~ scan[k].busy \/ raced \ {"disc_error"} # {}

\* What the Flipper hears is in turn and true: whole records with numbers that follow each
\* other, a pairing that is stored, a session that is up, results of its own scan.
HeardIsTrue ==
  /\ BoardTypeOK /\ SessionInTurn /\ AuthenticatedIsTold
  /\ CompleteMeansStored /\ ResultsReachTheirClient

\* Nothing waits for what never comes: a queued record for a completion, a claimed scan for a
\* batch, the Flipper for a board that looks for it.
NeverStuck == PendingIsFollowedUp /\ BusyIsReleased /\ KeepsLooking
=============================================================================
