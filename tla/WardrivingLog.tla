--------------------------- MODULE WardrivingLog ---------------------------
(***************************************************************************)
(* The raw-flash circular log of esp32/main/wardriving_log.c: the state on *)
(* flash (sector headers and records), the RAM bookkeeping that is rebuilt *)
(* at every boot, and the four entry points init, append, peek_pending and *)
(* mark_drained, with a power loss possible at any flash operation.        *)
(*                                                                         *)
(* The bytes of a sector are abstracted to SlotsPerSector record slots.  A *)
(* record larger than the room left in its sector is the free choice of    *)
(* "rolls" in the append actions.  A record payload is the number of the   *)
(* capture it holds: captures are numbered 1, 2, ... in program order.     *)
(*                                                                         *)
(* Faults selects what the environment may do besides losing power:        *)
(*   "append_error"    a flash erase or write of an append returns an error*)
(*   "mark_error"      the write of a drained flag returns an error        *)
(*   "torn_generation" a sector-header write may be cut between the magic  *)
(*                     and the generation word                             *)
(*   "evict_in_flight" an append may evict while a peeked batch is not yet *)
(*                     marked drained                                      *)
(***************************************************************************)
EXTENDS Integers, Sequences, FiniteSets

CONSTANTS
  NumSectors,      \* wd_sector_count
  SlotsPerSector,  \* records that fit in one WD_SECTOR_SIZE sector
  MaxBatch,        \* FEB_WARDRIVING_MAX_RECORDS_PER_BATCH
  GenMod,          \* 2^32: wd_next_generation is a uint32_t
  CountMod,        \* SIZE_MAX + 1: wd_pending_count is a size_t
  MaxAppends,      \* bound: captures offered to the log
  Faults           \* the optional faults allowed, see above

ASSUME LogAssumption ==
  /\ NumSectors \in Nat \ {0, 1}
  /\ SlotsPerSector \in Nat \ {0}
  /\ MaxBatch \in Nat \ {0}
  /\ GenMod \in Nat \ {0, 1}
  /\ CountMod \in Nat /\ CountMod > NumSectors * SlotsPerSector
  /\ MaxAppends \in Nat
  /\ Faults \subseteq 
       {"append_error", "mark_error", "torn_generation", "evict_in_flight"}

VARIABLES
  \* On flash.
  head,                 \* sector header: erased, torn, or a valid magic word
  gen,                  \* generation word of a sector with a valid magic
  slot,                 \* contents of every record slot
  \* In RAM (the static wd_* variables).
  ready,                \* wd_ready; FALSE while the board is off
  nextGeneration,       \* wd_next_generation
  activeSector,         \* wd_active_sector
  writeOffset,          \* wd_write_offset, in slots
  activeSectorClosed,   \* wd_active_sector_closed
  oldest,               \* wd_oldest_sector and wd_oldest_offset
  pendingCount,         \* wd_pending_count
  undrainedInSector,    \* wd_undrained_in_sector
  peeked,               \* wd_peek_sector/offset[0 .. wd_peek_count-1]
  peekEnd,              \* wd_peek_sector/offset[wd_peek_count]
  \* History, for the properties.
  nextId,               \* number of the next capture
  acked,                \* captures for which append returned true
  batch,                \* captures the last peek handed to the caller
  drained,              \* captures of delivered batches, marked drained on flash
  evicted               \* captures whose loss was logged as an eviction

flash == <<head, gen, slot>>
ram   == <<ready, nextGeneration, activeSector, writeOffset, activeSectorClosed,
           oldest, pendingCount, undrainedInSector, peeked, peekEnd>>
hist  == <<nextId, acked, batch, drained, evicted>>
vars  == <<flash, ram, hist>>

Sector == 0 .. NumSectors - 1
Slot   == 0 .. SlotsPerSector - 1
Offset == 0 .. SlotsPerSector
Position == [sector : Sector, offset : Offset]
At(s, o) == [sector |-> s, offset |-> o]

\* A slot: the undrained flag is a bit of the record header that an erase sets
\* and a one-byte write clears, whatever else the slot holds.
Cell == [body : {"blank", "torn", "record"}, id : Nat, undrained : BOOLEAN]
BlankCell == [body |-> "blank", id |-> 0, undrained |-> TRUE]
TornCell == [body |-> "torn", id |-> 0, undrained |-> FALSE]
BlankSector == [o \in Slot |-> BlankCell]

\* The ring of sectors, and how many steps lead from sector a to sector b.
NextSector(s) == IF s = NumSectors - 1 THEN 0 ELSE s + 1
Dist(a, b) == IF a <= b THEN b - a ELSE b - a + NumSectors

\* size_t subtraction.
Minus(a, b) == IF b <= a THEN a - b ELSE a - b + CountMod
SatMinus(a, b) == IF b <= a THEN a - b ELSE 0

IsRecord(s, o) == slot[s][o].body = "record"
IsUndrained(s, o) == IsRecord(s, o) /\ slot[s][o].undrained

\* Length of the run of valid records that starts at offset o of sector s: the
\* first offset wd_try_read_valid_record refuses.
RunEnd(s, o) ==
  CHOOSE e \in Offset :
    /\ e >= o
    /\ \A i \in Slot : o <= i /\ i < e => IsRecord(s, i)
    /\ e < SlotsPerSector => ~ IsRecord(s, e)

UndrainedIdsIn(s) == {slot[s][o].id : o \in {i \in Slot : IsUndrained(s, i)}}

\* The captures still stored: undrained valid records of headed sectors.
Stored == UNION {UndrainedIdsIn(s) : s \in {t \in Sector : head[t] = "valid"}}

RamAtReset ==
  /\ ready' = FALSE
  /\ nextGeneration' = 0
  /\ activeSector' = 0
  /\ writeOffset' = 0
  /\ activeSectorClosed' = FALSE
  /\ oldest' = At(0, 0)
  /\ pendingCount' = 0
  /\ undrainedInSector' = [s \in Sector |-> 0]
  /\ peeked' = << >>
  /\ peekEnd' = At(0, 0)
  /\ batch' = << >>

Init ==
  /\ head = [s \in Sector |-> "blank"]
  /\ gen = [s \in Sector |-> 0]
  /\ slot = [s \in Sector |-> BlankSector]
  /\ ready = FALSE
  /\ nextGeneration = 0
  /\ activeSector = 0
  /\ writeOffset = 0
  /\ activeSectorClosed = FALSE
  /\ oldest = At(0, 0)
  /\ pendingCount = 0
  /\ undrainedInSector = [s \in Sector |-> 0]
  /\ peeked = << >>
  /\ peekEnd = At(0, 0)
  /\ nextId = 1
  /\ acked = {}
  /\ batch = << >>
  /\ drained = {}
  /\ evicted = {}

-----------------------------------------------------------------------------
(* wardriving_log_append and wd_roll_to_next_sector.                        *)

RollTarget == NextSector(activeSector)

\* The append rolls when the active sector is closed or has no room left for the
\* record; an empty sector always has room.
RollChoice(rolls) ==
  /\ activeSectorClosed \/ writeOffset = SlotsPerSector => rolls
  /\ rolls => activeSectorClosed \/ writeOffset > 0

\* The roll reclaims the sector that holds the oldest undrained records.
Evicts(rolls) == rolls /\ RollTarget = oldest.sector /\ pendingCount > 0

MayEvict(rolls) ==
  Evicts(rolls) => peeked = << >> \/ "evict_in_flight" \in Faults

TargetSector(rolls) == IF rolls THEN RollTarget ELSE activeSector
TargetOffset(rolls) == IF rolls THEN 0 ELSE writeOffset

OldestAfterRoll(rolls) ==
  IF Evicts(rolls) THEN At(NextSector(RollTarget), 0) ELSE oldest

\* Mutant: the evicted records are still counted.
PendingKeptAtRoll(rolls) == pendingCount

PendingAfterRoll(rolls) ==
  IF Evicts(rolls) THEN Minus(pendingCount, undrainedInSector[RollTarget])
                   ELSE pendingCount

EvictedAfterRoll(rolls) ==
  IF Evicts(rolls) THEN evicted \cup UndrainedIdsIn(RollTarget) ELSE evicted

\* What an append leaves on flash when it got as far as a sector header in state h
\* with generation word g (if it rolls) and a record slot in state b.  A write
\* clears bits and never sets one: a flag bit already cleared stays cleared, and what is
\* written over other bytes is torn.
AppendOnFlash(rolls, h, g, b) ==
  LET s == TargetSector(rolls)
      o == TargetOffset(rolls)
      base == IF rolls THEN [slot EXCEPT ![s] = BlankSector] ELSE slot
  IN /\ head' = IF rolls THEN [head EXCEPT ![s] = h] ELSE head
     /\ gen'  = IF rolls THEN [gen EXCEPT ![s] = g] ELSE gen
     /\ slot' = IF b = "blank" THEN base
                ELSE [base EXCEPT ![s][o] =
                        [body |-> IF @.body = "blank" THEN b ELSE "torn",
                         id |-> IF b = "record" THEN nextId ELSE 0,
                         undrained |-> @.undrained]]

LogAppend ==
  /\ ready
  /\ nextId <= MaxAppends
  /\ \E rolls \in BOOLEAN :
       LET s == TargetSector(rolls)
           o == TargetOffset(rolls)
           pending == PendingAfterRoll(rolls)
           counts == IF rolls THEN [undrainedInSector EXCEPT ![s] = 0]
                              ELSE undrainedInSector
       IN /\ RollChoice(rolls)
          /\ MayEvict(rolls)
          /\ AppendOnFlash(rolls, "valid", nextGeneration, "record")
          /\ nextGeneration' = IF rolls THEN (nextGeneration + 1) % GenMod
                                        ELSE nextGeneration
          /\ activeSector' = s
          /\ writeOffset' = o + 1
          /\ activeSectorClosed' = FALSE
          /\ oldest' = IF pending = 0 THEN At(s, o) ELSE OldestAfterRoll(rolls)
          /\ pendingCount' = (pending + 1) % CountMod
          /\ undrainedInSector' = [counts EXCEPT ![s] = @ + 1]
          /\ evicted' = EvictedAfterRoll(rolls)
  /\ acked' = acked \cup {nextId}
  /\ nextId' = nextId + 1
  /\ UNCHANGED <<ready, peeked, peekEnd, batch, drained>>

\* The roll fails: the eviction was already accounted for.  The erase fails and
\* leaves the sector alone, or the write of its new header fails.
RollFails ==
  /\ "append_error" \in Faults
  /\ ready
  /\ nextId <= MaxAppends
  /\ RollChoice(TRUE)
  /\ MayEvict(TRUE)
  /\ \/ UNCHANGED <<flash, nextGeneration>>
     \/ /\ \E h \in {"blank", "torn"} : AppendOnFlash(TRUE, h, 0, "blank")
        /\ nextGeneration' = (nextGeneration + 1) % GenMod
  /\ oldest' = OldestAfterRoll(TRUE)
  /\ pendingCount' = PendingAfterRoll(TRUE)
  /\ undrainedInSector' = IF Evicts(TRUE)
                          THEN [undrainedInSector EXCEPT ![RollTarget] = 0]
                          ELSE undrainedInSector
  /\ evicted' = EvictedAfterRoll(TRUE)
  /\ nextId' = nextId + 1
  /\ UNCHANGED <<ready, activeSector, writeOffset, activeSectorClosed, peeked,
                 peekEnd, acked, batch, drained>>

\* The write of the record header or of its payload fails: the sector is closed.
RecordWriteFails ==
  /\ "append_error" \in Faults
  /\ ready
  /\ nextId <= MaxAppends
  /\ \E rolls \in BOOLEAN, b \in {"blank", "torn"} :
       LET s == TargetSector(rolls)
       IN /\ RollChoice(rolls)
          /\ MayEvict(rolls)
          /\ AppendOnFlash(rolls, "valid", nextGeneration, b)
          /\ nextGeneration' = IF rolls THEN (nextGeneration + 1) % GenMod
                                        ELSE nextGeneration
          /\ activeSector' = s
          /\ writeOffset' = TargetOffset(rolls)
          /\ oldest' = OldestAfterRoll(rolls)
          /\ pendingCount' = PendingAfterRoll(rolls)
          /\ undrainedInSector' = IF rolls THEN [undrainedInSector EXCEPT ![s] = 0]
                                           ELSE undrainedInSector
          /\ evicted' = EvictedAfterRoll(rolls)
  /\ activeSectorClosed' = TRUE
  /\ nextId' = nextId + 1
  /\ UNCHANGED <<ready, peeked, peekEnd, acked, batch, drained>>

\* An interrupted erase of the roll target spoils its records from slot k on.
EraseCut(k) ==
  /\ slot' = [slot EXCEPT ![RollTarget] =
                [o \in Slot |-> IF o < k THEN @[o] ELSE TornCell]]
  /\ UNCHANGED <<head, gen>>

\* Power is lost inside the append: during the erase, during the write of the new
\* header, or during (or right after) the write of the record.
AppendCut ==
  /\ ready
  /\ nextId <= MaxAppends
  /\ \E rolls \in BOOLEAN :
       /\ RollChoice(rolls)
       /\ MayEvict(rolls)
       /\ \/ \E b \in {"torn", "record"} :
               AppendOnFlash(rolls, "valid", nextGeneration, b)
          \/ rolls /\ AppendOnFlash(rolls, "valid", nextGeneration, "blank")
          \/ rolls /\ \E h \in {"blank", "torn"} : AppendOnFlash(rolls, h, 0, "blank")
          \/ /\ "torn_generation" \in Faults
             /\ rolls
             /\ AppendOnFlash(rolls, "valid", GenMod - 1, "blank")
          \/ rolls /\ \E k \in Offset : EraseCut(k)
       /\ evicted' = EvictedAfterRoll(rolls)
  /\ RamAtReset
  /\ nextId' = nextId + 1
  /\ UNCHANGED <<acked, drained>>

-----------------------------------------------------------------------------
(* wardriving_log_peek_pending.                                             *)

\* The undrained records the walk of peek_pending can reach from cursor c: it goes
\* on to the next sector at the end of the valid data of a sector, except in the
\* active sector, where it stops.
Visible(c) ==
  {p \in Position :
     /\ p.offset < RunEnd(p.sector, IF p.sector = c.sector THEN c.offset ELSE 0)
     /\ p.sector = c.sector => c.offset <= p.offset
     /\ Dist(c.sector, p.sector) <= Dist(c.sector, activeSector)
     /\ slot[p.sector][p.offset].undrained}

\* p comes before q on the walk from cursor c.
Before(c, p, q) ==
  \/ Dist(c.sector, p.sector) < Dist(c.sector, q.sector)
  \/ p.sector = q.sector /\ p.offset < q.offset

\* The cursor after record p was taken: the next sector when no header fits behind it,
\* even when p is in the active sector.
After(p) == IF p.offset = SlotsPerSector - 1 THEN At(NextSector(p.sector), 0)
                                             ELSE At(p.sector, p.offset + 1)

\* Where the walk from c stops when it sees no undrained record.
Frontier(c) ==
  At(activeSector,
     RunEnd(activeSector, IF c.sector = activeSector THEN c.offset ELSE 0))

\* The caller asks for MaxBatch records; the loop also stops at pendingCount.
PeekLimit == IF pendingCount < MaxBatch THEN pendingCount ELSE MaxBatch

\* Where the walk looks for the record after the first i records of ps.
CursorAfter(ps, i) == IF i = 0 THEN oldest ELSE After(ps[i])

\* p is the first undrained record the walk meets from cursor c.
IsNext(c, p) ==
  /\ p \in Visible(c)
  /\ \A q \in Visible(c) \ {p} : Before(c, p, q)

\* ps is the batch the walk returns.  The caller's scratch buffer has room for MaxBatch
\* largest records, and every stored record decodes: the same firmware encoded it.
IsPeek(ps) ==
  /\ \A i \in 1 .. Len(ps) : IsNext(CursorAfter(ps, i - 1), ps[i])
  /\ Len(ps) < PeekLimit => Visible(CursorAfter(ps, Len(ps))) = {}

PeekPending ==
  /\ ready
  /\ \E n \in 0 .. PeekLimit : \E ps \in [1 .. n -> Sector \X Slot] :
       LET at == [i \in 1 .. n |-> At(ps[i][1], ps[i][2])]
           cursor == CursorAfter(at, n)
       IN /\ IsPeek(at)
          /\ peeked' = at
          /\ peekEnd' = IF n = PeekLimit THEN cursor ELSE Frontier(cursor)
          /\ batch' = [i \in 1 .. n |-> slot[at[i].sector][at[i].offset].id]
  /\ UNCHANGED <<flash, ready, nextGeneration, activeSector, writeOffset,
                 activeSectorClosed, oldest, pendingCount, undrainedInSector,
                 nextId, acked, drained, evicted>>

-----------------------------------------------------------------------------
(* wardriving_log_mark_drained.                                             *)

\* Mutant: the whole peeked batch is marked, not the part that was delivered.
AllFlagsCleared(W) ==
  slot' = [s \in Sector |-> [o \in Slot |->
             IF At(s, o) \in {peeked[i] : i \in DOMAIN peeked}
             THEN [slot[s][o] EXCEPT !.undrained = FALSE]
             ELSE slot[s][o]]]

\* The flag bytes of the peeked records numbered in W are written.
FlagsCleared(W) ==
  slot' = [s \in Sector |-> [o \in Slot |->
             IF \E i \in W : peeked[i] = At(s, o)
             THEN [slot[s][o] EXCEPT !.undrained = FALSE]
             ELSE slot[s][o]]]

\* The captures of the batch numbered in W are marked drained.
Drains(W) == drained' = drained \cup {batch[i] : i \in W}

\* Mutant: the log goes on behind the batch however much of it was delivered.
OldestBehindBatch(count) == peekEnd

\* The first peeked record that is not drained, or the position behind the batch.
OldestAfterMark(count) == IF count < Len(peeked) THEN peeked[count + 1] ELSE peekEnd

\* The caller drains a prefix of what it peeked; the flag writes numbered in W succeed.
MarkDrained ==
  /\ ready
  /\ \E count \in 1 .. Len(peeked) : \E W \in SUBSET (1 .. count) :
       /\ W = 1 .. count \/ "mark_error" \in Faults
       /\ FlagsCleared(W)
       /\ undrainedInSector' =
            [s \in Sector |-> SatMinus(undrainedInSector[s],
                                       Cardinality({i \in W : peeked[i].sector = s}))]
       /\ pendingCount' = SatMinus(pendingCount, Cardinality(W))
       /\ oldest' = OldestAfterMark(count)
       /\ Drains(W)
  /\ peeked' = << >>
  /\ batch' = << >>
  /\ UNCHANGED <<head, gen, ready, nextGeneration, activeSector, writeOffset,
                 activeSectorClosed, peekEnd, nextId, acked, evicted>>

\* Power is lost after a prefix of the flag writes.
MarkCut ==
  /\ ready
  /\ \E count \in 1 .. Len(peeked) : \E done \in 0 .. count :
       /\ FlagsCleared(1 .. done)
       /\ Drains(1 .. done)
  /\ RamAtReset
  /\ UNCHANGED <<head, gen, nextId, acked, evicted>>

-----------------------------------------------------------------------------
(* wardriving_log_init.                                                     *)

\* Sectors with a torn header are erased, the others are left as they are.
HeadAtBoot == [s \in Sector |-> IF head[s] = "torn" THEN "blank" ELSE head[s]]
SlotAtBoot == [s \in Sector |-> IF head[s] = "torn" THEN BlankSector ELSE slot[s]]

Occupied == {s \in Sector : head[s] = "valid"}

\* Mutant: the last occupied sector in physical order is taken for the newest.
LastOccupied == CHOOSE s \in Occupied : \A t \in Occupied : t <= s

\* The first sector with the highest, or with the lowest, generation.
Newest == CHOOSE s \in Occupied : \A t \in Occupied \ {s} :
            gen[t] < gen[s] \/ (gen[t] = gen[s] /\ s < t)
OldestOccupied == CHOOSE s \in Occupied : \A t \in Occupied \ {s} :
            gen[s] < gen[t] \/ (gen[t] = gen[s] /\ s < t)

\* The sectors walked: as many as are occupied, from the oldest generation on.
Walked == {s \in Sector : Dist(OldestOccupied, s) < Cardinality(Occupied)}

\* The undrained records the walk finds in sector s, and in all.
FoundIn(s) == {o \in Slot : o < RunEnd(s, 0) /\ slot[s][o].undrained}
Found == {p \in Position : p.sector \in Walked /\ p.offset \in FoundIn(p.sector)}

\* Mutant: a torn record behind the valid data goes unnoticed.
ClosedWhenFull == RunEnd(Newest, 0) = SlotsPerSector

\* Is the newest sector unfit for another record: full, or spoiled behind its valid data?
ClosedAtBoot ==
  \/ RunEnd(Newest, 0) = SlotsPerSector
  \/ slot[Newest][RunEnd(Newest, 0)] # BlankCell

\* Nothing is occupied: sector 0 is formatted.
BootFresh ==
  /\ ~ ready
  /\ Occupied = {}
  /\ head' = [HeadAtBoot EXCEPT ![0] = "valid"]
  /\ gen' = [gen EXCEPT ![0] = 1]
  /\ slot' = [SlotAtBoot EXCEPT ![0] = BlankSector]
  /\ nextGeneration' = 2 % GenMod
  /\ activeSector' = 0
  /\ writeOffset' = 0
  /\ activeSectorClosed' = FALSE
  /\ oldest' = At(0, 0)
  /\ ready' = TRUE
  /\ UNCHANGED <<pendingCount, undrainedInSector, peeked, peekEnd, hist>>

BootResume ==
  /\ ~ ready
  /\ Occupied # {}
  /\ head' = HeadAtBoot
  /\ slot' = SlotAtBoot
  /\ nextGeneration' = (gen[Newest] + 1) % GenMod
  /\ activeSector' = Newest
  /\ writeOffset' = RunEnd(Newest, 0)
  /\ activeSectorClosed' = ClosedAtBoot
  /\ undrainedInSector' = [s \in Sector |-> IF s \in Walked THEN Cardinality(FoundIn(s))
                                                            ELSE 0]
  /\ pendingCount' = Cardinality(Found)
  /\ oldest' = IF Found = {} THEN At(Newest, RunEnd(Newest, 0))
               ELSE CHOOSE p \in Found : \A q \in Found \ {p} :
                      Before(At(OldestOccupied, 0), p, q)
  /\ ready' = TRUE
  /\ UNCHANGED <<gen, peeked, peekEnd, hist>>

\* Power is lost during init: some torn sectors were erased, or all of them were and the
\* header of a fresh sector 0 was half written.
BootCut ==
  /\ ~ ready
  /\ \/ \E T \in SUBSET {s \in Sector : head[s] = "torn"} :
          /\ head' = [s \in Sector |-> IF s \in T THEN "blank" ELSE head[s]]
          /\ slot' = [s \in Sector |-> IF s \in T THEN BlankSector ELSE slot[s]]
          /\ UNCHANGED gen
     \/ /\ Occupied = {}
        /\ \/ head' = [HeadAtBoot EXCEPT ![0] = "torn"] /\ UNCHANGED gen
           \/ /\ "torn_generation" \in Faults
              /\ head' = [HeadAtBoot EXCEPT ![0] = "valid"]
              /\ gen' = [gen EXCEPT ![0] = GenMod - 1]
        /\ slot' = [SlotAtBoot EXCEPT ![0] = BlankSector]
  /\ UNCHANGED <<ram, hist>>

\* Power is lost between two calls.
PowerLoss == ready /\ RamAtReset /\ UNCHANGED <<flash, nextId, acked, drained, evicted>>

-----------------------------------------------------------------------------

Next ==
  \/ LogAppend \/ RollFails \/ RecordWriteFails \/ AppendCut
  \/ PeekPending
  \/ MarkDrained \/ MarkCut
  \/ BootFresh \/ BootResume \/ BootCut
  \/ PowerLoss

Spec == Init /\ [][Next]_vars

-----------------------------------------------------------------------------
(* Properties.                                                              *)

TypeOK ==
  /\ head \in [Sector -> {"blank", "torn", "valid"}]
  /\ gen \in [Sector -> 0 .. GenMod - 1]
  /\ slot \in [Sector -> [Slot -> Cell]]
  /\ ready \in BOOLEAN
  /\ nextGeneration \in 0 .. GenMod - 1
  /\ activeSector \in Sector
  /\ writeOffset \in Offset
  /\ activeSectorClosed \in BOOLEAN
  /\ oldest \in Position
  /\ pendingCount \in 0 .. CountMod - 1
  /\ undrainedInSector \in [Sector -> Nat]
  /\ peeked \in Seq(Position) /\ Len(peeked) <= MaxBatch
  /\ peekEnd \in Position
  /\ nextId \in 1 .. MaxAppends + 1
  /\ acked \subseteq 1 .. MaxAppends
  /\ batch \in Seq(1 .. MaxAppends) /\ Len(batch) = Len(peeked)
  /\ drained \subseteq 1 .. MaxAppends
  /\ evicted \subseteq 1 .. MaxAppends

\* A capture whose append returned true is stored undrained, was delivered and marked
\* drained, or was in a sector whose eviction was logged: no power loss, at whatever flash
\* operation it strikes, loses one silently.
NoSilentLoss == acked \subseteq Stored \cup drained \cup evicted

\* The RAM counters agree with the flash: the counts that decide evictions, the
\* "was empty" case of append and backlog_remaining never drift from what is stored.
CountsAgree ==
  ready =>
    /\ pendingCount = Cardinality({p \in Position :
         p.offset \in Slot /\ head[p.sector] = "valid" /\ IsUndrained(p.sector, p.offset)})
    /\ \A s \in Sector :
         head[s] = "valid" =>
           undrainedInSector[s] = Cardinality({o \in Slot : IsUndrained(s, o)})

\* Every stored record lies ahead of the oldest position on the walk peek_pending makes:
\* the log never strands a record behind the position it reads from.
NothingStranded ==
  ready => \A s \in Sector, o \in Slot :
             head[s] = "valid" /\ IsUndrained(s, o) => At(s, o) \in Visible(oldest)

\* An eviction loses the oldest records: whatever is evicted in a step is older than
\* everything still stored and not evicted.
EvictsOldest ==
  [][\A e \in evicted' \ evicted, k \in Stored' \ evicted' : e < k]_vars
=============================================================================
