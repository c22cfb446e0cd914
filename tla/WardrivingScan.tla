--------------------------- MODULE WardrivingScan ---------------------------
(***************************************************************************)
(* The two record walks of esp32/main/wardriving_log.c as the loops they   *)
(* are: the boot scan of wardriving_log_init and the collection loop of    *)
(* wardriving_log_peek_pending, one turn of the recursion per turn of the  *)
(* loop.  WardrivingLog states both walks by what they find; here the      *)
(* loops run on every flash image and RAM state the log can reach, and     *)
(* must find the same.                                                     *)
(*                                                                         *)
(* stale is the set of captures whose record no longer decodes, which the  *)
(* code meets after a firmware change and discards by clearing its flag    *)
(* (wd_clear_undrained_record).                                            *)
(***************************************************************************)
EXTENDS WardrivingLog

-----------------------------------------------------------------------------
(* wd_clear_undrained_record: flag byte, counters, and the oldest position. *)

\* st carries the counters of the walk; cleared are the records discarded.
Discard(st, p) ==
  [st EXCEPT !.undrained[p.sector] = SatMinus(@, 1),
             !.pending = SatMinus(@, 1),
             !.cleared = @ \cup {p},
             !.oldest = IF @ = p THEN After(p) ELSE @]

-----------------------------------------------------------------------------
(* The boot scan.                                                           *)

ScanStart ==
  [undrained |-> [s \in Sector |-> 0], pending |-> 0, cleared |-> {},
   oldest |-> At(0, SlotsPerSector), found |-> FALSE, broken |-> FALSE]

CountRecord(st, p) ==
  [st EXCEPT !.undrained[p.sector] = @ + 1,
             !.pending = @ + 1,
             !.oldest = IF st.found THEN @ ELSE p,
             !.found = TRUE]

\* One record slot of the scan; broken: the inner loop has ended for this sector.
ScanSlot(st, p, stale) ==
  LET live == [st EXCEPT !.broken = st.broken /\ p.offset > 0]
  IN IF live.broken \/ ~ IsRecord(p.sector, p.offset) THEN [live EXCEPT !.broken = TRUE]
     ELSE IF ~ slot[p.sector][p.offset].undrained THEN live
     ELSE IF slot[p.sector][p.offset].id \in stale THEN Discard(live, p)
     ELSE CountRecord(live, p)

\* occupied_total sectors from the oldest generation on, every slot of each in order.
Scan(stale) ==
  LET total == Cardinality(Occupied) * SlotsPerSector
      visit(n) == At((OldestOccupied + ((n - 1) \div SlotsPerSector)) % NumSectors,
                     (n - 1) % SlotsPerSector)
      state[n \in 0 .. total] ==
        IF n = 0 THEN ScanStart ELSE ScanSlot(state[n - 1], visit(n), stale)
  IN state[total]

-----------------------------------------------------------------------------
(* The collection loop of peek_pending.                                     *)

PeekStart ==
  [at |-> oldest, out |-> << >>, pending |-> pendingCount, cleared |-> {},
   undrained |-> undrainedInSector, oldest |-> oldest, done |-> FALSE]

\* Mutant: the next sector is entered at the offset the last one was left at.
LeaveKeepingOffset(st) ==
  IF st.at.sector = activeSector THEN [st EXCEPT !.done = TRUE]
  ELSE [st EXCEPT !.at.sector = NextSector(@)]

\* The valid data of a sector is exhausted: the active sector is the last one walked.
LeaveSector(st) ==
  IF st.at.sector = activeSector THEN [st EXCEPT !.done = TRUE]
  ELSE [st EXCEPT !.at = At(NextSector(st.at.sector), 0)]

\* The loop guard, then one turn: leave an exhausted sector, skip a drained record,
\* discard one that does not decode, or take one.
PeekTurn(st, stale) ==
  LET s == st.at.sector
      o == st.at.offset
      readable == o < SlotsPerSector /\ IsRecord(s, o)
      step == [st EXCEPT !.at = At(s, o + 1)]
  IN IF st.done \/ ~ (Len(st.out) < MaxBatch /\ Len(st.out) < st.pending)
        THEN [st EXCEPT !.done = TRUE]
     ELSE IF ~ readable THEN LeaveSector(st)
     ELSE IF ~ slot[s][o].undrained \/ st.at \in st.cleared THEN step
     ELSE IF slot[s][o].id \in stale THEN Discard(step, At(s, o))
     ELSE [st EXCEPT !.out = Append(@, At(s, o)), !.at = After(At(s, o))]

\* Enough turns for the loop to end: each record taken is at most one round away.
PeekTurns == (MaxBatch + 1) * (NumSectors + 1) * (SlotsPerSector + 1) + 1

PeekLoop(stale) ==
  LET state[n \in 0 .. PeekTurns] ==
        IF n = 0 THEN PeekStart ELSE PeekTurn(state[n - 1], stale)
  IN state[PeekTurns]

-----------------------------------------------------------------------------
(* Properties.                                                              *)

\* The undrained records on flash, in whatever sector a valid header is.
OnFlash == {p \in Position : /\ p.offset \in Slot
                             /\ head[p.sector] = "valid" /\ IsUndrained(p.sector, p.offset)}
Id(p) == slot[p.sector][p.offset].id

\* The boot scan counts, per sector and in all, exactly the undrained records on flash, and puts
\* the oldest position at the first capture of them, whatever state a power loss left: it misses
\* no sector, stops before no record, and begins where the log begins.
ScanAgrees ==
  ~ ready /\ Occupied # {} =>
    LET r == Scan({})
    IN /\ r.pending = Cardinality(OnFlash)
       /\ \A s \in Sector : r.undrained[s] = Cardinality({p \in OnFlash : p.sector = s})
       /\ r.found <=> OnFlash # {}
       /\ r.found => /\ r.oldest \in OnFlash
                     /\ \A p \in OnFlash \ {r.oldest} : Id(r.oldest) < Id(p)

\* The collection loop ends, and takes the next undrained records in walk order, stopping
\* where PeekPending says.
PeekAgrees ==
  ready =>
    LET r == PeekLoop({})
        end == CursorAfter(r.out, Len(r.out))
    IN /\ r.done
       /\ IsPeek(r.out)
       /\ r.at = IF Len(r.out) = PeekLimit THEN end ELSE Frontier(end)

\* Discarding undecodable records while a batch is collected keeps the counters right: what
\* is left pending is what was pending less what was discarded, and the batch holds only
\* records that decode.
PeekDiscardsCleanly ==
  ready =>
    \A stale \in SUBSET Stored :
      LET r == PeekLoop(stale)
      IN /\ r.done
         /\ r.pending = pendingCount - Cardinality(r.cleared)
         /\ \A s \in Sector : r.undrained[s] =
              undrainedInSector[s] - Cardinality({p \in r.cleared : p.sector = s})
         /\ \A i \in 1 .. Len(r.out) :
              slot[r.out[i].sector][r.out[i].offset].id \notin stale
         /\ Len(r.out) < MaxBatch => Len(r.out) = r.pending

\* The two record loops of the code, at boot and while a batch is collected, find what is on
\* flash (wardriving_log_init, wardriving_log_peek_pending).
LoopsAgree == ScanAgrees /\ PeekAgrees

\* What the RAM says of the flash is right, so that an eviction discards the sector it counted
\* and the next batch begins where the oldest record is, also behind a batch that met records
\* to discard (wardriving_log_append, _peek_pending, _mark_drained).
RamAgrees == TypeOK /\ CountsAgree /\ NothingStranded /\ PeekDiscardsCleanly
=============================================================================
