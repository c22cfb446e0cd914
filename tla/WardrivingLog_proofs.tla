------------------------ MODULE WardrivingLog_proofs ------------------------
(***************************************************************************)
(* No capture is lost silently: proved of the flash log for every number   *)
(* of sectors and slots, every batch size and every order of calls, power  *)
(* losses and flash errors of an append.  The other three faults are left  *)
(* out, as is a generation counter that wraps (Premises): with them the    *)
(* order of the sectors can be lost.  And that the log implements the      *)
(* store its callers are promised, as long as no flash operation fails,    *)
(* and that the two record loops, at boot and while a batch is collected,  *)
(* end and find what is on flash.                                          *)
(***************************************************************************)
EXTENDS MCWardrivingLog, FiniteSetTheorems, NaturalsInduction, SequenceTheorems, TLAPS

-----------------------------------------------------------------------------
(* The ring of sectors.                                                     *)

LEMMA SectorIs == /\ NumSectors \in Nat /\ NumSectors >= 2
                  /\ SlotsPerSector \in Nat /\ SlotsPerSector >= 1
BY LogAssumption

LEMMA DistIs ==
  ASSUME NEW a \in Sector, NEW b \in Sector
  PROVE  /\ Dist(a, b) \in 0 .. NumSectors - 1
         /\ Dist(a, b) = 0 <=> a = b
         /\ \A c \in Sector : Dist(a, b) = Dist(a, c) => b = c
BY SectorIs DEF Dist, Sector

LEMMA NextIs ==
  ASSUME NEW a \in Sector, NEW b \in Sector
  PROVE  /\ NextSector(b) \in Sector /\ NextSector(b) # b
         /\ Dist(a, NextSector(b)) = IF NextSector(b) = a THEN 0 ELSE Dist(a, b) + 1
         /\ NextSector(b) = a <=> Dist(a, b) = NumSectors - 1
         /\ Dist(NextSector(a), b) = IF a = b THEN NumSectors - 1 ELSE Dist(a, b) - 1
BY SectorIs DEF Dist, Sector, NextSector

\* The way from a to c passes b.
LEMMA DistSplits ==
  ASSUME NEW a \in Sector, NEW b \in Sector, NEW c \in Sector, Dist(a, b) <= Dist(a, c)
  PROVE  Dist(b, c) = Dist(a, c) - Dist(a, b)
BY SectorIs DEF Dist, Sector

-----------------------------------------------------------------------------
(* The inductive invariant.                                                 *)

FlashTypeOK ==
  /\ head \in [Sector -> {"blank", "torn", "valid"}]
  /\ gen \in [Sector -> Nat]
  /\ slot \in [Sector -> [Slot -> Cell]]
RamTypeOK ==
  /\ ready \in BOOLEAN /\ nextGeneration \in Nat
  /\ activeSector \in Sector /\ writeOffset \in Offset /\ activeSectorClosed \in BOOLEAN
  /\ oldest \in Position /\ pendingCount \in Nat /\ undrainedInSector \in [Sector -> Nat]
  /\ peeked \in Seq(Position) /\ batch \in Seq(Nat)
  /\ nextId \in 1 .. MaxAppends + 1

\* The undrained records of a sector, and those of all sectors that are counted.  A sector
\* that was given up for an append, but could not be erased, is counted as empty.
Und(s)   == {o \in Slot : IsUndrained(s, o)}
Live     == {x \in Sector \X Slot : x[2] \in Und(x[1]) /\ undrainedInSector[x[1]] # 0}
Exact(s) == undrainedInSector[s] = Cardinality(Und(s))

\* Only occupied sectors hold records, and a sector is filled from its first slot on.
RecordsInOrder ==
  \A s \in Sector, o \in Slot :
    IsRecord(s, o) => head[s] = "valid" /\ \A i \in 0 .. o : IsRecord(s, i)

\* The occupied sectors are an arc of the ring, in the order of their generations.
IsArc(a, z) ==
  /\ Occupied = {s \in Sector : Dist(a, s) <= Dist(a, z)}
  /\ \A s, t \in Occupied : Dist(a, s) < Dist(a, t) => gen[s] < gen[t]

\* Captures are stored in the order of their numbers.
Precedes(s, i, t, j) == gen[s] < gen[t] \/ (s = t /\ i < j)
IdsInOrder ==
  \A s, t \in Sector, i, j \in Slot :
    /\ IsRecord(s, i) => slot[s][i].id < nextId
    /\ IsRecord(s, i) /\ IsRecord(t, j) /\ Precedes(s, i, t, j) => slot[s][i].id < slot[t][j].id

\* Behind a blank slot of the newest sector there are only blank slots.
Tidy(z) ==
  \A o \in Slot : slot[z][o] = BlankCell =>
    \A i \in o .. SlotsPerSector - 1 : slot[z][i] = BlankCell

RingOK ==
  /\ Occupied # {} => \E a, z \in Sector : IsArc(a, z) /\ Tidy(z) /\ (ready => activeSector = z)
  /\ ready => Occupied # {} /\ nextGeneration <= nextId + 1
  /\ \A s \in Occupied : gen[s] <= nextId /\ (ready => gen[s] < nextGeneration)

\* The next record goes behind those of the active sector, where nothing was written yet.
ActiveOK ==
  /\ \A o \in Slot : o < writeOffset <=> IsRecord(activeSector, o)
  /\ ~ activeSectorClosed => \A o \in Slot : writeOffset <= o => slot[activeSector][o] = BlankCell

\* A sector is counted exactly, or was given up and the loss of its records was logged.
GivenUp(s) ==
  /\ "append_error" \in Faults
  /\ s # activeSector /\ undrainedInSector[s] = 0 /\ UndrainedIdsIn(s) \subseteq evicted
CountsOK ==
  /\ \A s \in Sector : Exact(s) \/ GivenUp(s)
  /\ pendingCount = Cardinality(Live)

\* Every counted record lies on the walk from the oldest position to the active sector, and
\* every sector on that walk is counted exactly.
OnWalk(s) == Dist(oldest.sector, s) <= Dist(oldest.sector, activeSector)
WalkOK ==
  /\ \A x \in Live : OnWalk(x[1]) /\ (x[1] = oldest.sector => oldest.offset <= x[2])
  /\ pendingCount > 0 => \A s \in Sector : OnWalk(s) => Exact(s)

\* A batch that was handed out: the first counted records of the walk.
PeekOK ==
  /\ Len(batch) = Len(peeked)
  /\ \A i \in 1 .. Len(peeked) :
       /\ <<peeked[i].sector, peeked[i].offset>> \in Live
       /\ batch[i] = slot[peeked[i].sector][peeked[i].offset].id
       /\ \A j \in 1 .. Len(peeked) : i < j => Before(oldest, peeked[i], peeked[j])
       /\ \A x \in Live : \/ \E j \in 1 .. Len(peeked) : peeked[j] = At(x[1], x[2])
                          \/ Before(oldest, peeked[i], At(x[1], x[2]))
  /\ Len(peeked) > 0 => peekEnd = After(peeked[Len(peeked)])

Reset == pendingCount = 0 /\ undrainedInSector = [s \in Sector |-> 0]

LogInv ==
  /\ FlashTypeOK /\ RamTypeOK /\ RecordsInOrder /\ IdsInOrder /\ RingOK
  /\ ready => ActiveOK /\ CountsOK /\ WalkOK /\ PeekOK
  /\ ~ ready => Reset /\ peeked = << >> /\ batch = << >>

-----------------------------------------------------------------------------
(* Counting.                                                                *)

LEMMA SlotSetIs ==
  ASSUME NEW U \in SUBSET Slot
  PROVE  IsFiniteSet(U) /\ Cardinality(U) \in Nat /\ (Cardinality(U) = 0 <=> U = {})
<1>1. IsFiniteSet(Slot)
  BY SectorIs, FS_Interval DEF Slot
<1> QED BY <1>1, FS_Subset, FS_CardinalityType, FS_EmptySet

LEMMA CellSetIs ==
  ASSUME NEW L \in SUBSET (Sector \X Slot)
  PROVE  /\ IsFiniteSet(L) /\ Cardinality(L) \in Nat /\ (Cardinality(L) = 0 <=> L = {})
         /\ Cardinality(L) < CountMod
<1>1. IsFiniteSet(Slot) /\ Cardinality(Slot) = SlotsPerSector
  <2>1. Cardinality(0 .. SlotsPerSector - 1) =
          IF 0 > SlotsPerSector - 1 THEN 0 ELSE (SlotsPerSector - 1) - 0 + 1
    BY SectorIs, FS_Interval
  <2> QED BY <2>1, SectorIs, FS_Interval DEF Slot
<1>2. IsFiniteSet(Sector) /\ Cardinality(Sector) = NumSectors
  <2>1. Cardinality(0 .. NumSectors - 1) =
          IF 0 > NumSectors - 1 THEN 0 ELSE (NumSectors - 1) - 0 + 1
    BY SectorIs, FS_Interval
  <2> QED BY <2>1, SectorIs, FS_Interval DEF Sector
<1>3. IsFiniteSet(Sector \X Slot) /\ Cardinality(Sector \X Slot) = NumSectors * SlotsPerSector
  BY <1>1, <1>2, FS_Product
<1>4. IsFiniteSet(L) /\ Cardinality(L) <= Cardinality(Sector \X Slot)
  BY <1>3, FS_Subset
<1>5. Cardinality(L) \in Nat /\ (Cardinality(L) = 0 <=> L = {})
  BY <1>4, FS_CardinalityType, FS_EmptySet
<1>6. Cardinality(L) < CountMod
  <2>1. CountMod > NumSectors * SlotsPerSector /\ CountMod \in Nat
    BY LogAssumption
  <2>2. NumSectors * SlotsPerSector \in Nat
    BY SectorIs
  <2> QED BY <1>3, <1>4, <1>5, <2>1, <2>2
<1> QED BY <1>4, <1>5, <1>6

\* A set of cells loses those of one sector.
LEMMA RemoveSector ==
  ASSUME NEW L \in SUBSET (Sector \X Slot), NEW s \in Sector, NEW U \in SUBSET Slot,
         \A o \in Slot : <<s, o>> \in L <=> o \in U
  PROVE  /\ Cardinality({x \in L : x[1] # s}) = Cardinality(L) - Cardinality(U)
         /\ Cardinality(U) <= Cardinality(L)
<1> DEFINE C == {s} \X U
<1>1. IsFiniteSet({s}) /\ Cardinality({s}) = 1
  BY FS_Singleton
<1>2. IsFiniteSet(U) /\ Cardinality(U) \in Nat
  BY SlotSetIs
<1>3. IsFiniteSet(C) /\ Cardinality(C) = Cardinality(U)
  <2>1. IsFiniteSet({s} \X U) /\ Cardinality({s} \X U) = Cardinality({s}) * Cardinality(U)
    BY <1>1, <1>2, FS_Product
  <2> QED BY <1>1, <1>2, <2>1
<1>4. C \subseteq L
  OBVIOUS
<1>5. IsFiniteSet(L) /\ Cardinality(L) \in Nat
  BY CellSetIs
<1>6. L \cap C = C
  BY <1>4
<1>7. {x \in L : x[1] # s} = L \ C
  OBVIOUS
<1> HIDE DEF C
<1>8. Cardinality(L \ C) = Cardinality(L) - Cardinality(L \cap C)
  BY <1>5, FS_Difference
<1>9. Cardinality(C) <= Cardinality(L)
  BY <1>4, <1>5, FS_Subset
<1> QED BY <1>3, <1>6, <1>7, <1>8, <1>9

LEMMA LiveIs == Live \in SUBSET (Sector \X Slot) /\ \A s : Und(s) \in SUBSET Slot
BY DEF Live, Und

-----------------------------------------------------------------------------
(* What a roll does to the counts, however far it gets.                     *)

LiveBut(s) == {x \in Live : x[1] # s}

LEMMA RollTargetIs ==
  ASSUME LogInv
  PROVE  RollTarget \in Sector /\ RollTarget # activeSector
BY NextIs DEF LogInv, RamTypeOK, RollTarget

LEMMA QuietRoll ==
  ASSUME LogInv, ready, ~ Evicts(TRUE)
  PROVE  /\ undrainedInSector[RollTarget] = 0
         /\ UndrainedIdsIn(RollTarget) \subseteq evicted
         /\ LiveBut(RollTarget) = Live
         /\ pendingCount > 0 => /\ ~ OnWalk(RollTarget)
                                /\ Dist(oldest.sector, RollTarget) = Dist(oldest.sector, activeSector) + 1
<1> DEFINE T == RollTarget
<1>1. /\ T \in Sector /\ T = NextSector(activeSector) /\ activeSector \in Sector
      /\ oldest.sector \in Sector /\ pendingCount \in Nat /\ undrainedInSector \in [Sector -> Nat]
  BY RollTargetIs DEF LogInv, RamTypeOK, RollTarget, Position
<1>2. T # oldest.sector \/ pendingCount = 0
  BY <1>1 DEF Evicts
<1> HIDE DEF T
<1>3. pendingCount > 0 =>
        ~ OnWalk(T) /\ Dist(oldest.sector, T) = Dist(oldest.sector, activeSector) + 1
  <2>1. T # oldest.sector => Dist(oldest.sector, T) = Dist(oldest.sector, activeSector) + 1
    BY <1>1, NextIs
  <2>2. Dist(oldest.sector, activeSector) \in Nat
    BY <1>1, DistIs, SectorIs
  <2> QED BY <1>1, <1>2, <2>1, <2>2 DEF OnWalk
<1>4. Live = {} \/ pendingCount > 0
  BY <1>1, LiveIs, CellSetIs DEF LogInv, CountsOK
<1>5. \A x \in Live : x[1] # T
  BY <1>3, <1>4 DEF LogInv, WalkOK
<1>6. undrainedInSector[T] = 0 \/ Und(T) = {}
  <2> SUFFICES ASSUME undrainedInSector[T] # 0, NEW o \in Und(T) PROVE FALSE
    OBVIOUS
  <2>1. <<T, o>> \in Live
    BY <1>1, LiveIs DEF Live
  <2> QED BY <1>5, <2>1
<1>7. undrainedInSector[T] = 0
  BY <1>1, <1>6, LiveIs, SlotSetIs DEF LogInv, CountsOK, GivenUp, Exact
<1>8. UndrainedIdsIn(T) \subseteq evicted
  <2>1. CASE Exact(T)
    <3>1. Und(T) = {}
      BY <1>7, <2>1, LiveIs, SlotSetIs DEF Exact
    <3> QED BY <3>1 DEF Und, UndrainedIdsIn
  <2> QED BY <1>1, <2>1 DEF LogInv, CountsOK, GivenUp
<1> QED BY <1>3, <1>5, <1>7, <1>8 DEF LiveBut, T

LEMMA EvictingRoll ==
  ASSUME LogInv, ready, Evicts(TRUE)
  PROVE  /\ pendingCount > 0 /\ oldest.sector = RollTarget
         /\ Cardinality(LiveBut(RollTarget)) = Minus(pendingCount, undrainedInSector[RollTarget])
         /\ \A s \in Sector : OnWalk(s) /\ Exact(s)
         /\ \A s \in Sector : s # RollTarget => 
              Dist(NextSector(RollTarget), s) <= Dist(NextSector(RollTarget), activeSector)
         /\ Dist(NextSector(RollTarget), RollTarget) = Dist(NextSector(RollTarget), activeSector) + 1
<1> DEFINE T == RollTarget
<1>1. /\ T \in Sector /\ T = NextSector(activeSector) /\ activeSector \in Sector /\ T # activeSector
      /\ pendingCount \in Nat /\ undrainedInSector \in [Sector -> Nat]
  BY RollTargetIs DEF LogInv, RamTypeOK, RollTarget, Position
<1>2. oldest.sector = T /\ pendingCount > 0
  BY DEF Evicts
<1> HIDE DEF T
<1>3. Dist(T, activeSector) = NumSectors - 1
  BY <1>1, NextIs
<1>4. \A s \in Sector : OnWalk(s)
  <2>1. \A s \in Sector : Dist(T, s) \in 0 .. NumSectors - 1
    BY <1>1, DistIs
  <2> QED BY <1>2, <1>3, <2>1, SectorIs DEF OnWalk
<1>5. \A s \in Sector : Exact(s)
  BY <1>2, <1>4 DEF LogInv, WalkOK
<1>6. \A o \in Slot : <<T, o>> \in Live <=> o \in Und(T)
  <2>1. undrainedInSector[T] = Cardinality(Und(T))
    BY <1>1, <1>5 DEF Exact
  <2>2. \A o \in Und(T) : undrainedInSector[T] # 0
    BY <2>1, LiveIs, SlotSetIs
  <2> QED BY <1>1, <2>2 DEF Live
<1>7. /\ Cardinality(LiveBut(T)) = pendingCount - undrainedInSector[T]
      /\ undrainedInSector[T] <= pendingCount
  <2>1. /\ Cardinality({x \in Live : x[1] # T}) = Cardinality(Live) - Cardinality(Und(T))
        /\ Cardinality(Und(T)) <= Cardinality(Live)
    BY <1>1, <1>6, LiveIs, RemoveSector
  <2>2. pendingCount = Cardinality(Live) /\ undrainedInSector[T] = Cardinality(Und(T))
    BY <1>1, <1>5 DEF LogInv, CountsOK, Exact
  <2> QED BY <2>1, <2>2 DEF LiveBut
<1>8. Cardinality(LiveBut(T)) = Minus(pendingCount, undrainedInSector[T])
  BY <1>7 DEF Minus
<1>9. /\ Dist(NextSector(T), activeSector) = NumSectors - 2
      /\ Dist(NextSector(T), T) = NumSectors - 1
      /\ \A s \in Sector : s # T => Dist(NextSector(T), s) <= NumSectors - 2
  <2>1. \A s \in Sector : Dist(NextSector(T), s) = IF T = s THEN NumSectors - 1 ELSE Dist(T, s) - 1
    BY <1>1, NextIs
  <2>2. \A s \in Sector : Dist(T, s) \in 0 .. NumSectors - 1
    BY <1>1, DistIs
  <2> QED BY <1>1, <1>3, <2>1, <2>2, SectorIs
<1> QED BY <1>1, <1>2, <1>4, <1>5, <1>8, <1>9, SectorIs DEF T

\* Whatever the roll target held is given up: the records that remain counted are on the walk
\* from where the oldest record is now, and the target is the sector behind the walk.
LEMMA RollAccounts ==
  ASSUME LogInv, ready
  PROVE  /\ PendingAfterRoll(TRUE) = Cardinality(LiveBut(RollTarget))
         /\ UndrainedIdsIn(RollTarget) \subseteq EvictedAfterRoll(TRUE)
         /\ OldestAfterRoll(TRUE) \in Position
         /\ Evicts(TRUE) \/ undrainedInSector[RollTarget] = 0
         /\ \A x \in LiveBut(RollTarget) :
              /\ Dist(OldestAfterRoll(TRUE).sector, x[1]) <= Dist(OldestAfterRoll(TRUE).sector, activeSector)
              /\ x[1] = OldestAfterRoll(TRUE).sector => OldestAfterRoll(TRUE).offset <= x[2]
         /\ PendingAfterRoll(TRUE) > 0 =>
              /\ Dist(OldestAfterRoll(TRUE).sector, RollTarget)
                   = Dist(OldestAfterRoll(TRUE).sector, activeSector) + 1
              /\ \A s \in Sector :
                   Dist(OldestAfterRoll(TRUE).sector, s) <= Dist(OldestAfterRoll(TRUE).sector, activeSector)
                     => Exact(s)
<1>1. CASE ~ Evicts(TRUE)
  <2>1. OldestAfterRoll(TRUE) = oldest /\ PendingAfterRoll(TRUE) = pendingCount
        /\ EvictedAfterRoll(TRUE) = evicted
    BY <1>1 DEF OldestAfterRoll, PendingAfterRoll, EvictedAfterRoll
  <2>2. oldest \in Position /\ pendingCount = Cardinality(Live)
    BY DEF LogInv, RamTypeOK, CountsOK
  <2> QED BY <1>1, <2>1, <2>2, QuietRoll DEF LogInv, WalkOK, OnWalk
<1>2. CASE Evicts(TRUE)
  <2>1. /\ OldestAfterRoll(TRUE) = At(NextSector(RollTarget), 0)
        /\ PendingAfterRoll(TRUE) = Minus(pendingCount, undrainedInSector[RollTarget])
        /\ EvictedAfterRoll(TRUE) = evicted \cup UndrainedIdsIn(RollTarget)
    BY <1>2 DEF OldestAfterRoll, PendingAfterRoll, EvictedAfterRoll
  <2>2. /\ At(NextSector(RollTarget), 0).sector = NextSector(RollTarget)
        /\ At(NextSector(RollTarget), 0).offset = 0
        /\ At(NextSector(RollTarget), 0) \in Position
    BY RollTargetIs, NextIs, SectorIs DEF At, Position, Offset
  <2>3. \A x \in LiveBut(RollTarget) : x[1] \in Sector /\ x[1] # RollTarget /\ 0 <= x[2]
    BY SectorIs DEF LiveBut, Live, Slot
  <2> QED BY <1>2, <2>1, <2>2, <2>3, EvictingRoll
<1> QED BY <1>1, <1>2

-----------------------------------------------------------------------------
(* What an append leaves on flash.                                          *)

LEMMA TargetIs ==
  ASSUME LogInv, ready, NEW rolls \in BOOLEAN, RollChoice(rolls)
  PROVE  /\ TargetSector(rolls) \in Sector /\ TargetOffset(rolls) \in Slot
         /\ activeSector \in Sector /\ head[activeSector] = "valid"
         /\ rolls => /\ TargetSector(rolls) = RollTarget /\ TargetOffset(rolls) = 0
                     /\ TargetSector(rolls) # activeSector
         /\ ~ rolls => /\ TargetSector(rolls) = activeSector /\ TargetOffset(rolls) = writeOffset
                       /\ \A i \in Slot : writeOffset <= i => slot[activeSector][i] = BlankCell
<1>1. activeSector \in Sector /\ writeOffset \in Offset /\ activeSectorClosed \in BOOLEAN
  BY DEF LogInv, RamTypeOK
<1>2. head[activeSector] = "valid"
  <2>1. Occupied # {} /\ \E a, z \in Sector : IsArc(a, z) /\ activeSector = z
    BY DEF LogInv, RingOK
  <2> QED BY <1>1, <2>1, DistIs DEF IsArc, Occupied
<1>3. CASE rolls
  BY <1>1, <1>2, <1>3, RollTargetIs, SectorIs DEF TargetSector, TargetOffset, Slot
<1>4. CASE ~ rolls
  <2>1. ~ activeSectorClosed /\ writeOffset # SlotsPerSector
    BY <1>4 DEF RollChoice
  <2>2. \A i \in Slot : writeOffset <= i => slot[activeSector][i] = BlankCell
    BY <2>1 DEF LogInv, ActiveOK
  <2> QED BY <1>1, <1>2, <1>4, <2>1, <2>2, SectorIs DEF TargetSector, TargetOffset, Slot, Offset
<1> QED BY <1>3, <1>4

NewCell(b) ==
  IF b = "blank" THEN BlankCell
  ELSE [body |-> b, id |-> IF b = "record" THEN nextId ELSE 0, undrained |-> TRUE]

\* The append wrote sector s from offset o on and nothing else.
Wrote(s, o, rolls, h, g, b) ==
  /\ \A t \in Sector : t # s => head'[t] = head[t] /\ gen'[t] = gen[t] /\ slot'[t] = slot[t]
  /\ head'[s] = IF rolls THEN h ELSE head[s]
  /\ gen'[s] = IF rolls THEN g ELSE gen[s]
  /\ \A i \in Slot : slot'[s][i] = IF i = o THEN NewCell(b)
                                   ELSE IF rolls THEN BlankCell ELSE slot[s][i]
  /\ ~ rolls => slot[s][o] = BlankCell

LEMMA AppendWrites ==
  ASSUME LogInv, ready, NEW rolls \in BOOLEAN, RollChoice(rolls),
         NEW h \in {"blank", "torn", "valid"}, NEW g \in Nat, NEW b \in {"blank", "torn", "record"},
         AppendOnFlash(rolls, h, g, b)
  PROVE  /\ FlashTypeOK'
         /\ Wrote(TargetSector(rolls), TargetOffset(rolls), rolls, h, g, b)
<1> DEFINE T == TargetSector(rolls)
           o == TargetOffset(rolls)
           base == IF rolls THEN [slot EXCEPT ![T] = BlankSector] ELSE slot
           new == [body |-> IF base[T][o].body = "blank" THEN b ELSE "torn",
                   id |-> IF b = "record" THEN nextId ELSE 0,
                   undrained |-> base[T][o].undrained]
<1>1. /\ T \in Sector /\ o \in Slot
      /\ ~ rolls => slot[T][o] = BlankCell
  BY TargetIs, SectorIs DEF Slot
<1>2. /\ head \in [Sector -> {"blank", "torn", "valid"}] /\ gen \in [Sector -> Nat]
      /\ slot \in [Sector -> [Slot -> Cell]] /\ nextId \in Nat
  BY DEF LogInv, FlashTypeOK, RamTypeOK
<1>3. BlankCell \in Cell /\ BlankCell.body = "blank" /\ BlankCell.undrained = TRUE
  BY DEF BlankCell, Cell
<1>4. BlankSector \in [Slot -> Cell] /\ \A i \in Slot : BlankSector[i] = BlankCell
  BY <1>3 DEF BlankSector
<1>5. /\ head' = IF rolls THEN [head EXCEPT ![T] = h] ELSE head
      /\ gen' = IF rolls THEN [gen EXCEPT ![T] = g] ELSE gen
      /\ slot' = IF b = "blank" THEN base ELSE [base EXCEPT ![T] = [base[T] EXCEPT ![o] = new]]
  BY DEF AppendOnFlash
<1>6. /\ base \in [Sector -> [Slot -> Cell]]
      /\ \A t \in Sector : t # T => base[t] = slot[t]
      /\ \A i \in Slot : base[T][i] = IF rolls THEN BlankCell ELSE slot[T][i]
  BY <1>1, <1>2, <1>4
<1>7. base[T][o] = BlankCell
  BY <1>1, <1>6
<1>8. b # "blank" => new = NewCell(b)
  BY <1>3, <1>7 DEF NewCell
<1>9. NewCell(b) \in Cell
  BY <1>2, <1>3 DEF NewCell, Cell
<1> HIDE DEF T, o, base, new
<1>10. /\ slot' \in [Sector -> [Slot -> Cell]]
       /\ \A t \in Sector : t # T => slot'[t] = slot[t]
       /\ \A i \in Slot : slot'[T][i] = IF i = o THEN NewCell(b)
                                        ELSE IF rolls THEN BlankCell ELSE slot[T][i]
  <2>1. CASE b = "blank"
    <3>1. slot' = base /\ NewCell(b) = BlankCell
      BY <1>5, <2>1 DEF NewCell
    <3> QED BY <1>1, <1>6, <1>7, <3>1
  <2>2. CASE b # "blank"
    <3>1. slot' = [base EXCEPT ![T] = [base[T] EXCEPT ![o] = NewCell(b)]]
      BY <1>5, <1>8, <2>2
    <3> DEFINE row == [base[T] EXCEPT ![o] = NewCell(b)]
    <3>2. row \in [Slot -> Cell] /\ \A i \in Slot : row[i] = IF i = o THEN NewCell(b) ELSE base[T][i]
      BY <1>1, <1>6, <1>9
    <3> HIDE DEF row
    <3>3. slot' = [base EXCEPT ![T] = row]
      BY <3>1 DEF row
    <3> QED BY <1>1, <1>6, <3>2, <3>3
  <2> QED BY <2>1, <2>2
<1>11. /\ head' \in [Sector -> {"blank", "torn", "valid"}] /\ gen' \in [Sector -> Nat]
       /\ \A t \in Sector : t # T => head'[t] = head[t] /\ gen'[t] = gen[t]
       /\ head'[T] = (IF rolls THEN h ELSE head[T]) /\ gen'[T] = (IF rolls THEN g ELSE gen[T])
  BY <1>1, <1>2, <1>5
<1> QED BY <1>1, <1>10, <1>11 DEF FlashTypeOK, Wrote, T, o

LEMMA WrittenRecords ==
  ASSUME LogInv, ready, NEW rolls \in BOOLEAN, RollChoice(rolls),
         NEW h \in {"blank", "torn", "valid"}, NEW g \in Nat, NEW b \in {"blank", "torn", "record"},
         NEW T, NEW o, T = TargetSector(rolls), o = TargetOffset(rolls), Wrote(T, o, rolls, h, g, b)
  PROVE  /\ \A s \in Sector, i \in Slot :
              IsRecord(s, i)' <=> IF s = T /\ (i = o \/ rolls) THEN i = o /\ b = "record"
                                  ELSE IsRecord(s, i)
         /\ \A s \in Sector, i \in Slot :
              IsUndrained(s, i)' <=> IF s = T /\ (i = o \/ rolls) THEN i = o /\ b = "record"
                                     ELSE IsUndrained(s, i)
         /\ \A s \in Sector, i \in Slot :
              slot'[s][i].id = IF s = T /\ i = o /\ b = "record" THEN nextId
                               ELSE IF s = T /\ (i = o \/ rolls) THEN 0 ELSE slot[s][i].id
         /\ ~ rolls => ~ IsRecord(T, o)
<1>1. T \in Sector /\ o \in Slot
  BY TargetIs
<1>2. /\ BlankCell.body = "blank" /\ BlankCell.id = 0
      /\ NewCell(b).body = b /\ NewCell(b).undrained = TRUE
      /\ NewCell(b).id = IF b = "record" THEN nextId ELSE 0
  BY DEF BlankCell, NewCell
<1>3. \A s \in Sector, i \in Slot :
        slot'[s][i] = IF s = T /\ i = o THEN NewCell(b)
                      ELSE IF s = T /\ rolls THEN BlankCell ELSE slot[s][i]
  BY <1>1 DEF Wrote
<1>4. ~ rolls => ~ IsRecord(T, o)
  BY <1>2 DEF Wrote, IsRecord
<1> QED BY <1>2, <1>3, <1>4 DEF IsRecord, IsUndrained

\* The active sector is the newest one.
LEMMA ActiveIsNewest ==
  ASSUME LogInv, ready
  PROVE  /\ \E a \in Sector : IsArc(a, activeSector)
         /\ Tidy(activeSector) /\ activeSector \in Occupied
         /\ \A s \in Occupied : s # activeSector => gen[s] < gen[activeSector]
         /\ \A s \in Occupied : gen[s] < nextGeneration /\ gen[s] \in Nat
         /\ nextGeneration \in Nat /\ nextGeneration <= nextId + 1
<1>1. activeSector \in Sector /\ gen \in [Sector -> Nat] /\ nextGeneration \in Nat
  BY DEF LogInv, RamTypeOK, FlashTypeOK
<1>2. PICK a \in Sector : IsArc(a, activeSector) /\ Tidy(activeSector)
  BY DEF LogInv, RingOK
<1>3. Dist(a, activeSector) \in Nat /\ activeSector \in Occupied
  BY <1>1, <1>2, DistIs, SectorIs DEF IsArc
<1>4. ASSUME NEW s \in Occupied, s # activeSector PROVE gen[s] < gen[activeSector]
  <2>1. s \in Sector /\ Dist(a, s) <= Dist(a, activeSector) /\ Dist(a, s) \in Nat
    BY <1>2, DistIs, SectorIs DEF IsArc, Occupied
  <2>2. Dist(a, s) # Dist(a, activeSector)
    BY <1>1, <1>4, <2>1, DistIs
  <2> QED BY <1>2, <1>3, <2>1, <2>2 DEF IsArc
<1>5. \A s \in Occupied : gen[s] < nextGeneration /\ gen[s] \in Nat
  BY <1>1 DEF LogInv, RingOK, Occupied
<1> QED BY <1>1, <1>2, <1>3, <1>4, <1>5 DEF LogInv, RingOK

\* A write that finishes a sector header numbers it with the next generation; one that does not
\* writes no record either.
Numbered(rolls, h, g, b) ==
  \/ h = "valid" /\ g = nextGeneration
  \/ h # "valid" /\ rolls /\ b = "blank"

LEMMA AppendRecords ==
  ASSUME LogInv, ready, NEW rolls \in BOOLEAN, RollChoice(rolls), nextId' = nextId + 1,
         NEW h \in {"blank", "torn", "valid"}, NEW g \in Nat, NEW b \in {"blank", "torn", "record"},
         Numbered(rolls, h, g, b),
         NEW T, NEW o, T = TargetSector(rolls), o = TargetOffset(rolls), Wrote(T, o, rolls, h, g, b)
  PROVE  RecordsInOrder' /\ IdsInOrder'
<1>1. /\ T \in Sector /\ o \in Slot /\ nextId \in Nat
      /\ rolls => o = 0 /\ T # activeSector
      /\ ~ rolls => T = activeSector /\ o = writeOffset /\ head[T] = "valid"
  BY TargetIs DEF LogInv, RamTypeOK
<1>2. /\ \A s \in Sector, i \in Slot :
           IsRecord(s, i)' <=> IF s = T /\ (i = o \/ rolls) THEN i = o /\ b = "record"
                               ELSE IsRecord(s, i)
      /\ \A s \in Sector, i \in Slot :
           slot'[s][i].id = IF s = T /\ i = o /\ b = "record" THEN nextId
                            ELSE IF s = T /\ (i = o \/ rolls) THEN 0 ELSE slot[s][i].id
  BY WrittenRecords
<1>3. /\ \A s \in Sector : s # T => head'[s] = head[s] /\ gen'[s] = gen[s]
      /\ head'[T] = IF rolls THEN h ELSE head[T]
      /\ gen'[T] = IF rolls THEN g ELSE gen[T]
  BY <1>1 DEF Wrote
<1>4. b = "record" => h = "valid" /\ g = nextGeneration
  BY DEF Numbered
<1>5. ~ rolls => \A i \in Slot : i < o <=> IsRecord(T, i)
  BY <1>1 DEF LogInv, ActiveOK
<1>6. RecordsInOrder'
  <2> SUFFICES ASSUME NEW s \in Sector, NEW i \in Slot, IsRecord(s, i)'
               PROVE  head'[s] = "valid" /\ \A j \in 0 .. i : IsRecord(s, j)'
    BY DEF RecordsInOrder
  <2>1. 0 .. i \subseteq Slot /\ i \in 0 .. i /\ Slot \subseteq Nat
    BY SectorIs DEF Slot
  <2>2. CASE s # T
    <3>1. IsRecord(s, i)
      BY <1>2, <2>2
    <3>2. head[s] = "valid" /\ \A j \in 0 .. i : IsRecord(s, j)
      BY <3>1 DEF LogInv, RecordsInOrder
    <3> QED BY <1>2, <1>3, <2>1, <2>2, <3>2
  <2>3. CASE s = T /\ rolls
    <3>1. i = 0 /\ b = "record" /\ i = o
      BY <1>1, <1>2, <2>3
    <3>2. 0 .. i = {0}
      BY <3>1
    <3> QED BY <1>2, <1>3, <1>4, <2>1, <2>3, <3>1, <3>2
  <2>4. CASE s = T /\ ~ rolls
    <3>1. i < o \/ (i = o /\ b = "record")
      BY <1>2, <1>5, <2>4
    <3>2. ASSUME NEW j \in 0 .. i PROVE IsRecord(T, j)'
      <4>1. j \in Slot /\ (j < o \/ (j = o /\ b = "record"))
        BY <1>1, <2>1, <3>1 DEF Slot
      <4> QED BY <1>1, <1>2, <1>5, <2>4, <4>1
    <3> QED BY <1>1, <1>3, <2>4, <3>2
  <2> QED BY <2>2, <2>3, <2>4
<1>7. \A s \in Sector, i \in Slot : IsRecord(s, i) => s \in Occupied /\ slot[s][i].id < nextId
  BY DEF LogInv, RecordsInOrder, IdsInOrder, Occupied
<1>8. \A s \in Sector, i \in Slot : slot[s][i].id \in Nat
  BY DEF LogInv, FlashTypeOK, Cell
<1>9. ASSUME NEW s \in Sector, NEW i \in Slot, IsRecord(s, i)'
      PROVE  slot'[s][i].id < nextId'
  BY <1>1, <1>2, <1>7, <1>8, <1>9
<1>10. ASSUME NEW s \in Sector, NEW t \in Sector, NEW i \in Slot, NEW j \in Slot,
              IsRecord(s, i)', IsRecord(t, j)', Precedes(s, i, t, j)'
       PROVE  slot'[s][i].id < slot'[t][j].id
  <2>1. CASE t = T /\ j = o /\ b = "record"
    <3>1. ~ (s = T /\ i = o)
      <4>1. i \in Nat
        BY SectorIs DEF Slot
      <4>2. gen'[T] \in Nat
        BY <1>1, <1>3 DEF LogInv, FlashTypeOK
      <4> QED BY <1>10, <2>1, <4>1, <4>2 DEF Precedes
    <3>2. IsRecord(s, i) /\ slot'[s][i].id = slot[s][i].id
      BY <1>2, <1>10, <3>1
    <3> QED BY <1>2, <1>7, <2>1, <3>2
  <2>2. CASE ~ (t = T /\ j = o /\ b = "record")
    <3>1. /\ IsRecord(t, j) /\ slot'[t][j].id = slot[t][j].id
          /\ t = T => ~ rolls
      BY <1>2, <1>10, <2>2
    <3>2. CASE s = T /\ i = o /\ b = "record"
      <4>1. t \in Occupied /\ gen'[t] = gen[t]
        BY <1>3, <1>7, <3>1
      <4>2. gen'[T] >= gen[t]
        <5>1. CASE rolls
          <6>1. gen'[T] = nextGeneration /\ gen[t] < nextGeneration /\ gen[t] \in Nat /\ nextGeneration \in Nat
            BY <1>3, <1>4, <3>2, <4>1, <5>1, ActiveIsNewest
          <6> QED BY <6>1
        <5>2. CASE ~ rolls
          <6>1. gen'[T] = gen[activeSector] /\ activeSector \in Occupied
            BY <1>1, <1>3, <5>2, ActiveIsNewest
          <6>2. gen[t] \in Nat /\ gen[activeSector] \in Nat
                /\ (t # activeSector => gen[t] < gen[activeSector])
            BY <4>1, <6>1, ActiveIsNewest
          <6> QED BY <6>1, <6>2
        <5> QED BY <5>1, <5>2
      <4>3. s = t /\ i < j
        <5>1. gen'[t] \in Nat /\ gen'[T] \in Nat
          BY <1>1, <1>3, <4>1 DEF LogInv, FlashTypeOK
        <5> QED BY <1>10, <3>2, <4>1, <4>2, <5>1 DEF Precedes
      <4>4. ~ rolls /\ t = T /\ ~ (j < o)
        BY <1>1, <3>1, <3>2, <4>3 DEF Slot
      <4> QED BY <1>5, <3>1, <4>4
    <3>3. CASE ~ (s = T /\ i = o /\ b = "record")
      <4>1. /\ IsRecord(s, i) /\ slot'[s][i].id = slot[s][i].id
            /\ s = T => ~ rolls
        BY <1>2, <1>10, <3>3
      <4>2. gen'[s] = gen[s] /\ gen'[t] = gen[t]
        BY <1>3, <3>1, <4>1
      <4>3. Precedes(s, i, t, j)
        BY <1>10, <4>2 DEF Precedes
      <4>4. slot[s][i].id < slot[t][j].id
        BY <3>1, <4>1, <4>3 DEF LogInv, IdsInOrder
      <4> QED BY <3>1, <4>1, <4>4
    <3> QED BY <3>2, <3>3
  <2> QED BY <2>1, <2>2
<1> QED BY <1>6, <1>9, <1>10 DEF IdsInOrder

\* The ring after an append: z is its newest sector.
LEMMA AppendRing ==
  ASSUME LogInv, ready, NEW rolls \in BOOLEAN, RollChoice(rolls), nextId' = nextId + 1,
         NEW h \in {"blank", "torn", "valid"}, NEW g \in Nat, NEW b \in {"blank", "torn", "record"},
         Numbered(rolls, h, g, b),
         NEW T, NEW o, T = TargetSector(rolls), o = TargetOffset(rolls), Wrote(T, o, rolls, h, g, b),
         NEW z, z = IF h = "valid" THEN T ELSE activeSector
  PROVE  /\ \E a \in Sector : IsArc(a, z)'
         /\ Tidy(z)' /\ Occupied' # {} /\ z \in Sector
         /\ \A s \in Occupied' : gen'[s] <= nextId' /\ gen'[s] < nextGeneration + 1
<1>1. /\ T \in Sector /\ o \in Slot /\ nextId \in Nat /\ activeSector \in Sector
      /\ rolls => o = 0 /\ T # activeSector /\ T = NextSector(activeSector)
      /\ ~ rolls => T = activeSector /\ o = writeOffset /\ head[T] = "valid"
      /\ ~ rolls => \A i \in Slot : writeOffset <= i => slot[T][i] = BlankCell
  BY TargetIs DEF LogInv, RamTypeOK, RollTarget
<1>2. /\ \A s \in Sector : s # T => head'[s] = head[s] /\ gen'[s] = gen[s] /\ slot'[s] = slot[s]
      /\ head'[T] = IF rolls THEN h ELSE head[T]
      /\ gen'[T] = IF rolls THEN g ELSE gen[T]
      /\ \A i \in Slot : slot'[T][i] = IF i = o THEN NewCell(b)
                                       ELSE IF rolls THEN BlankCell ELSE slot[T][i]
  BY <1>1 DEF Wrote
<1>3. ~ rolls => h = "valid" /\ z = activeSector
  BY <1>1 DEF Numbered
<1>4. PICK a \in Sector : IsArc(a, activeSector)
  BY ActiveIsNewest
<1>5. Occupied' = IF h = "valid" THEN Occupied \cup {T} ELSE Occupied \ {T}
  BY <1>1, <1>2, <1>3 DEF Occupied
<1>6. \A s \in Occupied : gen[s] < nextGeneration /\ gen[s] \in Nat
  BY ActiveIsNewest
<1>7. nextGeneration \in Nat /\ nextGeneration <= nextId + 1 /\ nextId' = nextId + 1
  BY ActiveIsNewest
<1>8. \A s \in Occupied' : gen'[s] <= nextId' /\ gen'[s] < nextGeneration + 1
  <2> TAKE s \in Occupied'
  <2>1. (gen'[s] = gen[s] /\ s \in Occupied) \/ gen'[s] = nextGeneration
    BY <1>2, <1>3, <1>5 DEF Numbered, Occupied
  <2> QED BY <1>1, <1>6, <1>7, <2>1
<1>9. z \in Sector /\ z \in Occupied'
  <2>1. CASE h = "valid"
    BY <1>1, <1>5, <2>1
  <2>2. CASE h # "valid"
    <3>1. z = activeSector /\ rolls /\ T # activeSector /\ activeSector \in Occupied
      BY <1>1, <1>3, <2>2, ActiveIsNewest
    <3> QED BY <1>1, <1>5, <2>2, <3>1
  <2> QED BY <2>1, <2>2
<1>10. Tidy(z)'
  <2> SUFFICES ASSUME NEW i \in Slot, slot'[z][i] = BlankCell,
                      NEW j \in i .. SlotsPerSector - 1
               PROVE  slot'[z][j] = BlankCell
    BY DEF Tidy
  <2>1. j \in Slot /\ i <= j /\ Slot \subseteq Int
    BY SectorIs DEF Slot
  <2>2. CASE h # "valid"
    <3>1. z # T /\ z = activeSector
      BY <1>1, <1>3, <2>2
    <3> QED BY <1>1, <1>2, <2>1, <3>1, ActiveIsNewest DEF Tidy
  <2>3. CASE h = "valid" /\ rolls
    <3>1. \A k \in Slot : k # 0 => slot'[T][k] = BlankCell
      BY <1>1, <1>2, <2>3
    <3>2. z = T /\ i \in Int /\ j \in Int /\ (j = 0 => i = 0)
      BY <2>1, <2>3 DEF Slot
    <3> QED BY <2>1, <3>1, <3>2
  <2>4. CASE h = "valid" /\ ~ rolls
    <3>1. \A k \in Slot : k < o => IsRecord(T, k)
      BY <1>1, <2>4 DEF LogInv, ActiveOK
    <3>2. BlankCell.body = "blank" /\ (b # "blank" => NewCell(b).body # "blank")
      BY DEF BlankCell, NewCell
    <3>3. b # "blank" => i # o
      BY <1>1, <1>2, <2>4, <3>2
    <3>4. ~ (i < o)
      <4> SUFFICES ASSUME i < o PROVE FALSE
        OBVIOUS
      <4>1. i # o /\ z = T
        BY <1>1, <2>4 DEF Slot
      <4>2. slot'[T][i] = slot[T][i]
        BY <1>2, <2>4, <4>1
      <4>3. slot[T][i].body = "record"
        BY <3>1 DEF IsRecord
      <4> QED BY <3>2, <4>1, <4>2, <4>3
    <3>5. j # o \/ b = "blank"
      BY <1>1, <2>1, <3>3, <3>4 DEF Slot
    <3>6. o <= j
      BY <1>1, <2>1, <3>4 DEF Slot
    <3>7. slot[T][j] = BlankCell
      BY <1>1, <2>1, <2>4, <3>6
    <3>8. slot'[T][j] = BlankCell
      BY <1>1, <1>2, <2>1, <2>4, <3>5, <3>7 DEF NewCell
    <3> QED BY <2>4, <3>8
  <2> QED BY <2>2, <2>3, <2>4
<1>11. CASE ~ rolls
  <2>1. Occupied' = Occupied /\ \A s \in Sector : gen'[s] = gen[s]
    BY <1>1, <1>2, <1>3, <1>5, <1>11, ActiveIsNewest
  <2>2. IsArc(a, z)'
    BY <1>3, <1>4, <1>11, <2>1 DEF IsArc, Occupied
  <2> QED BY <1>8, <1>9, <1>10, <2>2
<1>12. CASE rolls
  <2>1. \A s \in Sector : Dist(a, s) \in 0 .. NumSectors - 1
    BY DistIs
  <2>2. /\ Dist(a, T) = IF T = a THEN 0 ELSE Dist(a, activeSector) + 1
        /\ T = a <=> Dist(a, activeSector) = NumSectors - 1
    <3>1. T = NextSector(activeSector)
      BY <1>1, <1>12
    <3>2. /\ Dist(a, NextSector(activeSector)) =
               IF NextSector(activeSector) = a THEN 0 ELSE Dist(a, activeSector) + 1
          /\ NextSector(activeSector) = a <=> Dist(a, activeSector) = NumSectors - 1
      BY <1>1, NextIs
    <3> QED BY <3>1, <3>2
  <2>3. Occupied = {s \in Sector : Dist(a, s) <= Dist(a, activeSector)}
    BY <1>4 DEF IsArc
  <2>4. \A s, t \in Occupied : Dist(a, s) < Dist(a, t) => gen[s] < gen[t]
    BY <1>4 DEF IsArc
  <2>5. CASE T # a
    <3>1. T \notin Occupied
      BY <1>1, <2>1, <2>2, <2>3, <2>5
    <3>2. CASE h # "valid"
      <4>1. Occupied' = Occupied /\ \A s \in Occupied : gen'[s] = gen[s]
        BY <1>2, <1>5, <3>1, <3>2 DEF Occupied
      <4>2. IsArc(a, z)'
        BY <2>3, <2>4, <3>2, <4>1 DEF IsArc
      <4> QED BY <1>8, <1>9, <1>10, <4>2
    <3>3. CASE h = "valid"
      <4>1. Occupied' = Occupied \cup {T} /\ gen'[T] = nextGeneration /\ z = T
        BY <1>2, <1>5, <1>12, <3>3 DEF Numbered
      <4>2. Occupied' = {s \in Sector : Dist(a, s) <= Dist(a, T)}
        <5>1. \A s \in Sector : Dist(a, s) <= Dist(a, T) <=> s = T \/ Dist(a, s) <= Dist(a, activeSector)
          <6>1. \A s \in Sector : Dist(a, s) = Dist(a, T) => s = T
            BY <1>1, DistIs
          <6> QED BY <1>1, <2>1, <2>2, <2>5, <6>1
        <5> QED BY <1>1, <2>3, <4>1, <5>1
      <4>3. ASSUME NEW s \in Occupied', NEW t \in Occupied', Dist(a, s) < Dist(a, t)
            PROVE  gen'[s] < gen'[t]
        <5>1. s \in Sector /\ t \in Sector /\ s # T
          BY <1>1, <2>1, <4>2, <4>3
        <5>2. s \in Occupied /\ gen'[s] = gen[s]
          BY <1>2, <4>1, <5>1
        <5> QED BY <1>2, <1>6, <2>4, <4>1, <4>3, <5>1, <5>2
      <4>4. IsArc(a, z)'
        BY <4>1, <4>2, <4>3 DEF IsArc
      <4> QED BY <1>8, <1>9, <1>10, <4>4
    <3> QED BY <3>2, <3>3
  <2>6. CASE T = a
    <3> DEFINE n == NextSector(a)
    <3>1. n \in Sector /\ \A s \in Sector : Dist(n, s) = IF a = s THEN NumSectors - 1 ELSE Dist(a, s) - 1
      BY NextIs
    <3>2. Dist(a, a) = 0 /\ \A s \in Sector : Dist(a, s) = 0 <=> a = s
      BY DistIs
    <3> HIDE DEF n
    <3>3. Occupied = Sector
      BY <2>1, <2>2, <2>3, <2>6
    <3>4. \A s, t \in Sector : s # a /\ t # a /\ Dist(n, s) < Dist(n, t) => gen[s] < gen[t]
      BY <2>1, <2>4, <3>1, <3>3
    <3>5. CASE h # "valid"
      <4>1. Occupied' = Sector \ {a} /\ \A s \in Occupied' : gen'[s] = gen[s]
        BY <1>2, <1>5, <2>6, <3>3, <3>5
      <4>2. z = activeSector /\ Dist(n, z) = NumSectors - 2
        <5>1. z = activeSector /\ a # activeSector
          BY <1>1, <1>12, <2>6, <3>5
        <5>2. Dist(a, activeSector) = NumSectors - 1
          BY <2>2, <2>6
        <5> QED BY <1>1, <3>1, <5>1, <5>2, SectorIs
      <4>3. Occupied' = {s \in Sector : Dist(n, s) <= Dist(n, z)}
        BY <2>1, <3>1, <4>1, <4>2, SectorIs
      <4>4. \A s, t \in Occupied' : Dist(n, s) < Dist(n, t) => gen'[s] < gen'[t]
        BY <3>4, <4>1
      <4>5. IsArc(n, z)'
        BY <4>3, <4>4 DEF IsArc
      <4> QED BY <1>8, <1>9, <1>10, <3>1, <4>5
    <3>6. CASE h = "valid"
      <4>1. Occupied' = Sector /\ gen'[a] = nextGeneration /\ z = a
        BY <1>1, <1>2, <1>5, <1>12, <2>6, <3>3, <3>6 DEF Numbered
      <4>2. Occupied' = {s \in Sector : Dist(n, s) <= Dist(n, z)}
        BY <2>1, <3>1, <4>1, SectorIs
      <4>3. ASSUME NEW s \in Occupied', NEW t \in Occupied', Dist(n, s) < Dist(n, t)
            PROVE  gen'[s] < gen'[t]
        <5>1. s \in Sector /\ t \in Sector /\ s # a
          BY <2>1, <3>1, <4>1, <4>3, SectorIs
        <5>2. gen'[s] = gen[s] /\ s \in Occupied
          BY <1>2, <2>6, <3>3, <5>1
        <5>3. t # a => gen'[t] = gen[t] /\ gen[s] < gen[t]
          BY <1>2, <2>6, <3>4, <4>3, <5>1
        <5> QED BY <1>6, <4>1, <5>2, <5>3
      <4>4. IsArc(n, z)'
        BY <4>2, <4>3 DEF IsArc
      <4> QED BY <1>8, <1>9, <1>10, <3>1, <4>4
    <3> QED BY <3>5, <3>6
  <2> QED BY <2>5, <2>6
<1> QED BY <1>11, <1>12

-----------------------------------------------------------------------------
(* What an append does to the counts.                                       *)

\* The counted records that survive the roll, if there is one.
Kept(rolls) == IF rolls THEN LiveBut(RollTarget) ELSE Live

LEMMA AppendAccounts ==
  ASSUME LogInv, ready, NEW rolls \in BOOLEAN, RollChoice(rolls),
         NEW T, NEW o, T = TargetSector(rolls), o = TargetOffset(rolls),
         NEW old, old = OldestAfterRoll(rolls)
  PROVE  /\ Kept(rolls) \in SUBSET (Sector \X Slot) /\ Kept(rolls) \subseteq Live
         /\ PendingAfterRoll(rolls) = Cardinality(Kept(rolls))
         /\ evicted \subseteq EvictedAfterRoll(rolls)
         /\ rolls => UndrainedIdsIn(T) \subseteq EvictedAfterRoll(rolls)
         /\ rolls => Evicts(TRUE) \/ undrainedInSector[T] = 0
         /\ old \in Position
         /\ \A x \in Kept(rolls) :
              /\ Dist(old.sector, x[1]) <= Dist(old.sector, activeSector)
              /\ x[1] = old.sector => old.offset <= x[2]
              /\ x[1] = T => ~ rolls /\ x[2] < o
         /\ PendingAfterRoll(rolls) > 0 =>
              /\ Dist(old.sector, T) = Dist(old.sector, activeSector) + (IF rolls THEN 1 ELSE 0)
              /\ T = old.sector => old.offset <= o
              /\ \A s \in Sector :
                   Dist(old.sector, s) <= Dist(old.sector, activeSector) => Exact(s)
<1>1. /\ T \in Sector /\ o \in Slot /\ activeSector \in Sector
      /\ rolls => T = RollTarget /\ T # activeSector /\ o = 0
      /\ ~ rolls => T = activeSector /\ o = writeOffset
  BY TargetIs
<1>2. Kept(rolls) \in SUBSET (Sector \X Slot) /\ Kept(rolls) \subseteq Live
  BY LiveIs DEF Kept, LiveBut
<1>3. CASE rolls
  <2>1. rolls = TRUE /\ Kept(rolls) = LiveBut(RollTarget)
    BY <1>3 DEF Kept
  <2>2. evicted \subseteq EvictedAfterRoll(TRUE)
    BY DEF EvictedAfterRoll
  <2>3. \A x \in LiveBut(RollTarget) : x[1] # T
    BY <1>1, <1>3 DEF LiveBut
  <2>4. old \in Position /\ old.sector \in Sector
    BY <2>1, RollAccounts DEF Position
  <2>5. PendingAfterRoll(TRUE) > 0 => T # old.sector
    <3>1. \A s \in Sector : Dist(old.sector, s) \in Nat /\ (Dist(old.sector, s) = 0 <=> old.sector = s)
      BY <2>4, DistIs, SectorIs
    <3>2. PendingAfterRoll(TRUE) > 0 => Dist(old.sector, T) = Dist(old.sector, activeSector) + 1
      BY <1>1, <1>3, <2>1, RollAccounts
    <3> QED BY <1>1, <3>1, <3>2
  <2> QED BY <1>1, <1>2, <1>3, <2>1, <2>2, <2>3, <2>4, <2>5, RollAccounts
<1>4. CASE ~ rolls
  <2>1. /\ rolls = FALSE /\ Kept(rolls) = Live /\ ~ Evicts(rolls)
        /\ old = oldest /\ PendingAfterRoll(rolls) = pendingCount
        /\ EvictedAfterRoll(rolls) = evicted
    BY <1>4 DEF Kept, Evicts, OldestAfterRoll, PendingAfterRoll, EvictedAfterRoll
  <2>2. oldest \in Position /\ oldest.sector \in Sector /\ oldest.offset \in Nat
        /\ pendingCount = Cardinality(Live)
    BY SectorIs DEF LogInv, RamTypeOK, CountsOK, Position, Offset
  <2>3. ASSUME NEW x \in Live
        PROVE  /\ Dist(oldest.sector, x[1]) <= Dist(oldest.sector, activeSector)
               /\ x[1] = oldest.sector => oldest.offset <= x[2]
               /\ x[1] = T => x[2] < o
    <3>1. x[1] \in Sector /\ x[2] \in Slot /\ IsRecord(x[1], x[2])
      BY DEF Live, Und, IsUndrained
    <3> QED BY <1>1, <1>4, <3>1 DEF LogInv, WalkOK, OnWalk, ActiveOK
  <2>4. ASSUME pendingCount > 0, T = oldest.sector PROVE oldest.offset <= o
    <3>1. PICK x \in Live : TRUE
      BY <2>2, <2>4, LiveIs, CellSetIs
    <3>2. x[1] \in Sector /\ x[2] \in Nat /\ o \in Nat
      BY <1>1, SectorIs DEF Live, Slot
    <3>3. x[1] = activeSector
      <4>1. Dist(oldest.sector, activeSector) = 0 /\ Dist(oldest.sector, x[1]) \in Nat
        BY <1>1, <1>4, <2>2, <2>4, <3>2, DistIs, SectorIs
      <4>2. Dist(oldest.sector, x[1]) = 0
        BY <2>3, <4>1
      <4> QED BY <1>1, <1>4, <2>2, <2>4, <3>2, <4>2, DistIs
    <3> QED BY <1>1, <1>4, <2>2, <2>3, <2>4, <3>2, <3>3
  <2>5. Dist(oldest.sector, T) = Dist(oldest.sector, activeSector) + 0
    BY <1>1, <1>4, <2>2, DistIs, SectorIs
  <2>6. pendingCount > 0 =>
          \A s \in Sector : Dist(oldest.sector, s) <= Dist(oldest.sector, activeSector) => Exact(s)
    BY DEF LogInv, WalkOK, OnWalk
  <2> QED BY <1>2, <1>4, <2>1, <2>2, <2>3, <2>4, <2>5, <2>6
<1> QED BY <1>3, <1>4

\* While a batch is out, an append takes nothing from the records, and writes behind the batch.
LEMMA PeekSurvives ==
  ASSUME LogInv, ready, NEW rolls \in BOOLEAN, RollChoice(rolls), MayEvict(rolls),
         "evict_in_flight" \notin Faults, Len(peeked) > 0,
         NEW T, NEW o, T = TargetSector(rolls), o = TargetOffset(rolls)
  PROVE  /\ Kept(rolls) = Live /\ OldestAfterRoll(rolls) = oldest /\ PendingAfterRoll(rolls) > 0
         /\ \A i \in 1 .. Len(peeked) : Before(oldest, peeked[i], At(T, o))
<1>1. /\ peeked \in Seq(Position) /\ pendingCount = Cardinality(Live) /\ oldest.sector \in Sector
  BY DEF LogInv, RamTypeOK, CountsOK, Position
<1>2. peeked # << >> /\ 1 \in 1 .. Len(peeked)
  BY <1>1
<1>3. ~ Evicts(rolls)
  BY <1>2 DEF MayEvict
<1>4. pendingCount > 0
  <2>1. Live # {}
    BY <1>2 DEF LogInv, PeekOK
  <2> QED BY <1>1, <2>1, LiveIs, CellSetIs
<1>5. Kept(rolls) = Live
  BY <1>3, QuietRoll DEF Kept
<1>6. OldestAfterRoll(rolls) = oldest /\ PendingAfterRoll(rolls) = pendingCount
  BY <1>3 DEF OldestAfterRoll, PendingAfterRoll
<1>7. ASSUME NEW i \in 1 .. Len(peeked) PROVE Before(oldest, peeked[i], At(T, o))
  <2> DEFINE p == peeked[i]
             x == <<p.sector, p.offset>>
  <2>1. x \in Live /\ x[1] = p.sector /\ x[2] = p.offset
    BY DEF LogInv, PeekOK
  <2> HIDE DEF x
  <2>2. p.sector \in Sector
    BY <2>1, LiveIs
  <2>3. /\ T \in Sector /\ activeSector \in Sector
        /\ ~ rolls => T = activeSector
    BY TargetIs
  <2>4. /\ Dist(oldest.sector, p.sector) <= Dist(oldest.sector, activeSector)
        /\ p.sector = T => ~ rolls /\ p.offset < o
        /\ Dist(oldest.sector, T) = Dist(oldest.sector, activeSector) + (IF rolls THEN 1 ELSE 0)
    BY ZenonT(40), <1>4, <1>5, <1>6, <2>1, AppendAccounts
  <2>5. /\ Dist(oldest.sector, p.sector) \in Nat /\ Dist(oldest.sector, activeSector) \in Nat
        /\ p.sector # activeSector => Dist(oldest.sector, p.sector) # Dist(oldest.sector, activeSector)
    <3>1. \A s \in Sector : Dist(oldest.sector, s) \in Nat
      BY <1>1, DistIs, SectorIs
    <3>2. Dist(oldest.sector, p.sector) = Dist(oldest.sector, activeSector) => p.sector = activeSector
      BY <1>1, <2>2, <2>3, DistIs
    <3> QED BY <2>2, <2>3, <3>1, <3>2
  <2>6. At(T, o).sector = T /\ At(T, o).offset = o
    BY DEF At
  <2>7. Dist(oldest.sector, p.sector) < Dist(oldest.sector, T) \/ (p.sector = T /\ p.offset < o)
    BY <2>3, <2>4, <2>5
  <2> QED BY <2>6, <2>7 DEF Before
<1> QED BY <1>4, <1>5, <1>6, <1>7

\* The counters follow the flash.
Counted(T, rolls, b) ==
  /\ undrainedInSector' \in [Sector -> Nat]
  /\ \A s \in Sector : s # T => undrainedInSector'[s] = undrainedInSector[s]
  /\ undrainedInSector'[T] = (IF rolls THEN 0 ELSE undrainedInSector[T])
                             + (IF b = "record" THEN 1 ELSE 0)

LEMMA LiveAfter ==
  ASSUME LogInv, ready, NEW rolls \in BOOLEAN, RollChoice(rolls),
         NEW h \in {"blank", "torn", "valid"}, NEW g \in Nat, NEW b \in {"blank", "torn", "record"},
         NEW T, NEW o, T = TargetSector(rolls), o = TargetOffset(rolls), Wrote(T, o, rolls, h, g, b),
         Counted(T, rolls, b)
  PROVE  /\ \A s \in Sector : s # T => /\ Und(s)' = Und(s) /\ (Exact(s) => Exact(s)')
                                       /\ UndrainedIdsIn(s)' = UndrainedIdsIn(s)
         /\ Exact(T)'
         /\ Live' = Kept(rolls) \cup (IF b = "record" THEN {<<T, o>>} ELSE {})
<1>1. /\ T \in Sector /\ o \in Slot
      /\ rolls => T = RollTarget
      /\ ~ rolls => T = activeSector
  BY TargetIs
<1>2. /\ \A s \in Sector, i \in Slot :
           IsUndrained(s, i)' <=> IF s = T /\ (i = o \/ rolls) THEN i = o /\ b = "record"
                                  ELSE IsUndrained(s, i)
      /\ ~ rolls => ~ IsRecord(T, o)
  BY WrittenRecords
<1>3. ASSUME NEW s \in Sector, s # T
      PROVE /\ Und(s)' = Und(s) /\ (Exact(s) => Exact(s)')
            /\ UndrainedIdsIn(s)' = UndrainedIdsIn(s)
  <2>1. slot'[s] = slot[s] /\ undrainedInSector'[s] = undrainedInSector[s]
    BY <1>3 DEF Wrote, Counted
  <2>2. Und(s)' = Und(s)
    BY <2>1 DEF Und, IsUndrained, IsRecord
  <2> QED BY <2>1, <2>2 DEF Exact, UndrainedIdsIn, IsUndrained, IsRecord
<1>4. Und(T)' = (IF rolls THEN {} ELSE Und(T)) \cup (IF b = "record" THEN {o} ELSE {})
  BY <1>1, <1>2 DEF Und, IsUndrained
<1>5. ~ rolls => Exact(T)
  BY <1>1 DEF LogInv, CountsOK, GivenUp
<1>6. o \notin (IF rolls THEN {} ELSE Und(T))
  BY <1>2 DEF Und, IsUndrained
<1>7. Exact(T)'
  <2> DEFINE U == IF rolls THEN {} ELSE Und(T)
  <2>1. U \in SUBSET Slot /\ IsFiniteSet(U) /\ Cardinality(U) \in Nat
    BY LiveIs, SlotSetIs
  <2>2. Cardinality(U) = IF rolls THEN 0 ELSE undrainedInSector[T]
    BY <1>5, FS_EmptySet DEF Exact
  <2>3. Und(T)' = U \cup (IF b = "record" THEN {o} ELSE {}) /\ o \notin U
    BY <1>4, <1>6
  <2> HIDE DEF U
  <2>4. CASE b = "record"
    <3>1. Und(T)' = U \cup {o}
      BY <2>3, <2>4
    <3>2. Cardinality(U \cup {o}) = Cardinality(U) + 1
      BY <2>1, <2>3, FS_AddElement
    <3> QED BY <2>2, <2>4, <3>1, <3>2 DEF Exact, Counted
  <2>5. CASE b # "record"
    <3>1. Und(T)' = U
      BY <2>3, <2>5
    <3>2. undrainedInSector'[T] = Cardinality(U) + 0
      BY <2>2, <2>5 DEF Counted
    <3> QED BY <2>1, <3>1, <3>2 DEF Exact
  <2> QED BY <2>4, <2>5
<1>8. ASSUME NEW s \in Sector, NEW i \in Slot
      PROVE  <<s, i>> \in Live' <=> <<s, i>> \in Kept(rolls) \/ (b = "record" /\ s = T /\ i = o)
  <2>1. <<s, i>> \in Live' <=> i \in Und(s)' /\ undrainedInSector'[s] # 0
    BY DEF Live
  <2>2. <<s, i>> \in Live <=> i \in Und(s) /\ undrainedInSector[s] # 0
    BY DEF Live
  <2>3. <<s, i>> \in Kept(rolls) <=> <<s, i>> \in Live /\ (rolls => s # T)
    BY <1>1 DEF Kept, LiveBut
  <2>4. CASE s # T
    BY <1>3, <2>1, <2>2, <2>3, <2>4 DEF Counted
  <2>5. CASE s = T
    <3>1. i \in Und(T)' => undrainedInSector'[T] # 0
      <4>1. Und(T)' \in SUBSET Slot
        BY DEF Und
      <4> QED BY <1>7, <4>1, SlotSetIs DEF Exact
    <3>2. ~ rolls /\ i \in Und(T) => undrainedInSector[T] # 0
      BY <1>5, LiveIs, SlotSetIs DEF Exact
    <3> QED BY <1>4, <2>1, <2>2, <2>3, <2>5, <3>1, <3>2
  <2> QED BY <2>4, <2>5
<1>9. Live' \in SUBSET (Sector \X Slot) /\ Kept(rolls) \in SUBSET (Sector \X Slot)
  BY LiveIs DEF Live, Kept, LiveBut
<1>10. Live' = Kept(rolls) \cup (IF b = "record" THEN {<<T, o>>} ELSE {})
  <2> DEFINE R == Kept(rolls) \cup (IF b = "record" THEN {<<T, o>>} ELSE {})
  <2>1. R \in SUBSET (Sector \X Slot)
    BY <1>1, <1>9
  <2>2. \A s \in Sector, i \in Slot : <<s, i>> \in R
          <=> <<s, i>> \in Kept(rolls) \/ (b = "record" /\ s = T /\ i = o)
    OBVIOUS
  <2> HIDE DEF R
  <2>3. Live' = R
    BY <1>8, <1>9, <2>1, <2>2
  <2> QED BY <2>3 DEF R
<1> QED BY <1>3, <1>7, <1>10

\* A batch that is out stays the first counted records, as long as the records that were counted
\* still are and the only new one is the appended one.
LEMMA PeekAfterAppend ==
  ASSUME LogInv, ready, NEW rolls \in BOOLEAN, RollChoice(rolls), MayEvict(rolls),
         "evict_in_flight" \notin Faults,
         NEW T, NEW o, T = TargetSector(rolls), o = TargetOffset(rolls),
         Kept(rolls) \subseteq Live', Live' \subseteq Kept(rolls) \cup {<<T, o>>},
         \A x \in Kept(rolls) : slot'[x[1]][x[2]] = slot[x[1]][x[2]],
         oldest' = OldestAfterRoll(rolls) \/ PendingAfterRoll(rolls) = 0,
         UNCHANGED <<peeked, peekEnd, batch>>
  PROVE  PeekOK'
<1>1. /\ peeked \in Seq(Position) /\ Len(peeked) \in Nat /\ Len(batch) = Len(peeked)
      /\ Len(peeked) > 0 => peekEnd = After(peeked[Len(peeked)])
  BY DEF LogInv, RamTypeOK, PeekOK
<1>2. CASE Len(peeked) > 0
  <2>1. /\ Kept(rolls) = Live /\ oldest' = oldest
        /\ \A i \in 1 .. Len(peeked) : Before(oldest, peeked[i], At(T, o))
    BY <1>2, PeekSurvives
  <2>2. ASSUME NEW i \in 1 .. Len(peeked)
        PROVE  /\ <<peeked[i].sector, peeked[i].offset>> \in Live'
               /\ batch[i] = slot'[peeked[i].sector][peeked[i].offset].id
               /\ \A j \in 1 .. Len(peeked) : i < j => Before(oldest, peeked[i], peeked[j])
               /\ \A x \in Live' : \/ \E j \in 1 .. Len(peeked) : peeked[j] = At(x[1], x[2])
                                   \/ Before(oldest, peeked[i], At(x[1], x[2]))
    <3> DEFINE y == <<peeked[i].sector, peeked[i].offset>>
    <3>1. y \in Live /\ y[1] = peeked[i].sector /\ y[2] = peeked[i].offset
      BY DEF LogInv, PeekOK
    <3>2. batch[i] = slot[y[1]][y[2]].id
      BY <3>1 DEF LogInv, PeekOK
    <3>3. slot'[y[1]][y[2]] = slot[y[1]][y[2]]
      BY <2>1, <3>1
    <3>4. \A x \in Live : \/ \E j \in 1 .. Len(peeked) : peeked[j] = At(x[1], x[2])
                          \/ Before(oldest, peeked[i], At(x[1], x[2]))
      BY DEF LogInv, PeekOK
    <3>5. \A j \in 1 .. Len(peeked) : i < j => Before(oldest, peeked[i], peeked[j])
      BY DEF LogInv, PeekOK
    <3>6. <<T, o>>[1] = T /\ <<T, o>>[2] = o
      OBVIOUS
    <3>7. \A x \in Live' : x \in Live \/ x = <<T, o>>
      BY <2>1
    <3>8. \A x \in Live' : \/ \E j \in 1 .. Len(peeked) : peeked[j] = At(x[1], x[2])
                           \/ Before(oldest, peeked[i], At(x[1], x[2]))
      BY <2>1, <3>4, <3>6, <3>7
    <3>9. y \in Live'
      BY <2>1, <3>1
    <3> QED BY <3>1, <3>2, <3>3, <3>5, <3>8, <3>9
  <2> QED BY <1>1, <2>1, <2>2 DEF PeekOK, Before, After
<1>3. CASE Len(peeked) = 0
  BY <1>1, <1>3 DEF PeekOK
<1> QED BY <1>1, <1>2, <1>3

\* The walk reaches the sector an append wrote to.
LEMMA WalkAfterAppend ==
  ASSUME LogInv, ready, NEW rolls \in BOOLEAN, RollChoice(rolls),
         NEW h \in {"blank", "torn", "valid"}, NEW g \in Nat, NEW b \in {"blank", "torn", "record"},
         NEW T, NEW o, T = TargetSector(rolls), o = TargetOffset(rolls), Wrote(T, o, rolls, h, g, b),
         Counted(T, rolls, b),
         activeSector' = IF h = "valid" THEN T ELSE activeSector,
         h = "valid" \/ (rolls /\ b = "blank"),
         oldest' = IF PendingAfterRoll(rolls) = 0 /\ b = "record" THEN At(T, o) ELSE OldestAfterRoll(rolls),
         pendingCount' = PendingAfterRoll(rolls) + (IF b = "record" THEN 1 ELSE 0)
  PROVE  WalkOK' /\ oldest' \in Position /\ pendingCount' = Cardinality(Live') /\ pendingCount' \in Nat
<1> DEFINE old == OldestAfterRoll(rolls)
           P == PendingAfterRoll(rolls)
<1>1. T \in Sector /\ o \in Slot /\ activeSector \in Sector
  BY TargetIs
<1>2. /\ Kept(rolls) \in SUBSET (Sector \X Slot)
      /\ P = Cardinality(Kept(rolls))
      /\ old \in Position
      /\ \A x \in Kept(rolls) :
           /\ Dist(old.sector, x[1]) <= Dist(old.sector, activeSector)
           /\ x[1] = old.sector => old.offset <= x[2]
           /\ x[1] = T => ~ rolls /\ x[2] < o
      /\ P > 0 =>
           /\ Dist(old.sector, T) = Dist(old.sector, activeSector) + (IF rolls THEN 1 ELSE 0)
           /\ T = old.sector => old.offset <= o
           /\ \A s \in Sector :
                Dist(old.sector, s) <= Dist(old.sector, activeSector) => Exact(s)
  BY ZenonT(40), AppendAccounts
<1>3. /\ \A s \in Sector : s # T => (Exact(s) => Exact(s)')
      /\ Exact(T)'
      /\ Live' = Kept(rolls) \cup (IF b = "record" THEN {<<T, o>>} ELSE {})
  BY LiveAfter
<1>4. At(T, o) \in Position /\ At(T, o).sector = T /\ At(T, o).offset = o
  BY <1>1, SectorIs DEF At, Position, Slot, Offset
<1> DEFINE old1 == IF P = 0 /\ b = "record" THEN At(T, o) ELSE old
<1>5. oldest' = old1 /\ old1 \in Position /\ old1.sector \in Sector
  BY <1>2, <1>4 DEF Position
<1>6. P \in Nat /\ (P = 0 <=> Kept(rolls) = {})
  BY <1>2, CellSetIs
<1>7. pendingCount' = Cardinality(Live') /\ pendingCount' \in Nat
  <2>1. CASE b = "record"
    <3>1. <<T, o>> \notin Kept(rolls)
      <4>1. <<T, o>>[1] = T /\ <<T, o>>[2] = o /\ o \in Int
        BY <1>1 DEF Slot
      <4> QED BY <1>2, <4>1
    <3>2. IsFiniteSet(Kept(rolls))
      BY <1>2, CellSetIs
    <3>3. Cardinality(Kept(rolls) \cup {<<T, o>>}) = Cardinality(Kept(rolls)) + 1
      BY <3>1, <3>2, FS_AddElement
    <3>4. Live' = Kept(rolls) \cup {<<T, o>>} /\ pendingCount' = P + 1
      BY <1>3, <2>1
    <3> QED BY <1>2, <1>6, <3>3, <3>4
  <2>2. CASE b # "record"
    <3>1. Live' = Kept(rolls) /\ pendingCount' = P + 0
      BY <1>3, <2>2
    <3> QED BY <1>2, <1>6, <3>1
  <2> QED BY <2>1, <2>2
<1> HIDE DEF old, P, old1
<1> DEFINE Z == IF h = "valid" THEN T ELSE activeSector
<1>8. activeSector' = Z /\ Z \in Sector
  BY <1>1
<1>9. \A s \in Sector : Dist(old.sector, s) \in Nat /\ Dist(T, s) \in Nat
                        /\ (Dist(T, s) = 0 <=> T = s)
                        /\ (Dist(old.sector, s) = Dist(old.sector, T) => s = T)
  <2>1. old.sector \in Sector
    BY <1>2 DEF Position
  <2> QED BY <1>1, <2>1, DistIs, SectorIs
<1>10. ASSUME NEW x \in Live'
       PROVE  /\ Dist(old1.sector, x[1]) <= Dist(old1.sector, Z)
              /\ x[1] = old1.sector => old1.offset <= x[2]
  <2>1. <<T, o>>[1] = T /\ <<T, o>>[2] = o /\ o \in Int
    BY <1>1 DEF Slot
  <2>2. CASE P = 0
    <3>1. x = <<T, o>> /\ b = "record" /\ old1 = At(T, o) /\ h = "valid"
      BY <1>3, <1>6, <2>2 DEF old1
    <3>2. Z = T /\ x[1] = T /\ x[2] = o /\ old1.sector = T /\ old1.offset = o
      BY <1>4, <2>1, <3>1
    <3> QED BY <1>1, <1>9, <2>1, <3>2
  <2>3. CASE P # 0
    <3>1. old1 = old /\ P > 0
      BY <1>6, <2>3 DEF old1
    <3>2. Dist(old.sector, activeSector) <= Dist(old.sector, Z)
      BY <1>1, <1>2, <1>9, <3>1
    <3>3. CASE x \in Kept(rolls)
      BY <1>1, <1>2, <1>8, <1>9, <3>1, <3>2, <3>3
    <3>4. CASE x = <<T, o>> /\ b = "record"
      <4>1. Z = T /\ x[1] = T /\ x[2] = o
        BY <2>1, <3>4
      <4> QED BY <1>1, <1>2, <1>9, <3>1, <4>1
    <3> QED BY <1>3, <3>3, <3>4
  <2> QED BY <2>2, <2>3
<1>11. ASSUME pendingCount' > 0, NEW s \in Sector, Dist(old1.sector, s) <= Dist(old1.sector, Z)
       PROVE  Exact(s)'
  <2>1. CASE P = 0
    <3>1. b = "record" /\ old1 = At(T, o) /\ h = "valid"
      BY <1>11, <2>1 DEF old1, P
    <3>2. s = T
      BY <1>1, <1>4, <1>9, <1>11, <3>1
    <3> QED BY <1>3, <3>2
  <2>2. CASE P # 0 /\ s # T
    <3>1. old1 = old /\ P > 0
      BY <1>6, <2>2 DEF old1
    <3>2. Dist(old.sector, s) <= Dist(old.sector, activeSector)
      <4>1. Dist(old.sector, s) # Dist(old.sector, T)
        BY <1>9, <2>2
      <4> QED BY <1>1, <1>2, <1>9, <1>11, <3>1, <4>1
    <3> QED BY <1>2, <1>3, <2>2, <3>1, <3>2
  <2>3. CASE s = T
    BY <1>3, <2>3
  <2> QED BY <2>1, <2>2, <2>3
<1>12. WalkOK'
  BY <1>5, <1>8, <1>10, <1>11 DEF WalkOK, OnWalk
<1> QED BY <1>5, <1>7, <1>12

-----------------------------------------------------------------------------
(* The appends keep the invariant.                                          *)

\* Flag writes succeed, a sector header is written whole or not at all, a batch is marked before
\* the next append that evicts, and the generation word does not wrap.
Premises == Faults \subseteq {"append_error"} /\ MaxAppends + 2 < GenMod

LEMMA PremisesGive ==
  ASSUME Premises
  PROVE  /\ "evict_in_flight" \notin Faults /\ "mark_error" \notin Faults
         /\ "torn_generation" \notin Faults
BY DEF Premises

LEMMA NextGenerationIs ==
  ASSUME Premises, NEW n \in Nat, n <= MaxAppends + 1
  PROVE  (n + 1) % GenMod = n + 1
<1>1. GenMod \in Nat /\ MaxAppends \in Nat /\ n + 1 < GenMod /\ n + 1 \in Nat
  BY LogAssumption DEF Premises
<1> QED BY <1>1

\* A sector that is not written to is counted as before, the one written to is counted exactly.
LEMMA CountsAfterAppend ==
  ASSUME LogInv, ready, NEW T, Exact(T)',
         \A s \in Sector : s # T => (Exact(s) => Exact(s)') /\ UndrainedIdsIn(s)' = UndrainedIdsIn(s)
                                    /\ undrainedInSector'[s] = undrainedInSector[s],
         evicted \subseteq evicted', activeSector' \in {T, activeSector},
         pendingCount' = Cardinality(Live')
  PROVE  CountsOK'
<1>1. \A s \in Sector : Exact(s) \/ GivenUp(s)
  BY DEF LogInv, CountsOK
<1>2. ASSUME NEW s \in Sector PROVE Exact(s)' \/ GivenUp(s)'
  <2>1. CASE s = T
    BY <2>1
  <2>2. CASE s # T /\ Exact(s)
    BY <2>2
  <2>3. CASE s # T /\ GivenUp(s)
    <3>1. /\ "append_error" \in Faults /\ s # activeSector' /\ undrainedInSector'[s] = 0
          /\ UndrainedIdsIn(s)' \subseteq evicted'
      BY <2>3 DEF GivenUp
    <3> QED BY <3>1 DEF GivenUp
  <2> QED BY <1>1, <2>1, <2>2, <2>3
<1> QED BY <1>2 DEF CountsOK

LEMMA LogAppendKeeps ==
  ASSUME LogInv, Premises, LogAppend
  PROVE  LogInv'
<1>1. PICK rolls \in BOOLEAN :
        /\ RollChoice(rolls)
        /\ MayEvict(rolls)
        /\ AppendOnFlash(rolls, "valid", nextGeneration, "record")
        /\ nextGeneration' = IF rolls THEN (nextGeneration + 1) % GenMod ELSE nextGeneration
        /\ activeSector' = TargetSector(rolls)
        /\ writeOffset' = TargetOffset(rolls) + 1
        /\ activeSectorClosed' = FALSE
        /\ oldest' = IF PendingAfterRoll(rolls) = 0 THEN At(TargetSector(rolls), TargetOffset(rolls))
                                                    ELSE OldestAfterRoll(rolls)
        /\ pendingCount' = (PendingAfterRoll(rolls) + 1) % CountMod
        /\ undrainedInSector' =
             [(IF rolls THEN [undrainedInSector EXCEPT ![TargetSector(rolls)] = 0] ELSE undrainedInSector)
                EXCEPT ![TargetSector(rolls)] = @ + 1]
        /\ evicted' = EvictedAfterRoll(rolls)
  BY DEF LogAppend
<1>2. /\ ready /\ ready' /\ nextId <= MaxAppends /\ nextId' = nextId + 1
      /\ UNCHANGED <<peeked, peekEnd, batch>>
  BY DEF LogAppend
<1>0. PICK T, o : T = TargetSector(rolls) /\ o = TargetOffset(rolls)
  OBVIOUS
<1>3. /\ T \in Sector /\ o \in Slot
      /\ rolls => o = 0 /\ T # activeSector
      /\ ~ rolls => T = activeSector /\ o = writeOffset
                    /\ \A i \in Slot : writeOffset <= i => slot[activeSector][i] = BlankCell
  BY <1>1, <1>2, <1>0, TargetIs
<1>7. undrainedInSector \in [Sector -> Nat] /\ MaxAppends \in Nat
  BY LogAssumption DEF LogInv, RamTypeOK
<1>4. nextGeneration \in Nat /\ nextGeneration <= nextId + 1 /\ nextId \in Nat /\ nextId' \in 1 .. MaxAppends + 1
  BY <1>2, <1>7, ActiveIsNewest DEF LogInv, RamTypeOK
<1>5. FlashTypeOK' /\ Wrote(T, o, rolls, "valid", nextGeneration, "record")
  BY <1>1, <1>2, <1>4, <1>0, AppendWrites
<1>6. Numbered(rolls, "valid", nextGeneration, "record")
  BY DEF Numbered
<1>8. Counted(T, rolls, "record")
  <2> DEFINE counts == IF rolls THEN [undrainedInSector EXCEPT ![T] = 0] ELSE undrainedInSector
  <2>1. /\ counts \in [Sector -> Nat] /\ counts[T] = (IF rolls THEN 0 ELSE undrainedInSector[T])
        /\ \A s \in Sector : s # T => counts[s] = undrainedInSector[s]
    BY <1>3, <1>7
  <2>2. undrainedInSector' = [counts EXCEPT ![T] = counts[T] + 1]
    BY <1>1, <1>0
  <2> HIDE DEF counts
  <2>3. /\ undrainedInSector' \in [Sector -> Nat] /\ undrainedInSector'[T] = counts[T] + 1
        /\ \A s \in Sector : s # T => undrainedInSector'[s] = counts[s]
    BY <1>3, <2>1, <2>2
  <2> QED BY <2>1, <2>3 DEF Counted
<1>9. /\ PendingAfterRoll(rolls) = Cardinality(Kept(rolls)) /\ Kept(rolls) \in SUBSET (Sector \X Slot)
      /\ \A x \in Kept(rolls) : x[1] = T => ~ rolls /\ x[2] < o
      /\ evicted \subseteq EvictedAfterRoll(rolls)
  BY <1>1, <1>2, <1>0, AppendAccounts
<1>10. /\ \A s \in Sector : s # T => /\ Und(s)' = Und(s) /\ (Exact(s) => Exact(s)')
                                     /\ UndrainedIdsIn(s)' = UndrainedIdsIn(s)
       /\ Exact(T)'
       /\ Live' = Kept(rolls) \cup {<<T, o>>}
  BY <1>1, <1>2, <1>0, <1>4, <1>5, <1>8, LiveAfter
<1>11. pendingCount' = PendingAfterRoll(rolls) + 1
  <2>1. Live' \in SUBSET (Sector \X Slot)
    BY <1>3, <1>9, <1>10
  <2>2. <<T, o>> \notin Kept(rolls)
    <3>1. <<T, o>>[1] = T /\ <<T, o>>[2] = o /\ o \in Int
      BY <1>3 DEF Slot
    <3> QED BY <1>9, <3>1
  <2>3. Cardinality(Live') = Cardinality(Kept(rolls)) + 1
    BY <1>9, <1>10, <2>2, CellSetIs, FS_AddElement
  <2>4. Cardinality(Live') < CountMod /\ Cardinality(Live') \in Nat
    BY <2>1, CellSetIs
  <2>5. CountMod \in Nat
    BY LogAssumption
  <2> QED BY <1>1, <1>9, <2>3, <2>4, <2>5
<1>12. WalkOK' /\ oldest' \in Position /\ pendingCount' = Cardinality(Live') /\ pendingCount' \in Nat
  BY <1>1, <1>2, <1>0, <1>4, <1>5, <1>8, <1>11, WalkAfterAppend
<1>13. PeekOK'
  <2>1. \A x \in Kept(rolls) : slot'[x[1]][x[2]] = slot[x[1]][x[2]]
    <3> TAKE x \in Kept(rolls)
    <3>1. x[1] \in Sector /\ x[2] \in Slot /\ (x[1] = T => ~ rolls /\ x[2] # o)
      BY <1>3, <1>9 DEF Slot
    <3> QED BY <1>5, <3>1 DEF Wrote
  <2>2. Kept(rolls) \subseteq Live'
    BY <1>10
  <2> QED BY <1>1, <1>2, <1>0, <1>10, <2>1, <2>2, PremisesGive, PeekAfterAppend
<1>14. CountsOK'
  BY <1>1, <1>2, <1>0, <1>8, <1>9, <1>10, <1>12, CountsAfterAppend DEF Counted
<1>15. ActiveOK'
  <2>1. \A i \in Slot : IsRecord(T, i)' <=> IF i = o \/ rolls THEN i = o ELSE IsRecord(T, i)
    BY <1>1, <1>2, <1>0, <1>3, <1>4, <1>5, WrittenRecords
  <2>2. ASSUME NEW i \in Slot PROVE i < o + 1 <=> IsRecord(T, i)'
    <3>1. i \in Nat /\ o \in Nat
      BY <1>3, SectorIs DEF Slot
    <3>2. ~ rolls => (i < o <=> IsRecord(T, i))
      BY <1>2, <1>3 DEF LogInv, ActiveOK
    <3> QED BY <1>3, <2>1, <3>1, <3>2
  <2>3. ASSUME NEW i \in Slot, o + 1 <= i PROVE slot'[T][i] = BlankCell
    <3>1. i # o /\ o <= i
      BY <1>3, <2>3, SectorIs DEF Slot
    <3> QED BY <1>3, <1>5, <3>1 DEF Wrote
  <2> QED BY <1>1, <1>0, <2>2, <2>3 DEF ActiveOK
<1>16. RecordsInOrder' /\ IdsInOrder'
  BY <1>1, <1>2, <1>0, <1>4, <1>5, <1>6, AppendRecords
<1>17. nextGeneration' \in Nat /\ nextGeneration' <= nextId' + 1
       /\ (rolls => nextGeneration' = nextGeneration + 1) /\ (~ rolls => nextGeneration' = nextGeneration)
  <2>1. nextGeneration <= MaxAppends + 1
    BY <1>2, <1>4, <1>7
  <2>2. (nextGeneration + 1) % GenMod = nextGeneration + 1
    BY <1>4, <2>1, NextGenerationIs
  <2> QED BY <1>1, <1>2, <1>4, <2>2
<1>18. RingOK'
  <2>1. /\ \E a \in Sector : IsArc(a, T)'
        /\ Tidy(T)' /\ Occupied' # {}
        /\ \A s \in Occupied' : gen'[s] <= nextId' /\ gen'[s] < nextGeneration + 1
    BY <1>1, <1>2, <1>0, <1>3, <1>4, <1>5, <1>6, AppendRing
  <2>2. \A s \in Occupied' : gen'[s] < nextGeneration'
    <3>1. CASE rolls
      BY <1>17, <2>1, <3>1
    <3>2. CASE ~ rolls
      <4>1. Occupied' = Occupied /\ \A s \in Sector : gen'[s] = gen[s]
        BY <1>3, <1>5, <3>2 DEF Wrote, Occupied
      <4> QED BY <1>2, <1>17, <3>2, <4>1, ActiveIsNewest DEF Occupied
    <3> QED BY <3>1, <3>2
  <2> QED BY <1>1, <1>0, <1>3, <1>17, <2>1, <2>2 DEF RingOK
<1>19. RamTypeOK'
  <2>1. writeOffset' \in Offset
    BY <1>1, <1>0, <1>3, SectorIs DEF Slot, Offset
  <2>2. undrainedInSector' \in [Sector -> Nat]
    BY <1>8 DEF Counted
  <2>3. peeked' \in Seq(Position) /\ batch' \in Seq(Nat)
    BY <1>2 DEF LogInv, RamTypeOK
  <2> QED BY <1>1, <1>2, <1>0, <1>3, <1>4, <1>12, <1>17, <2>1, <2>2, <2>3 DEF RamTypeOK
<1> QED BY <1>2, <1>5, <1>12, <1>13, <1>14, <1>15, <1>16, <1>18, <1>19 DEF LogInv

LEMMA RecordWriteFailsKeeps ==
  ASSUME LogInv, Premises, RecordWriteFails
  PROVE  LogInv'
<1>1. PICK rolls \in BOOLEAN, b \in {"blank", "torn"} :
        /\ RollChoice(rolls)
        /\ MayEvict(rolls)
        /\ AppendOnFlash(rolls, "valid", nextGeneration, b)
        /\ nextGeneration' = IF rolls THEN (nextGeneration + 1) % GenMod ELSE nextGeneration
        /\ activeSector' = TargetSector(rolls)
        /\ writeOffset' = TargetOffset(rolls)
        /\ oldest' = OldestAfterRoll(rolls)
        /\ pendingCount' = PendingAfterRoll(rolls)
        /\ undrainedInSector' = IF rolls THEN [undrainedInSector EXCEPT ![TargetSector(rolls)] = 0]
                                         ELSE undrainedInSector
        /\ evicted' = EvictedAfterRoll(rolls)
  BY DEF RecordWriteFails
<1>2. /\ ready /\ ready' /\ nextId <= MaxAppends /\ nextId' = nextId + 1
      /\ activeSectorClosed' = TRUE /\ UNCHANGED <<peeked, peekEnd, batch>>
  BY DEF RecordWriteFails
<1>0. PICK T, o : T = TargetSector(rolls) /\ o = TargetOffset(rolls)
  OBVIOUS
<1>3. /\ T \in Sector /\ o \in Slot
      /\ rolls => o = 0 /\ T # activeSector
      /\ ~ rolls => T = activeSector /\ o = writeOffset
  BY <1>1, <1>2, <1>0, TargetIs
<1>4. undrainedInSector \in [Sector -> Nat] /\ MaxAppends \in Nat
  BY LogAssumption DEF LogInv, RamTypeOK
<1>5. nextGeneration \in Nat /\ nextGeneration <= nextId + 1 /\ nextId \in Nat /\ nextId' \in 1 .. MaxAppends + 1
  BY <1>2, <1>4, ActiveIsNewest DEF LogInv, RamTypeOK
<1>6. FlashTypeOK' /\ Wrote(T, o, rolls, "valid", nextGeneration, b)
  BY <1>1, <1>2, <1>0, <1>5, AppendWrites
<1>7. Numbered(rolls, "valid", nextGeneration, b)
  BY DEF Numbered
<1>8. Counted(T, rolls, b)
  <2>1. b # "record"
    BY <1>1
  <2>2. undrainedInSector' = IF rolls THEN [undrainedInSector EXCEPT ![T] = 0] ELSE undrainedInSector
    BY <1>1, <1>0
  <2>3. /\ undrainedInSector' \in [Sector -> Nat]
        /\ undrainedInSector'[T] = (IF rolls THEN 0 ELSE undrainedInSector[T]) + 0
        /\ \A s \in Sector : s # T => undrainedInSector'[s] = undrainedInSector[s]
    BY <1>3, <1>4, <2>2
  <2> QED BY <2>1, <2>3 DEF Counted
<1>9. /\ PendingAfterRoll(rolls) = Cardinality(Kept(rolls)) /\ Kept(rolls) \in SUBSET (Sector \X Slot)
      /\ \A x \in Kept(rolls) : x[1] = T => ~ rolls /\ x[2] < o
      /\ evicted \subseteq EvictedAfterRoll(rolls)
  BY <1>1, <1>2, <1>0, AppendAccounts
<1>10. /\ \A s \in Sector : s # T => /\ Und(s)' = Und(s) /\ (Exact(s) => Exact(s)')
                                     /\ UndrainedIdsIn(s)' = UndrainedIdsIn(s)
       /\ Exact(T)'
       /\ Live' = Kept(rolls)
  <2>1. b # "record" /\ b \in {"blank", "torn", "record"}
    BY <1>1
  <2> QED BY <1>1, <1>2, <1>0, <1>5, <1>6, <1>8, <2>1, LiveAfter
<1>11. PendingAfterRoll(rolls) + 0 = PendingAfterRoll(rolls)
  BY <1>9, CellSetIs
<1>12. WalkOK' /\ oldest' \in Position /\ pendingCount' = Cardinality(Live') /\ pendingCount' \in Nat
  <2>1. /\ oldest' = IF PendingAfterRoll(rolls) = 0 /\ b = "record" THEN At(T, o) ELSE OldestAfterRoll(rolls)
        /\ pendingCount' = PendingAfterRoll(rolls) + (IF b = "record" THEN 1 ELSE 0)
        /\ b \in {"blank", "torn", "record"}
    BY <1>1, <1>11
  <2> QED BY <1>1, <1>2, <1>0, <1>5, <1>6, <1>8, <2>1, WalkAfterAppend
<1>13. PeekOK'
  <2>1. \A x \in Kept(rolls) : slot'[x[1]][x[2]] = slot[x[1]][x[2]]
    <3> TAKE x \in Kept(rolls)
    <3>1. x[1] \in Sector /\ x[2] \in Slot /\ (x[1] = T => ~ rolls /\ x[2] # o)
      BY <1>3, <1>9 DEF Slot
    <3> QED BY <1>6, <3>1 DEF Wrote
  <2>2. Kept(rolls) \subseteq Live' /\ Live' \subseteq Kept(rolls) \cup {<<T, o>>}
    BY <1>10
  <2> QED BY <1>1, <1>2, <1>0, <2>1, <2>2, PremisesGive, PeekAfterAppend
<1>14. CountsOK'
  BY <1>1, <1>2, <1>0, <1>8, <1>9, <1>10, <1>12, CountsAfterAppend DEF Counted
<1>15. ActiveOK'
  <2>1. \A i \in Slot : IsRecord(T, i)' <=> IF i = o \/ rolls THEN FALSE ELSE IsRecord(T, i)
    <3>1. b # "record" /\ b \in {"blank", "torn", "record"}
      BY <1>1
    <3> QED BY <1>1, <1>2, <1>0, <1>3, <1>5, <1>6, <3>1, WrittenRecords
  <2>2. ASSUME NEW i \in Slot PROVE i < o <=> IsRecord(T, i)'
    <3>1. i \in Nat /\ o \in Nat
      BY <1>3, SectorIs DEF Slot
    <3>2. ~ rolls => (i < o <=> IsRecord(T, i))
      BY <1>2, <1>3 DEF LogInv, ActiveOK
    <3> QED BY <1>3, <2>1, <3>1, <3>2
  <2> QED BY <1>1, <1>0, <1>2, <2>2 DEF ActiveOK
<1>16. RecordsInOrder' /\ IdsInOrder'
  <2>1. b \in {"blank", "torn", "record"}
    BY <1>1
  <2> QED BY <1>1, <1>2, <1>0, <1>5, <1>6, <1>7, <2>1, AppendRecords
<1>17. nextGeneration' \in Nat /\ nextGeneration' <= nextId' + 1
       /\ (rolls => nextGeneration' = nextGeneration + 1) /\ (~ rolls => nextGeneration' = nextGeneration)
  <2>1. nextGeneration <= MaxAppends + 1
    BY <1>2, <1>4, <1>5
  <2>2. (nextGeneration + 1) % GenMod = nextGeneration + 1
    BY <1>5, <2>1, NextGenerationIs
  <2> QED BY <1>1, <1>2, <1>5, <2>2
<1>18. RingOK'
  <2>1. /\ \E a \in Sector : IsArc(a, T)'
        /\ Tidy(T)' /\ Occupied' # {}
        /\ \A s \in Occupied' : gen'[s] <= nextId' /\ gen'[s] < nextGeneration + 1
    <3>1. b \in {"blank", "torn", "record"}
      BY <1>1
    <3> QED BY <1>1, <1>2, <1>0, <1>3, <1>5, <1>6, <1>7, <3>1, AppendRing
  <2>2. \A s \in Occupied' : gen'[s] < nextGeneration'
    <3>1. CASE rolls
      BY <1>17, <2>1, <3>1
    <3>2. CASE ~ rolls
      <4>1. Occupied' = Occupied /\ \A s \in Sector : gen'[s] = gen[s]
        BY <1>3, <1>6, <3>2 DEF Wrote, Occupied
      <4> QED BY <1>2, <1>17, <3>2, <4>1, ActiveIsNewest DEF Occupied
    <3> QED BY <3>1, <3>2
  <2> QED BY <1>1, <1>0, <1>3, <1>17, <2>1, <2>2 DEF RingOK
<1>19. RamTypeOK'
  <2>1. writeOffset' \in Offset
    BY <1>1, <1>0, <1>3, SectorIs DEF Slot, Offset
  <2>2. undrainedInSector' \in [Sector -> Nat]
    BY <1>8 DEF Counted
  <2>3. peeked' \in Seq(Position) /\ batch' \in Seq(Nat)
    BY <1>2 DEF LogInv, RamTypeOK
  <2> QED BY <1>1, <1>0, <1>2, <1>3, <1>5, <1>12, <1>17, <2>1, <2>2, <2>3 DEF RamTypeOK
<1> QED BY <1>2, <1>6, <1>12, <1>13, <1>14, <1>15, <1>16, <1>18, <1>19 DEF LogInv

LEMMA RollFailsKeeps ==
  ASSUME LogInv, Premises, RollFails
  PROVE  LogInv'
<1>1. /\ RollChoice(TRUE) /\ MayEvict(TRUE) /\ "append_error" \in Faults
      /\ ready /\ ready' /\ nextId <= MaxAppends /\ nextId' = nextId + 1
      /\ oldest' = OldestAfterRoll(TRUE) /\ pendingCount' = PendingAfterRoll(TRUE)
      /\ undrainedInSector' = IF Evicts(TRUE) THEN [undrainedInSector EXCEPT ![RollTarget] = 0]
                              ELSE undrainedInSector
      /\ evicted' = EvictedAfterRoll(TRUE)
      /\ UNCHANGED <<activeSector, writeOffset, activeSectorClosed, peeked, peekEnd, batch>>
  BY DEF RollFails
<1>0. PICK T, o : T = TargetSector(TRUE) /\ o = TargetOffset(TRUE)
  OBVIOUS
<1>2. T \in Sector /\ o \in Slot /\ T # activeSector /\ activeSector \in Sector /\ T = RollTarget
  BY <1>1, <1>0, TargetIs
<1>3. undrainedInSector \in [Sector -> Nat] /\ MaxAppends \in Nat
  BY LogAssumption DEF LogInv, RamTypeOK
<1>4. nextGeneration \in Nat /\ nextGeneration <= nextId + 1 /\ nextId \in Nat /\ nextId' \in 1 .. MaxAppends + 1
  BY <1>1, <1>3, ActiveIsNewest DEF LogInv, RamTypeOK
<1>5. /\ PendingAfterRoll(TRUE) = Cardinality(Kept(TRUE)) /\ Kept(TRUE) \in SUBSET (Sector \X Slot)
      /\ Kept(TRUE) \subseteq Live
      /\ OldestAfterRoll(TRUE) \in Position
      /\ \A x \in Kept(TRUE) :
           /\ Dist(OldestAfterRoll(TRUE).sector, x[1]) <= Dist(OldestAfterRoll(TRUE).sector, activeSector)
           /\ x[1] = OldestAfterRoll(TRUE).sector => OldestAfterRoll(TRUE).offset <= x[2]
           /\ x[1] # T
      /\ evicted \subseteq EvictedAfterRoll(TRUE) /\ UndrainedIdsIn(T) \subseteq EvictedAfterRoll(TRUE)
      /\ Evicts(TRUE) \/ undrainedInSector[T] = 0
      /\ PendingAfterRoll(TRUE) > 0 =>
           /\ Dist(OldestAfterRoll(TRUE).sector, T) = Dist(OldestAfterRoll(TRUE).sector, activeSector) + 1
           /\ \A s \in Sector : Dist(OldestAfterRoll(TRUE).sector, s)
                                  <= Dist(OldestAfterRoll(TRUE).sector, activeSector) => Exact(s)
  BY <1>1, <1>0, AppendAccounts
<1>6. Counted(T, TRUE, "blank")
  <2>1. undrainedInSector' = IF Evicts(TRUE) THEN [undrainedInSector EXCEPT ![T] = 0] ELSE undrainedInSector
    BY <1>1, <1>2
  <2>2. Evicts(TRUE) \/ undrainedInSector[T] = 0
    BY <1>5
  <2>3. /\ undrainedInSector' \in [Sector -> Nat] /\ undrainedInSector'[T] = 0
        /\ \A s \in Sector : s # T => undrainedInSector'[s] = undrainedInSector[s]
    BY <1>2, <1>3, <2>1, <2>2
  <2> QED BY <2>3 DEF Counted
<1>7. nextGeneration' = nextGeneration \/ nextGeneration' = nextGeneration + 1
  <2>1. nextGeneration <= MaxAppends + 1
    BY <1>1, <1>3, <1>4
  <2>2. (nextGeneration + 1) % GenMod = nextGeneration + 1
    BY <1>4, <2>1, NextGenerationIs
  <2> QED BY <2>2 DEF RollFails
<1>8. ASSUME oldest' \in Position, pendingCount' \in Nat
      PROVE  RamTypeOK'
  <2>1. undrainedInSector' \in [Sector -> Nat]
    BY <1>6 DEF Counted
  <2>2. nextGeneration' \in Nat
    BY <1>4, <1>7
  <2> QED BY <1>1, <1>4, <1>8, <2>1, <2>2 DEF LogInv, RamTypeOK
<1>9. PendingAfterRoll(TRUE) + 0 = PendingAfterRoll(TRUE) /\ PendingAfterRoll(TRUE) \in Nat
  <2>1. PendingAfterRoll(TRUE) = Cardinality(Kept(TRUE)) /\ Kept(TRUE) \in SUBSET (Sector \X Slot)
    BY <1>5
  <2>2. PendingAfterRoll(TRUE) \in Nat
    BY <2>1, CellSetIs
  <2>3. \A n \in Nat : n + 0 = n
    OBVIOUS
  <2> QED BY <2>2, <2>3, Zenon
<1>10. CASE UNCHANGED <<flash, nextGeneration>>
  <2>1. head' = head /\ gen' = gen /\ slot' = slot /\ nextGeneration' = nextGeneration
    BY <1>10 DEF flash
  <2>2. /\ \A s : Und(s)' = Und(s) /\ UndrainedIdsIn(s)' = UndrainedIdsIn(s)
        /\ \A s, i : IsRecord(s, i)' <=> IsRecord(s, i)
    BY <2>1 DEF Und, UndrainedIdsIn, IsUndrained, IsRecord
  <2>3. Live' = Kept(TRUE)
    <3>1. Live' = {x \in Sector \X Slot : x[2] \in Und(x[1]) /\ undrainedInSector'[x[1]] # 0}
      BY <2>2 DEF Live
    <3>2. undrainedInSector'[T] = 0 /\ \A s \in Sector : s # T => undrainedInSector'[s] = undrainedInSector[s]
      BY <1>6 DEF Counted
    <3> QED BY <1>2, <3>1, <3>2 DEF Live, Kept, LiveBut
  <2>4. \A s \in Sector : s # T => (Exact(s) => Exact(s)')
    BY <1>6, <2>2 DEF Exact, Counted
  <2>5. CountsOK'
    <3>1. GivenUp(T)'
      BY <1>1, <1>2, <1>5, <1>6, <2>2 DEF GivenUp, Counted
    <3>2. ASSUME NEW s \in Sector, s # T PROVE Exact(s)' \/ GivenUp(s)'
      <4>1. Exact(s) \/ GivenUp(s)
        BY <1>1 DEF LogInv, CountsOK
      <4>2. GivenUp(s) => GivenUp(s)'
        BY <1>1, <1>5, <1>6, <2>2, <3>2 DEF GivenUp, Counted
      <4> QED BY <2>4, <3>2, <4>1, <4>2
    <3> QED BY <1>1, <1>5, <2>3, <3>1, <3>2 DEF CountsOK
  <2>6. WalkOK'
    <3>1. ASSUME pendingCount' > 0, NEW s \in Sector, OnWalk(s)' PROVE Exact(s)'
      <4>0. PICK w : w = OldestAfterRoll(TRUE).sector
        OBVIOUS
      <4>1. w \in Sector
        BY <1>5, <4>0 DEF Position
      <4>2. /\ Dist(w, T) = Dist(w, activeSector) + 1 /\ (Dist(w, s) <= Dist(w, activeSector) => Exact(s))
            /\ Dist(w, s) <= Dist(w, activeSector)
        BY <1>1, <1>5, <3>1, <4>0 DEF OnWalk
      <4>3. Dist(w, activeSector) \in Nat
        BY <1>2, <4>1, DistIs, SectorIs
      <4>4. s # T
        BY <4>2, <4>3
      <4> QED BY <2>4, <4>2, <4>4
    <3>2. \A x \in Live' : OnWalk(x[1])' /\ (x[1] = oldest'.sector => oldest'.offset <= x[2])
      BY <1>1, <1>5, <2>3 DEF OnWalk
    <3> QED BY <3>1, <3>2 DEF WalkOK
  <2>7. PeekOK'
    BY <1>1, <1>0, <2>1, <2>3, PremisesGive, PeekAfterAppend
  <2>8. ActiveOK'
    BY <1>1, <2>1, <2>2 DEF LogInv, ActiveOK
  <2>9. RecordsInOrder'
    BY <2>1, <2>2 DEF LogInv, RecordsInOrder
  <2>10. IdsInOrder'
    <3>1. \A s \in Sector, i \in Slot : slot[s][i].id \in Nat
      BY DEF LogInv, FlashTypeOK, Cell
    <3>2. \A s, t, i, j : Precedes(s, i, t, j)' <=> Precedes(s, i, t, j)
      BY <2>1 DEF Precedes
    <3> QED BY <1>1, <1>4, <2>1, <2>2, <3>1, <3>2 DEF LogInv, IdsInOrder
  <2>11. RingOK'
    <3>1. Occupied' = Occupied /\ \A a, z : (IsArc(a, z)' <=> IsArc(a, z)) /\ (Tidy(z)' <=> Tidy(z))
      BY <2>1 DEF Occupied, IsArc, Tidy
    <3>2. \A s \in Occupied : gen[s] \in Nat /\ gen[s] <= nextId /\ gen[s] < nextGeneration
      BY <1>1, ActiveIsNewest DEF LogInv, RingOK
    <3>3. nextGeneration <= nextId' + 1 /\ \A s \in Occupied : gen[s] <= nextId'
      BY <1>1, <1>4, <3>2
    <3>4. Occupied # {} /\ \E a, z \in Sector : IsArc(a, z) /\ Tidy(z) /\ activeSector = z
      BY <1>1 DEF LogInv, RingOK
    <3> QED BY <1>1, <2>1, <3>1, <3>2, <3>3, <3>4 DEF RingOK
  <2>12. FlashTypeOK' /\ RamTypeOK'
    BY <1>1, <1>5, <1>8, <1>9, <2>1 DEF LogInv, FlashTypeOK
  <2> QED BY <1>1, <2>5, <2>6, <2>7, <2>8, <2>9, <2>10, <2>11, <2>12 DEF LogInv
<1>11. CASE /\ \E h \in {"blank", "torn"} : AppendOnFlash(TRUE, h, 0, "blank")
            /\ nextGeneration' = (nextGeneration + 1) % GenMod
  <2>0. PICK b : b = "blank"
    OBVIOUS
  <2>1. PICK h \in {"blank", "torn"} : AppendOnFlash(TRUE, h, 0, b)
    BY <1>11, <2>0
  <2>2. h \in {"blank", "torn", "valid"} /\ h # "valid"
    BY <2>1
  <2>3. FlashTypeOK' /\ Wrote(T, o, TRUE, h, 0, b)
    BY <1>1, <1>0, <2>0, <2>1, <2>2, AppendWrites
  <2>4. Numbered(TRUE, h, 0, b)
    BY <2>0, <2>2 DEF Numbered
  <2>5. /\ \A s \in Sector : s # T => /\ Und(s)' = Und(s) /\ (Exact(s) => Exact(s)')
                                      /\ UndrainedIdsIn(s)' = UndrainedIdsIn(s)
        /\ Exact(T)'
        /\ Live' = Kept(TRUE)
    <3>0. Counted(T, TRUE, b) /\ b \in {"blank", "torn", "record"} /\ 0 \in Nat /\ TRUE \in BOOLEAN
      BY <1>6, <2>0
    <3>1. PICK rolls \in BOOLEAN : rolls = TRUE
      OBVIOUS
    <3>2. /\ RollChoice(rolls) /\ T = TargetSector(rolls) /\ o = TargetOffset(rolls)
          /\ Wrote(T, o, rolls, h, 0, b) /\ Counted(T, rolls, b)
      BY <1>1, <1>0, <2>3, <3>0, <3>1
    <3>3. /\ \A s \in Sector : s # T => /\ Und(s)' = Und(s) /\ (Exact(s) => Exact(s)')
                                        /\ UndrainedIdsIn(s)' = UndrainedIdsIn(s)
          /\ Exact(T)'
          /\ Live' = Kept(rolls) \cup (IF b = "record" THEN {<<T, o>>} ELSE {})
      BY <1>1, <2>2, <3>0, <3>2, LiveAfter
    <3> QED BY <2>0, <3>1, <3>3
  <2>6. WalkOK' /\ oldest' \in Position /\ pendingCount' = Cardinality(Live') /\ pendingCount' \in Nat
    <3>1. /\ activeSector' = IF h = "valid" THEN T ELSE activeSector
          /\ oldest' = IF PendingAfterRoll(TRUE) = 0 /\ b = "record" THEN At(T, o) ELSE OldestAfterRoll(TRUE)
          /\ pendingCount' = PendingAfterRoll(TRUE) + (IF b = "record" THEN 1 ELSE 0)
      BY <1>1, <1>9, <2>0, <2>2
    <3> QED BY <1>1, <1>0, <1>6, <2>0, <2>2, <2>3, <3>1, WalkAfterAppend
  <2>7. PeekOK'
    <3>1. \A x \in Kept(TRUE) : slot'[x[1]][x[2]] = slot[x[1]][x[2]]
      BY <1>5, <2>3 DEF Wrote
    <3> QED BY <1>1, <1>0, <2>5, <3>1, PremisesGive, PeekAfterAppend
  <2>8. CountsOK'
    BY <1>1, <1>5, <1>6, <2>5, <2>6, CountsAfterAppend DEF Counted
  <2>9. ActiveOK'
    <3>1. slot'[activeSector] = slot[activeSector]
      BY <1>2, <2>3 DEF Wrote
    <3> QED BY <1>1, <3>1 DEF LogInv, ActiveOK, IsRecord
  <2>10. RecordsInOrder' /\ IdsInOrder'
    BY <1>1, <1>0, <2>0, <2>2, <2>3, <2>4, AppendRecords
  <2>11. nextGeneration' = nextGeneration + 1
    <3>1. nextGeneration <= MaxAppends + 1
      BY <1>1, <1>3, <1>4
    <3> QED BY <1>4, <1>11, <3>1, NextGenerationIs
  <2>12. RingOK'
    <3>1. PICK z : z = activeSector
      OBVIOUS
    <3>2. /\ \E a \in Sector : IsArc(a, z)'
          /\ Tidy(z)' /\ Occupied' # {}
          /\ \A s \in Occupied' : gen'[s] <= nextId' /\ gen'[s] < nextGeneration + 1
      BY <1>1, <1>0, <2>0, <2>2, <2>3, <2>4, <3>1, AppendRing
    <3> QED BY <1>1, <1>2, <1>4, <2>11, <3>1, <3>2 DEF RingOK
  <2> QED BY <1>1, <1>8, <2>3, <2>6, <2>7, <2>8, <2>9, <2>10, <2>12 DEF LogInv
<1> QED BY <1>10, <1>11 DEF RollFails

-----------------------------------------------------------------------------
(* A power loss.                                                            *)

LEMMA ResetRam ==
  ASSUME LogInv, RamAtReset, nextId' \in 1 .. MaxAppends + 1
  PROVE  RamTypeOK' /\ ~ ready' /\ Reset' /\ peeked' = << >> /\ batch' = << >>
<1>1. 0 \in Sector /\ 0 \in Offset /\ At(0, 0) \in Position
  BY SectorIs DEF Sector, Offset, Position, At
<1>2. [s \in Sector |-> 0] \in [Sector -> Nat]
  OBVIOUS
<1>3. << >> \in Seq(Position) /\ << >> \in Seq(Nat)
  OBVIOUS
<1> QED BY <1>1, <1>2, <1>3 DEF RamAtReset, RamTypeOK, Reset

\* What the flash part of the invariant needs of a ring that nobody is writing to.
LEMMA RingAtRest ==
  ASSUME ~ ready', NEW z \in Sector, \E a \in Sector : IsArc(a, z)', Tidy(z)',
         \A s \in Occupied' : gen'[s] <= nextId'
  PROVE  RingOK'
BY DEF RingOK

\* The flash was not touched but for cells that hold no record, before or after.
LEMMA RingUntouched ==
  ASSUME LogInv, nextId' \in Nat, nextId <= nextId',
         ready' => ready /\ activeSector' = activeSector /\ nextGeneration' = nextGeneration,
         head' = head, gen' = gen, FlashTypeOK',
         \A s \in Sector, i \in Slot : IsRecord(s, i)' <=> IsRecord(s, i),
         \A s \in Sector, i \in Slot : slot'[s][i].id = slot[s][i].id,
         \A s \in Sector, i \in Slot : slot'[s][i] = BlankCell <=> slot[s][i] = BlankCell
  PROVE  RecordsInOrder' /\ IdsInOrder' /\ RingOK'
<1>1. RecordsInOrder'
  <2> SUFFICES ASSUME NEW s \in Sector, NEW i \in Slot, IsRecord(s, i)'
               PROVE  head'[s] = "valid" /\ \A j \in 0 .. i : IsRecord(s, j)'
    BY DEF RecordsInOrder
  <2>1. 0 .. i \subseteq Slot
    BY SectorIs DEF Slot
  <2>2. head[s] = "valid" /\ \A j \in 0 .. i : IsRecord(s, j)
    BY DEF LogInv, RecordsInOrder
  <2> QED BY <2>1, <2>2
<1>2. IdsInOrder'
  <2>1. \A s, t, i, j : Precedes(s, i, t, j)' <=> Precedes(s, i, t, j)
    BY DEF Precedes
  <2>2. \A s \in Sector, i \in Slot : slot[s][i].id \in Nat
    BY DEF LogInv, FlashTypeOK, Cell
  <2>3. nextId \in Nat
    BY DEF LogInv, RamTypeOK
  <2> QED BY <2>1, <2>2, <2>3 DEF LogInv, IdsInOrder
<1>3. RingOK'
  <2>1. Occupied' = Occupied /\ \A a, z : IsArc(a, z)' <=> IsArc(a, z)
    BY DEF Occupied, IsArc
  <2>2. ASSUME NEW z \in Sector, Tidy(z) PROVE Tidy(z)'
    <3>1. \A o \in Slot : o .. SlotsPerSector - 1 \subseteq Slot
      BY SectorIs DEF Slot
    <3> QED BY <2>2, <3>1 DEF Tidy
  <2>3. Occupied # {} => \E a, z \in Sector : IsArc(a, z) /\ Tidy(z) /\ (ready => activeSector = z)
    BY DEF LogInv, RingOK
  <2>4. /\ \A s \in Occupied : gen[s] <= nextId /\ gen[s] \in Nat /\ (ready => gen[s] < nextGeneration)
        /\ nextId \in Nat
        /\ ready => Occupied # {} /\ nextGeneration \in Nat /\ nextGeneration <= nextId + 1
    BY DEF LogInv, RingOK, RamTypeOK, FlashTypeOK, Occupied
  <2> QED BY <2>1, <2>2, <2>3, <2>4 DEF RingOK
<1> QED BY <1>1, <1>2, <1>3

LEMMA PowerLossKeeps ==
  ASSUME LogInv, PowerLoss
  PROVE  LogInv'
<1>1. /\ RamAtReset /\ nextId' = nextId /\ head' = head /\ gen' = gen /\ slot' = slot
      /\ nextId \in 1 .. MaxAppends + 1 /\ nextId \in Nat
  BY DEF PowerLoss, flash, LogInv, RamTypeOK
<1>2. RamTypeOK' /\ ~ ready' /\ Reset' /\ peeked' = << >> /\ batch' = << >>
  BY <1>1, ResetRam
<1>3. FlashTypeOK'
  BY <1>1 DEF LogInv, FlashTypeOK
<1>4. \A s, i : IsRecord(s, i)' <=> IsRecord(s, i)
  BY <1>1 DEF IsRecord
<1>5. RecordsInOrder' /\ IdsInOrder' /\ RingOK'
  <2>1. nextId' \in Nat /\ nextId <= nextId'
    BY <1>1
  <2> QED BY <1>1, <1>2, <1>3, <1>4, <2>1, RingUntouched
<1> QED BY <1>2, <1>3, <1>5 DEF LogInv

\* What an interrupted append can leave: a prefix of its writes, or of the erase.
LEMMA AppendCutIs ==
  ASSUME LogInv, Premises, AppendCut
  PROVE  /\ ready /\ RamAtReset /\ nextId <= MaxAppends /\ nextId' = nextId + 1
         /\ UNCHANGED <<acked, drained>>
         /\ \E rolls \in BOOLEAN :
              /\ RollChoice(rolls) /\ MayEvict(rolls) /\ evicted' = EvictedAfterRoll(rolls)
              /\ \/ \E h \in {"blank", "torn", "valid"}, g \in Nat, b \in {"blank", "torn", "record"} :
                      AppendOnFlash(rolls, h, g, b) /\ Numbered(rolls, h, g, b)
                 \/ rolls /\ \E k \in Offset : EraseCut(k)
<1>1. PICK rolls \in BOOLEAN :
       /\ RollChoice(rolls)
       /\ MayEvict(rolls)
       /\ \/ \E b \in {"torn", "record"} :
               AppendOnFlash(rolls, "valid", nextGeneration, b)
          \/ rolls /\ AppendOnFlash(rolls, "valid", nextGeneration, "blank")
          \/ rolls /\ \E h \in {"blank", "torn"} : AppendOnFlash(rolls, h, 0, "blank")
          \/ /\ "torn_generation" \in Faults
             /\ rolls
             /\ AppendOnFlash(rolls, "valid", GenMod - 1, "blank")
          \/ rolls /\ \E k \in Offset : EraseCut(k)
       /\ evicted' = EvictedAfterRoll(rolls)
  BY DEF AppendCut
<1>2. /\ ready /\ RamAtReset /\ nextId <= MaxAppends /\ nextId' = nextId + 1
      /\ UNCHANGED <<acked, drained>>
  BY DEF AppendCut
<1>3. nextGeneration \in Nat
  BY DEF LogInv, RamTypeOK
<1> DEFINE Some == \E h \in {"blank", "torn", "valid"}, g \in Nat, b \in {"blank", "torn", "record"} :
                     AppendOnFlash(rolls, h, g, b) /\ Numbered(rolls, h, g, b)
<1>4. CASE \E b \in {"torn", "record"} : AppendOnFlash(rolls, "valid", nextGeneration, b)
  <2>1. \A b : Numbered(rolls, "valid", nextGeneration, b)
    BY DEF Numbered
  <2>2. Some
    BY <1>3, <1>4, <2>1
  <2> QED BY <1>1, <1>2, <2>2
<1>5. CASE rolls /\ AppendOnFlash(rolls, "valid", nextGeneration, "blank")
  <2>1. Numbered(rolls, "valid", nextGeneration, "blank")
    BY DEF Numbered
  <2>2. Some
    BY <1>3, <1>5, <2>1
  <2> QED BY <1>1, <1>2, <2>2
<1>6. CASE rolls /\ \E h \in {"blank", "torn"} : AppendOnFlash(rolls, h, 0, "blank")
  <2>1. \A h \in {"blank", "torn"} : Numbered(rolls, h, 0, "blank")
    BY <1>6 DEF Numbered
  <2>2. Some
    BY <1>6, <2>1
  <2> QED BY <1>1, <1>2, <2>2
<1>7. CASE rolls /\ \E k \in Offset : EraseCut(k)
  BY <1>1, <1>2, <1>7
<1> QED BY <1>1, <1>4, <1>5, <1>6, <1>7, PremisesGive

LEMMA EraseCutIs ==
  ASSUME LogInv, NEW k \in Offset, EraseCut(k), RollTarget \in Sector
  PROVE  /\ FlashTypeOK' /\ head' = head /\ gen' = gen
         /\ \A s \in Sector : s # RollTarget => slot'[s] = slot[s]
         /\ \A i \in Slot : slot'[RollTarget][i] = IF i < k THEN slot[RollTarget][i] ELSE TornCell
<1>1. PICK T \in Sector : T = RollTarget
  OBVIOUS
<1>2. TornCell \in Cell /\ slot \in [Sector -> [Slot -> Cell]]
  BY DEF TornCell, Cell, LogInv, FlashTypeOK
<1> DEFINE row == [o \in Slot |-> IF o < k THEN slot[T][o] ELSE TornCell]
<1>3. row \in [Slot -> Cell] /\ \A i \in Slot : row[i] = IF i < k THEN slot[T][i] ELSE TornCell
  BY <1>2
<1>4. slot' = [slot EXCEPT ![T] = row] /\ head' = head /\ gen' = gen
  BY <1>1, <1>2 DEF EraseCut
<1> HIDE DEF row
<1> QED BY <1>1, <1>2, <1>3, <1>4 DEF LogInv, FlashTypeOK

LEMMA AppendCutKeeps ==
  ASSUME LogInv, Premises, AppendCut
  PROVE  LogInv'
<1>1. /\ ready /\ RamAtReset /\ nextId <= MaxAppends /\ nextId' = nextId + 1
      /\ nextId \in Nat /\ MaxAppends \in Nat
  BY AppendCutIs, LogAssumption DEF LogInv, RamTypeOK
<1>2. RamTypeOK' /\ ~ ready' /\ Reset' /\ peeked' = << >> /\ batch' = << >>
  <2>1. nextId' \in 1 .. MaxAppends + 1
    BY <1>1
  <2> QED BY <1>1, <2>1, ResetRam
<1>3. PICK rolls \in BOOLEAN :
        /\ RollChoice(rolls)
        /\ \/ \E h \in {"blank", "torn", "valid"}, g \in Nat, b \in {"blank", "torn", "record"} :
                AppendOnFlash(rolls, h, g, b) /\ Numbered(rolls, h, g, b)
           \/ rolls /\ \E k \in Offset : EraseCut(k)
  BY AppendCutIs
<1>4. CASE \E h \in {"blank", "torn", "valid"}, g \in Nat, b \in {"blank", "torn", "record"} :
             AppendOnFlash(rolls, h, g, b) /\ Numbered(rolls, h, g, b)
  <2>1. PICK h \in {"blank", "torn", "valid"}, g \in Nat, b \in {"blank", "torn", "record"} :
          AppendOnFlash(rolls, h, g, b) /\ Numbered(rolls, h, g, b)
    BY <1>4
  <2>2. PICK T, o, z : /\ T = TargetSector(rolls) /\ o = TargetOffset(rolls)
                       /\ z = IF h = "valid" THEN T ELSE activeSector
    OBVIOUS
  <2>3. FlashTypeOK' /\ Wrote(T, o, rolls, h, g, b)
    BY <1>1, <1>3, <2>1, <2>2, AppendWrites
  <2>4. RecordsInOrder' /\ IdsInOrder'
    BY <1>1, <1>3, <2>1, <2>2, <2>3, AppendRecords
  <2>5. /\ \E a \in Sector : IsArc(a, z)'
        /\ Tidy(z)' /\ z \in Sector
        /\ \A s \in Occupied' : gen'[s] <= nextId'
    BY <1>1, <1>3, <2>1, <2>2, <2>3, AppendRing
  <2>6. RingOK'
    BY <1>2, <2>5, RingAtRest
  <2> QED BY <1>2, <2>3, <2>4, <2>6 DEF LogInv
<1>5. CASE rolls /\ \E k \in Offset : EraseCut(k)
  <2>1. PICK k \in Offset : EraseCut(k)
    BY <1>5
  <2>2. PICK T \in Sector : T = RollTarget /\ T # activeSector
    BY RollTargetIs
  <2>3. /\ FlashTypeOK' /\ head' = head /\ gen' = gen
        /\ \A s \in Sector : s # T => slot'[s] = slot[s]
        /\ \A i \in Slot : slot'[T][i] = IF i < k THEN slot[T][i] ELSE TornCell
    BY <2>1, <2>2, EraseCutIs
  <2>4. ASSUME NEW s \in Sector, NEW i \in Slot, IsRecord(s, i)'
        PROVE  IsRecord(s, i) /\ slot'[s][i] = slot[s][i] /\ (s = T => i < k)
    <3>1. TornCell.body # "record"
      BY DEF TornCell
    <3> QED BY <2>3, <2>4, <3>1 DEF IsRecord
  <2>5. RecordsInOrder'
    <3> SUFFICES ASSUME NEW s \in Sector, NEW i \in Slot, IsRecord(s, i)'
                 PROVE  head'[s] = "valid" /\ \A j \in 0 .. i : IsRecord(s, j)'
      BY DEF RecordsInOrder
    <3>1. head[s] = "valid" /\ \A j \in 0 .. i : IsRecord(s, j)
      BY <2>4 DEF LogInv, RecordsInOrder
    <3>2. ASSUME NEW j \in 0 .. i PROVE IsRecord(s, j)'
      <4>1. j \in Slot /\ j <= i /\ j \in Nat /\ i \in Nat /\ k \in Nat
        BY SectorIs DEF Slot, Offset
      <4>2. s = T => j < k
        BY <2>4, <4>1
      <4> QED BY <2>3, <3>1, <4>1, <4>2 DEF IsRecord
    <3> QED BY <2>3, <3>1, <3>2
  <2>6. IdsInOrder'
    <3>1. \A s, t, i, j : Precedes(s, i, t, j)' <=> Precedes(s, i, t, j)
      BY <2>3 DEF Precedes
    <3>2. \A s \in Sector, i \in Slot : slot[s][i].id \in Nat
      BY DEF LogInv, FlashTypeOK, Cell
    <3>3. \A s, t \in Sector, i, j \in Slot :
            /\ IsRecord(s, i) => slot[s][i].id < nextId
            /\ IsRecord(s, i) /\ IsRecord(t, j) /\ Precedes(s, i, t, j) => slot[s][i].id < slot[t][j].id
      BY DEF LogInv, IdsInOrder
    <3> QED BY <1>1, <2>4, <3>1, <3>2, <3>3 DEF IdsInOrder
  <2>7. RingOK'
    <3>1. PICK z \in Sector : z = activeSector
      BY DEF LogInv, RamTypeOK
    <3>2. Occupied' = Occupied /\ \A a : IsArc(a, z)' <=> IsArc(a, z)
      BY <2>3 DEF Occupied, IsArc
    <3>3. Tidy(z)'
      <4>1. slot'[z] = slot[z] /\ Tidy(z)
        BY <1>1, <2>2, <2>3, <3>1, ActiveIsNewest
      <4> QED BY <4>1 DEF Tidy
    <3>4. \E a \in Sector : IsArc(a, z)'
      BY <1>1, <3>1, <3>2, ActiveIsNewest
    <3>5. \A s \in Occupied' : gen'[s] <= nextId'
      <4>1. \A s \in Occupied : gen[s] <= nextId /\ gen[s] \in Nat
        BY DEF LogInv, RingOK, FlashTypeOK, Occupied
      <4> QED BY <1>1, <2>3, <3>2, <4>1
    <3> QED BY <1>2, <3>3, <3>4, <3>5, RingAtRest
  <2> QED BY <1>2, <2>3, <2>5, <2>6, <2>7 DEF LogInv
<1> QED BY <1>3, <1>4, <1>5

-----------------------------------------------------------------------------
(* The walk, and a batch marked drained.                                    *)

\* The walk from o to z passes c: what the rest of it, from c on, is.
LEMMA RestOfWalk ==
  ASSUME NEW o \in Sector, NEW c \in Sector, NEW z \in Sector, NEW s \in Sector,
         Dist(o, c) <= Dist(o, z)
  PROVE  /\ Dist(c, s) <= Dist(c, z) <=> Dist(o, s) <= Dist(o, z) /\ Dist(o, c) <= Dist(o, s)
         /\ Dist(o, c) <= Dist(o, s) => Dist(c, s) = Dist(o, s) - Dist(o, c)
BY SectorIs DEF Dist, Sector

\* Cell x is not before position c on the walk.
AtOrAfter(c, x) ==
  /\ Dist(oldest.sector, c.sector) <= Dist(oldest.sector, x[1])
  /\ x[1] = c.sector => c.offset <= x[2]

LEMMA AfterIs ==
  ASSUME LogInv, ready, NEW p \in Position, p.offset \in Slot,
         Dist(oldest.sector, p.sector) <= Dist(oldest.sector, activeSector),
         NEW x \in Live, Before(oldest, p, At(x[1], x[2]))
  PROVE  /\ After(p) \in Position
         /\ Dist(oldest.sector, After(p).sector) <= Dist(oldest.sector, activeSector)
         /\ \A y \in Live : Before(oldest, p, At(y[1], y[2])) <=> AtOrAfter(After(p), y)
<1>0. PICK w : w = oldest.sector
  OBVIOUS
<1>1. /\ w \in Sector /\ activeSector \in Sector /\ p.sector \in Sector
      /\ p.offset \in Nat /\ p.offset <= SlotsPerSector - 1
  BY <1>0, SectorIs DEF LogInv, RamTypeOK, Position, Slot
<1>2. \A s \in Sector : Dist(w, s) \in 0 .. NumSectors - 1 /\ (Dist(w, s) = Dist(w, p.sector) <=> s = p.sector)
  BY <1>1, DistIs
<1>3. \A y \in Live : y[1] \in Sector /\ y[2] \in Nat /\ y[2] <= SlotsPerSector - 1
  BY SectorIs DEF Live, Slot
<1>4. Dist(w, x[1]) <= Dist(w, activeSector)
  BY <1>0 DEF LogInv, WalkOK, OnWalk
<1>5. \A y \in Live : Before(oldest, p, At(y[1], y[2]))
        <=> Dist(w, p.sector) < Dist(w, y[1]) \/ (p.sector = y[1] /\ p.offset < y[2])
  BY <1>0 DEF Before, At
<1>6. Dist(w, p.sector) <= Dist(w, activeSector)
  BY <1>0
<1>7. CASE p.offset # SlotsPerSector - 1
  <2>1. /\ After(p).sector = p.sector /\ After(p).offset = p.offset + 1 /\ After(p) \in Position
    BY <1>1, <1>7, SectorIs DEF After, At, Position, Offset
  <2>2. ASSUME NEW y \in Live
        PROVE  Dist(w, p.sector) < Dist(w, y[1]) \/ (p.sector = y[1] /\ p.offset < y[2])
                 <=> Dist(w, p.sector) <= Dist(w, y[1]) /\ (y[1] = p.sector => p.offset + 1 <= y[2])
    BY <1>1, <1>2, <1>3
  <2> QED BY <1>0, <1>5, <1>6, <2>1, <2>2 DEF AtOrAfter
<1>8. CASE p.offset = SlotsPerSector - 1
  <2>1. Dist(w, p.sector) < Dist(w, x[1])
    BY <1>1, <1>3, <1>5, <1>8
  <2>2. Dist(w, p.sector) < NumSectors - 1
    <3>1. Dist(w, x[1]) \in 0 .. NumSectors - 1 /\ Dist(w, p.sector) \in 0 .. NumSectors - 1
      BY <1>1, <1>2, <1>3
    <3> QED BY <2>1, <3>1, SectorIs
  <2>3. NextSector(p.sector) \in Sector /\ Dist(w, NextSector(p.sector)) = Dist(w, p.sector) + 1
    BY <1>1, <1>2, <2>2, NextIs
  <2>4. After(p).sector = NextSector(p.sector) /\ After(p).offset = 0 /\ After(p) \in Position
    BY <1>8, <2>3, SectorIs DEF After, At, Position, Offset
  <2>5. Dist(w, p.sector) + 1 <= Dist(w, activeSector)
    BY <1>1, <1>2, <1>3, <1>4, <2>1
  <2>6. ASSUME NEW y \in Live
        PROVE  Dist(w, p.sector) < Dist(w, y[1]) \/ (p.sector = y[1] /\ p.offset < y[2])
                 <=> Dist(w, p.sector) + 1 <= Dist(w, y[1])
                     /\ (y[1] = NextSector(p.sector) => 0 <= y[2])
    BY <1>1, <1>2, <1>3, <1>8
  <2> QED BY <1>0, <1>5, <2>3, <2>4, <2>5, <2>6 DEF AtOrAfter
<1> QED BY <1>7, <1>8

LEMMA AfterType ==
  ASSUME NEW p \in Position, p.offset \in Slot
  PROVE  After(p) \in Position
<1>1. NextSector(p.sector) \in Sector
  BY NextIs DEF Position
<1> QED BY <1>1, SectorIs DEF After, At, Position, Slot, Offset

\* The records of a batch are counted ones, each different from the others.
LEMMA PeekedIs ==
  ASSUME LogInv, ready, NEW i \in 1 .. Len(peeked)
  PROVE  /\ peeked[i] \in Position /\ peeked[i].sector \in Sector /\ peeked[i].offset \in Slot
         /\ peeked[i] = At(peeked[i].sector, peeked[i].offset)
         /\ <<peeked[i].sector, peeked[i].offset>> \in Live
         /\ Dist(oldest.sector, peeked[i].sector) <= Dist(oldest.sector, activeSector)
         /\ \A j \in 1 .. Len(peeked) : i # j =>
              <<peeked[i].sector, peeked[i].offset>> # <<peeked[j].sector, peeked[j].offset>>
<1>1. peeked \in Seq(Position) /\ peeked[i] \in Position
  BY DEF LogInv, RamTypeOK
<1>2. <<peeked[i].sector, peeked[i].offset>> \in Live
  BY DEF LogInv, PeekOK
<1>3. peeked[i].sector \in Sector /\ peeked[i].offset \in Slot
  BY <1>2, LiveIs
<1>4. Dist(oldest.sector, peeked[i].sector) <= Dist(oldest.sector, activeSector)
  <2>1. OnWalk(<<peeked[i].sector, peeked[i].offset>>[1])
    BY <1>2 DEF LogInv, WalkOK
  <2> QED BY <2>1 DEF OnWalk
<1>5. ASSUME NEW j \in 1 .. Len(peeked), i # j
      PROVE <<peeked[i].sector, peeked[i].offset>> # <<peeked[j].sector, peeked[j].offset>>
  <2>1. Before(oldest, peeked[i], peeked[j]) \/ Before(oldest, peeked[j], peeked[i])
    <3>1. Len(peeked) \in Nat /\ (i < j \/ j < i)
      BY <1>1, <1>5
    <3> QED BY <3>1 DEF LogInv, PeekOK
  <2>2. <<peeked[j].sector, peeked[j].offset>> \in Live
    BY DEF LogInv, PeekOK
  <2>3. peeked[j].sector \in Sector /\ peeked[j].offset \in Slot
    BY <2>2, LiveIs
  <2>4. oldest.sector \in Sector
    BY DEF LogInv, RamTypeOK, Position
  <2>5. /\ Dist(oldest.sector, peeked[i].sector) \in Nat /\ Dist(oldest.sector, peeked[j].sector) \in Nat
        /\ peeked[i].offset \in Nat /\ peeked[j].offset \in Nat
    BY <1>3, <2>3, <2>4, DistIs, SectorIs, SMTT(20) DEF Slot
  <2> QED BY <2>1, <2>5 DEF Before
<1> QED BY <1>1, <1>2, <1>3, <1>4, <1>5 DEF At, Position

\* The cells of the records numbered in W, and those of one sector.
CellsOf(W) == {<<peeked[i].sector, peeked[i].offset>> : i \in W}
In(D, s) == {o \in Slot : <<s, o>> \in D}

LEMMA CellsCount ==
  ASSUME LogInv, ready, NEW W \in SUBSET (1 .. Len(peeked))
  PROVE  /\ CellsOf(W) \in SUBSET (Sector \X Slot) /\ CellsOf(W) \subseteq Live
         /\ Cardinality(CellsOf(W)) = Cardinality(W)
         /\ \A s \in Sector :
              Cardinality({i \in W : peeked[i].sector = s}) = Cardinality(In(CellsOf(W), s))
<1>1. IsFiniteSet(W)
  <2>1. Len(peeked) \in Nat
    BY DEF LogInv, RamTypeOK
  <2>2. IsFiniteSet(1 .. Len(peeked))
    BY <2>1, FS_Interval
  <2> QED BY <2>2, FS_Subset
<1>2. \A i \in W : /\ <<peeked[i].sector, peeked[i].offset>> \in Live
                   /\ peeked[i].sector \in Sector /\ peeked[i].offset \in Slot
                   /\ \A j \in W : i # j =>
                        <<peeked[i].sector, peeked[i].offset>> # <<peeked[j].sector, peeked[j].offset>>
  BY PeekedIs
<1>3. CellsOf(W) \in SUBSET (Sector \X Slot) /\ CellsOf(W) \subseteq Live
  BY <1>2 DEF CellsOf
<1>4. Cardinality(CellsOf(W)) = Cardinality(W)
  <2> DEFINE f == [i \in W |-> <<peeked[i].sector, peeked[i].offset>>]
  <2>1. f \in Surjection(W, CellsOf(W))
    BY DEF Surjection, CellsOf
  <2>2. f \in Injection(W, CellsOf(W))
    BY <1>2, <2>1 DEF Injection, Surjection, IsInjective
  <2> HIDE DEF f
  <2> QED BY <1>1, <2>1, <2>2, FS_Surjection
<1>5. ASSUME NEW s \in Sector
      PROVE  Cardinality({i \in W : peeked[i].sector = s}) = Cardinality(In(CellsOf(W), s))
  <2> DEFINE I == {i \in W : peeked[i].sector = s}
             f == [i \in I |-> peeked[i].offset]
  <2>1. IsFiniteSet(I)
    BY <1>1, FS_Subset
  <2>2. f \in [I -> In(CellsOf(W), s)]
    BY <1>2 DEF In, CellsOf
  <2>3. ASSUME NEW o \in In(CellsOf(W), s) PROVE \E i \in I : f[i] = o
    <3>1. PICK i \in W : <<s, o>> = <<peeked[i].sector, peeked[i].offset>>
      BY DEF In, CellsOf
    <3> QED BY <3>1
  <2>4. \A i, j \in I : f[i] = f[j] => i = j
    BY <1>2
  <2> HIDE DEF I, f
  <2>5. f \in Surjection(I, In(CellsOf(W), s)) /\ f \in Injection(I, In(CellsOf(W), s))
    BY <2>2, <2>3, <2>4 DEF Injection, Surjection, IsInjective
  <2>6. Cardinality(I) = Cardinality(In(CellsOf(W), s))
    BY <2>1, <2>5, FS_Surjection
  <2> QED BY <2>6 DEF I
<1> QED BY <1>3, <1>4, <1>5

LEMMA ClearedIs ==
  ASSUME LogInv, ready, NEW W \in SUBSET (1 .. Len(peeked)), FlagsCleared(W),
         head' = head, gen' = gen, NEW D, D = CellsOf(W)
  PROVE  /\ FlashTypeOK'
         /\ \A s \in Sector, i \in Slot :
              /\ IsRecord(s, i)' <=> IsRecord(s, i)
              /\ slot'[s][i].id = slot[s][i].id
              /\ slot'[s][i] = BlankCell <=> slot[s][i] = BlankCell
              /\ IsUndrained(s, i)' <=> IsUndrained(s, i) /\ <<s, i>> \notin D
<1>1. slot \in [Sector -> [Slot -> Cell]]
  BY DEF LogInv, FlashTypeOK
<1>2. ASSUME NEW s \in Sector, NEW o \in Slot
      PROVE  (\E i \in W : peeked[i] = At(s, o)) <=> <<s, o>> \in D
  <2>1. \A i \in W : peeked[i] = At(peeked[i].sector, peeked[i].offset)
    BY PeekedIs
  <2>2. At(s, o).sector = s /\ At(s, o).offset = o
    BY DEF At
  <2> QED BY <2>1, <2>2 DEF CellsOf
<1>3. \A s \in Sector, o \in Slot : slot'[s][o] = IF <<s, o>> \in D THEN [slot[s][o] EXCEPT !.undrained = FALSE]
                                                  ELSE slot[s][o]
  BY <1>2 DEF FlagsCleared
<1>4. \A c \in Cell : /\ [c EXCEPT !.undrained = FALSE] \in Cell
                      /\ [c EXCEPT !.undrained = FALSE].body = c.body
                      /\ [c EXCEPT !.undrained = FALSE].id = c.id
                      /\ [c EXCEPT !.undrained = FALSE].undrained = FALSE
  BY DEF Cell
<1>5. slot' \in [Sector -> [Slot -> Cell]]
  <2>1. \A s \in Sector, o \in Slot : slot'[s][o] \in Cell
    BY ZenonT(40), <1>1, <1>3, <1>4
  <2>2. slot' = [s \in Sector |-> [o \in Slot |-> slot'[s][o]]]
    BY <1>3 DEF FlagsCleared
  <2> QED BY <2>1, <2>2
<1>6. FlashTypeOK'
  BY <1>5 DEF LogInv, FlashTypeOK
<1>7. \A s \in Sector, o \in Slot : <<s, o>> \in D => slot[s][o].body = "record"
  <2>1. D \subseteq Live
    BY CellsCount
  <2> QED BY <2>1 DEF Live, Und, IsUndrained, IsRecord
<1>8. ASSUME NEW s \in Sector, NEW i \in Slot
      PROVE  /\ IsRecord(s, i)' <=> IsRecord(s, i)
             /\ slot'[s][i].id = slot[s][i].id
             /\ slot'[s][i] = BlankCell <=> slot[s][i] = BlankCell
             /\ IsUndrained(s, i)' <=> IsUndrained(s, i) /\ <<s, i>> \notin D
  <2>1. slot[s][i] \in Cell /\ BlankCell.body = "blank"
    BY <1>1 DEF BlankCell
  <2>2. CASE <<s, i>> \in D
    <3>1. /\ slot'[s][i].body = "record" /\ slot[s][i].body = "record"
          /\ slot'[s][i].id = slot[s][i].id /\ slot'[s][i].undrained = FALSE
      <4>1. PICK c \in Cell : c = slot[s][i]
        BY <2>1
      <4>2. slot'[s][i] = [c EXCEPT !.undrained = FALSE] /\ c.body = "record"
        BY <1>3, <1>7, <2>2, <4>1
      <4> QED BY <1>4, <4>1, <4>2
    <3> QED BY <2>1, <2>2, <3>1 DEF IsRecord, IsUndrained
  <2>3. CASE <<s, i>> \notin D
    <3>1. slot'[s][i] = slot[s][i]
      BY <1>3, <2>3
    <3> QED BY <2>3, <3>1 DEF IsRecord, IsUndrained
  <2> QED BY <2>2, <2>3
<1> QED BY <1>6, <1>8

LEMMA MarkCutKeeps ==
  ASSUME LogInv, MarkCut
  PROVE  LogInv'
<1>1. /\ ready /\ RamAtReset /\ nextId' = nextId /\ head' = head /\ gen' = gen
      /\ nextId \in 1 .. MaxAppends + 1 /\ nextId \in Nat /\ Len(peeked) \in Nat
  BY DEF MarkCut, LogInv, RamTypeOK
<1>2. PICK m \in 0 .. Len(peeked) : FlagsCleared(1 .. m)
  BY <1>1 DEF MarkCut
<1>3. RamTypeOK' /\ ~ ready' /\ Reset' /\ peeked' = << >> /\ batch' = << >>
  BY <1>1, ResetRam
<1>4. 1 .. m \in SUBSET (1 .. Len(peeked))
  BY <1>1
<1>5. FlashTypeOK' /\ \A s \in Sector, i \in Slot :
                        /\ IsRecord(s, i)' <=> IsRecord(s, i)
                        /\ slot'[s][i].id = slot[s][i].id
                        /\ slot'[s][i] = BlankCell <=> slot[s][i] = BlankCell
  BY <1>1, <1>2, <1>4, ClearedIs
<1>6. RecordsInOrder' /\ IdsInOrder' /\ RingOK'
  <2>1. nextId' \in Nat /\ nextId <= nextId'
    BY <1>1
  <2> QED BY <1>1, <1>3, <1>5, <2>1, RingUntouched
<1> QED BY <1>3, <1>5, <1>6 DEF LogInv

\* From position c of the walk on, what is counted lies on the walk from c.
LEMMA WalkFrom ==
  ASSUME LogInv, ready, pendingCount > 0, NEW c \in Position,
         Dist(oldest.sector, c.sector) <= Dist(oldest.sector, activeSector),
         oldest' = c, activeSector' = activeSector,
         Live' \subseteq Live, \A x \in Live' : AtOrAfter(c, x),
         \A s \in Sector : Exact(s) => Exact(s)'
  PROVE  WalkOK'
<1>1. /\ oldest.sector \in Sector /\ activeSector \in Sector /\ c.sector \in Sector
      /\ \A s \in Sector : OnWalk(s) => Exact(s)
      /\ \A x \in Live : x[1] \in Sector /\ OnWalk(x[1])
  BY DEF LogInv, RamTypeOK, Position, WalkOK, Live
<1>2. PICK w \in Sector, z \in Sector : w = oldest.sector /\ z = activeSector
  BY <1>1
<1>3. \A s \in Sector : Dist(c.sector, s) <= Dist(c.sector, z)
        <=> Dist(w, s) <= Dist(w, z) /\ Dist(w, c.sector) <= Dist(w, s)
  <2>1. Dist(w, c.sector) <= Dist(w, z)
    BY <1>2
  <2> QED BY <1>1, <2>1, RestOfWalk
<1>4. ASSUME NEW x \in Live'
      PROVE  /\ Dist(c.sector, x[1]) <= Dist(c.sector, z)
             /\ x[1] = c.sector => c.offset <= x[2]
  <2>1. x \in Live /\ AtOrAfter(c, x)
    OBVIOUS
  <2> QED BY <1>1, <1>2, <1>3, <2>1 DEF AtOrAfter, OnWalk
<1>5. ASSUME NEW s \in Sector, Dist(c.sector, s) <= Dist(c.sector, z) PROVE Exact(s)'
  BY <1>1, <1>2, <1>3, <1>5 DEF OnWalk
<1> QED BY <1>2, <1>4, <1>5 DEF WalkOK, OnWalk

LEMMA MarkDrainedIs ==
  ASSUME LogInv, Premises, MarkDrained
  PROVE  /\ ready /\ ready'
         /\ \E count \in 1 .. Len(peeked) :
              /\ FlagsCleared(1 .. count)
              /\ undrainedInSector' =
                   [s \in Sector |-> SatMinus(undrainedInSector[s],
                                       Cardinality({i \in 1 .. count : peeked[i].sector = s}))]
              /\ pendingCount' = SatMinus(pendingCount, Cardinality(1 .. count))
              /\ oldest' = OldestAfterMark(count)
              /\ Drains(1 .. count)
         /\ peeked' = << >> /\ batch' = << >>
         /\ UNCHANGED <<head, gen, nextGeneration, activeSector, writeOffset, activeSectorClosed,
                        nextId, acked, evicted>>
BY PremisesGive DEF MarkDrained

LEMMA MarkDrainedKeeps ==
  ASSUME LogInv, Premises, MarkDrained
  PROVE  LogInv'
<1>1. PICK count \in 1 .. Len(peeked) :
        /\ FlagsCleared(1 .. count)
        /\ undrainedInSector' =
             [s \in Sector |-> SatMinus(undrainedInSector[s],
                                 Cardinality({i \in 1 .. count : peeked[i].sector = s}))]
        /\ pendingCount' = SatMinus(pendingCount, Cardinality(1 .. count))
        /\ oldest' = OldestAfterMark(count)
  BY MarkDrainedIs
<1>2. /\ ready /\ ready' /\ peeked' = << >> /\ batch' = << >>
      /\ head' = head /\ gen' = gen /\ nextGeneration' = nextGeneration
      /\ activeSector' = activeSector /\ writeOffset' = writeOffset
      /\ activeSectorClosed' = activeSectorClosed /\ nextId' = nextId /\ evicted' = evicted
  BY MarkDrainedIs
<1>3. Len(peeked) \in Nat /\ nextId \in Nat
  BY DEF LogInv, RamTypeOK
<1>4. 1 .. count \in SUBSET (1 .. Len(peeked))
  BY <1>3
<1>5. PICK D : D = CellsOf(1 .. count)
  OBVIOUS
<1>6. /\ FlashTypeOK'
      /\ \A s \in Sector, i \in Slot :
           /\ IsRecord(s, i)' <=> IsRecord(s, i)
           /\ slot'[s][i].id = slot[s][i].id
           /\ slot'[s][i] = BlankCell <=> slot[s][i] = BlankCell
           /\ IsUndrained(s, i)' <=> IsUndrained(s, i) /\ <<s, i>> \notin D
  BY <1>1, <1>2, <1>4, <1>5, ClearedIs
<1>7. RecordsInOrder' /\ IdsInOrder' /\ RingOK'
  <2>1. nextId' \in Nat /\ nextId <= nextId'
    BY <1>2, <1>3
  <2> QED BY <1>2, <1>6, <2>1, RingUntouched
<1>8. ActiveOK'
  <2>1. activeSector \in Sector
    BY DEF LogInv, RamTypeOK
  <2> QED BY <1>2, <1>6, <2>1 DEF LogInv, ActiveOK
<1>9. /\ D \in SUBSET (Sector \X Slot) /\ D \subseteq Live
      /\ Cardinality(D) = Cardinality(1 .. count)
      /\ \A s \in Sector : Cardinality({i \in 1 .. count : peeked[i].sector = s}) = Cardinality(In(D, s))
  BY <1>2, <1>4, <1>5, CellsCount
<1>10. \A s \in Sector : Und(s)' = Und(s) \ In(D, s)
  BY <1>6 DEF Und, In
<1>11. undrainedInSector \in [Sector -> Nat] /\ pendingCount = Cardinality(Live)
  BY <1>2 DEF LogInv, RamTypeOK, CountsOK
<1>12. \A s \in Sector : In(D, s) \subseteq Und(s) /\ In(D, s) \in SUBSET Slot
                         /\ (undrainedInSector[s] = 0 => In(D, s) = {})
  BY <1>9 DEF In, Live
<1>13. ASSUME NEW s \in Sector
       PROVE /\ undrainedInSector'[s] = SatMinus(undrainedInSector[s], Cardinality(In(D, s)))
             /\ Exact(s) => Exact(s)' /\ (undrainedInSector'[s] = 0 => Und(s)' = {})
             /\ undrainedInSector[s] = 0 => undrainedInSector'[s] = 0
             /\ undrainedInSector'[s] \in Nat
  <2>1. undrainedInSector'[s] = SatMinus(undrainedInSector[s], Cardinality(In(D, s)))
    BY <1>1, <1>9
  <2>2. /\ IsFiniteSet(Und(s)) /\ Cardinality(Und(s)) \in Nat
        /\ Cardinality(In(D, s)) \in Nat /\ undrainedInSector[s] \in Nat
    BY <1>11, <1>12, LiveIs, SlotSetIs
  <2>3. Cardinality(Und(s) \ In(D, s)) = Cardinality(Und(s)) - Cardinality(In(D, s))
        /\ Cardinality(In(D, s)) <= Cardinality(Und(s))
    <3>1. Cardinality(Und(s) \ In(D, s)) = Cardinality(Und(s)) - Cardinality(Und(s) \cap In(D, s))
      BY <2>2, FS_Difference
    <3>2. Und(s) \cap In(D, s) = In(D, s)
      BY <1>12
    <3>3. Cardinality(In(D, s)) <= Cardinality(Und(s))
      BY <1>12, <2>2, FS_Subset
    <3> QED BY <3>1, <3>2, <3>3
  <2>4. ASSUME Exact(s) PROVE Exact(s)' /\ (undrainedInSector'[s] = 0 => Und(s)' = {})
    <3>1. undrainedInSector'[s] = Cardinality(Und(s) \ In(D, s))
      BY <2>1, <2>2, <2>3, <2>4 DEF Exact, SatMinus
    <3>2. Exact(s)'
      BY <1>10, <3>1 DEF Exact
    <3>3. Und(s) \ In(D, s) \in SUBSET Slot
      BY LiveIs
    <3> QED BY <1>10, <3>1, <3>2, <3>3, SlotSetIs
  <2>5. undrainedInSector[s] = 0 => undrainedInSector'[s] = 0
    <3>1. ASSUME undrainedInSector[s] = 0 PROVE undrainedInSector'[s] = 0
      <4>1. Cardinality(In(D, s)) = 0
        BY <1>12, <3>1, FS_EmptySet
      <4> QED BY <2>1, <3>1, <4>1 DEF SatMinus
    <3> QED BY <3>1
  <2>6. undrainedInSector'[s] \in Nat
    BY <2>1, <2>2 DEF SatMinus
  <2> QED BY <2>1, <2>4, <2>5, <2>6
<1>14. \A s \in Sector : Exact(s) \/ (GivenUp(s) /\ undrainedInSector[s] = 0)
  BY <1>2 DEF LogInv, CountsOK, GivenUp
<1>15. Live' = Live \ D
  <2>1. Live' \in SUBSET (Sector \X Slot) /\ Live \ D \in SUBSET (Sector \X Slot)
    BY LiveIs DEF Live
  <2>2. ASSUME NEW s \in Sector, NEW i \in Slot
        PROVE  <<s, i>> \in Live' <=> <<s, i>> \in Live \ D
    <3>1. <<s, i>> \in Live' <=> i \in Und(s)' /\ undrainedInSector'[s] # 0
      BY DEF Live
    <3>2. <<s, i>> \in Live <=> i \in Und(s) /\ undrainedInSector[s] # 0
      BY DEF Live
    <3>3. i \in Und(s)' <=> i \in Und(s) /\ <<s, i>> \notin D
      BY <1>10 DEF In
    <3> QED BY <1>13, <1>14, <3>1, <3>2, <3>3
  <2> QED BY <2>1, <2>2
<1>16. pendingCount' = Cardinality(Live') /\ pendingCount' \in Nat
  <2>1. Cardinality(Live \ D) = Cardinality(Live) - Cardinality(Live \cap D)
    BY LiveIs, CellSetIs, FS_Difference
  <2>2. Live \cap D = D
    BY <1>9
  <2>3. Cardinality(D) <= Cardinality(Live) /\ Cardinality(D) \in Nat /\ Cardinality(Live) \in Nat
    BY <1>9, LiveIs, CellSetIs, FS_Subset
  <2>4. pendingCount' = SatMinus(Cardinality(Live), Cardinality(D))
    BY <1>1, <1>9, <1>11
  <2>5. pendingCount' = Cardinality(Live) - Cardinality(D)
    BY <2>3, <2>4 DEF SatMinus
  <2>6. Cardinality(Live \ D) = Cardinality(Live) - Cardinality(D)
    BY <2>1, <2>2
  <2>7. pendingCount' \in Nat
    BY <2>3, <2>5
  <2> QED BY <1>15, <2>5, <2>6, <2>7
<1>17. CountsOK'
  <2>1. ASSUME NEW s \in Sector PROVE Exact(s)' \/ GivenUp(s)'
    <3>1. ASSUME GivenUp(s), undrainedInSector[s] = 0 PROVE GivenUp(s)'
      <4>1. UndrainedIdsIn(s)' \subseteq UndrainedIdsIn(s)
        BY ZenonT(40), <1>6 DEF UndrainedIdsIn
      <4> QED BY <1>2, <1>13, <3>1, <4>1 DEF GivenUp
    <3> QED BY <1>13, <1>14, <3>1
  <2> QED BY <1>16, <2>1 DEF CountsOK
<1>18. pendingCount > 0
  <2>1. D # {}
    <3>1. 1 \in 1 .. count
      BY <1>3
    <3>2. <<peeked[1].sector, peeked[1].offset>> \in D
      BY <1>5, <3>1 DEF CellsOf
    <3> QED BY <3>2
  <2>2. Live # {}
    BY <1>9, <2>1
  <2> QED BY <1>11, <2>2, LiveIs, CellSetIs
<1>19. \A x \in Live' : /\ x \in Live /\ \A j \in 1 .. count : peeked[j] # At(x[1], x[2])
                        /\ x = <<x[1], x[2]>>
  <2> TAKE x \in Live'
  <2>1. x \in Live /\ x \notin D /\ x = <<x[1], x[2]>>
    BY <1>15, LiveIs
  <2>2. ASSUME NEW j \in 1 .. count, peeked[j] = At(x[1], x[2]) PROVE FALSE
    <3>1. <<peeked[j].sector, peeked[j].offset>> = x
      BY <2>1, <2>2 DEF At
    <3> QED BY <1>5, <2>1, <3>1 DEF CellsOf
  <2> QED BY <2>1, <2>2
<1>20. WalkOK' /\ oldest' \in Position
  <2>1. CASE count < Len(peeked)
    <3>1. PICK i \in 1 .. Len(peeked) : i = count + 1
      BY <1>3, <2>1
    <3>2. PICK p : p = peeked[i]
      OBVIOUS
    <3>3. oldest' = p
      BY <1>1, <2>1, <3>1, <3>2 DEF OldestAfterMark
    <3>4. p \in Position /\ Dist(oldest.sector, p.sector) <= Dist(oldest.sector, activeSector)
      BY <1>2, <3>2, PeekedIs
    <3>5. ASSUME NEW x \in Live' PROVE AtOrAfter(p, x)
      <4>1. x \in Live /\ \A j \in 1 .. count : peeked[j] # At(x[1], x[2])
        BY <1>19
      <4>2. \/ \E j \in 1 .. Len(peeked) : peeked[j] = At(x[1], x[2])
            \/ Before(oldest, peeked[i], At(x[1], x[2]))
        BY <1>2, <4>1 DEF LogInv, PeekOK
      <4>3. peeked[i] = At(x[1], x[2]) \/ Before(oldest, peeked[i], At(x[1], x[2]))
        <5>1. ASSUME NEW j \in 1 .. Len(peeked), peeked[j] = At(x[1], x[2])
              PROVE  j = i \/ Before(oldest, peeked[i], peeked[j])
          <6>1. j = i \/ i < j
            BY <1>3, <3>1, <4>1, <5>1
          <6> QED BY <1>2, <6>1 DEF LogInv, PeekOK
        <5> QED BY <4>2, <5>1
      <4>4. x[1] \in Sector /\ x[2] \in Nat /\ oldest.sector \in Sector /\ p.sector \in Sector /\ p.offset \in Nat
        BY <3>4, <4>1, SectorIs DEF Live, Slot, LogInv, RamTypeOK, Position, Offset
      <4>5. Dist(oldest.sector, p.sector) \in Nat /\ Dist(oldest.sector, x[1]) \in Nat
        BY SMTT(20), <4>4, DistIs, SectorIs
      <4> QED BY <3>2, <4>3, <4>4, <4>5 DEF AtOrAfter, Before, At
    <3>6. Live' \subseteq Live /\ \A s \in Sector : Exact(s) => Exact(s)'
      BY <1>13, <1>15
    <3> QED BY <1>2, <1>18, <3>3, <3>4, <3>5, <3>6, WalkFrom
  <2>2. CASE count = Len(peeked)
    <3>1. PICK p : p = peeked[count]
      OBVIOUS
    <3>2. /\ p \in Position /\ p.offset \in Slot
          /\ Dist(oldest.sector, p.sector) <= Dist(oldest.sector, activeSector)
      BY <1>2, <3>1, PeekedIs
    <3>3. oldest' = After(p)
      <4>1. oldest' = peekEnd
        BY <1>1, <1>3, <2>2 DEF OldestAfterMark
      <4>2. Len(peeked) > 0
        BY <1>3
      <4> QED BY <1>2, <2>2, <3>1, <4>1, <4>2 DEF LogInv, PeekOK
    <3>4. \A x \in Live' : x \in Live /\ Before(oldest, p, At(x[1], x[2]))
      BY <1>2, <1>19, <2>2, <3>1 DEF LogInv, PeekOK
    <3>5. CASE Live' = {}
      <4>1. pendingCount' = 0
        BY <1>16, <3>5, FS_EmptySet
      <4>2. WalkOK'
        BY <3>5, <4>1 DEF WalkOK
      <4> QED BY <3>2, <3>3, <4>2, AfterType
    <3>6. CASE Live' # {}
      <4>1. PICK x \in Live : Before(oldest, p, At(x[1], x[2]))
        BY <3>4, <3>6
      <4>2. /\ After(p) \in Position
            /\ Dist(oldest.sector, After(p).sector) <= Dist(oldest.sector, activeSector)
            /\ \A y \in Live : Before(oldest, p, At(y[1], y[2])) <=> AtOrAfter(After(p), y)
        BY <1>2, <3>2, <4>1, AfterIs
      <4>3. Live' \subseteq Live /\ \A s \in Sector : Exact(s) => Exact(s)'
        BY <1>13, <1>15
      <4>4. \A y \in Live' : AtOrAfter(After(p), y)
        BY <3>4, <4>2
      <4>5. PICK c \in Position : c = After(p)
        BY <4>2
      <4> QED BY <1>2, <1>18, <3>3, <4>2, <4>3, <4>4, <4>5, WalkFrom
    <3> QED BY <3>5, <3>6
  <2> QED BY <1>3, <2>1, <2>2
<1>21. PeekOK'
  BY <1>2 DEF PeekOK
<1>22. RamTypeOK'
  <2>1. undrainedInSector' \in [Sector -> Nat]
    BY <1>1, <1>13
  <2>2. << >> \in Seq(Position) /\ << >> \in Seq(Nat)
    OBVIOUS
  <2> QED BY <1>2, <1>16, <1>20, <2>1, <2>2 DEF LogInv, RamTypeOK
<1> QED BY <1>2, <1>6, <1>7, <1>8, <1>17, <1>20, <1>21, <1>22 DEF LogInv

-----------------------------------------------------------------------------
(* What peek_pending sees.                                                  *)

\* The least of some numbers, by the well-foundedness of < on them.
NatLess == OpToRel(<, Nat)

LEMMA NatLessIs == \A k, m \in Nat : k < m => <<k, m>> \in NatLess
BY DEF NatLess, OpToRel

LEMMA Least ==
  ASSUME NEW N \in SUBSET Nat, N # {}
  PROVE  \E m \in N : \A k \in N : m <= k
<1>1. IsWellFoundedOn(NatLess, Nat)
  BY NatLessThanWellFounded DEF NatLess
<1>2. PICK m \in N : \A k \in N : ~ <<k, m>> \in NatLess
  BY <1>1, WFMin
<1>3. ASSUME NEW k \in N PROVE m <= k
  <2>1. k \in Nat /\ m \in Nat
    OBVIOUS
  <2>2. ~ (k < m)
    <3> SUFFICES ASSUME k < m PROVE FALSE
      OBVIOUS
    <3>1. <<k, m>> \in NatLess
      BY <2>1, NatLessIs
    <3> QED BY <1>2, <3>1, Zenon
  <2> QED BY <2>1, <2>2
<1> QED BY <1>3

LEMMA RunEndIs ==
  ASSUME NEW s \in Sector, NEW c \in Offset
  PROVE  /\ RunEnd(s, c) \in Offset /\ RunEnd(s, c) >= c
         /\ \A i \in Slot : c <= i /\ i < RunEnd(s, c) => IsRecord(s, i)
         /\ RunEnd(s, c) < SlotsPerSector => ~ IsRecord(s, RunEnd(s, c))
<1> DEFINE E == {e \in Offset : e >= c /\ (e < SlotsPerSector => ~ IsRecord(s, e))}
           Ends(e) == /\ e >= c
                      /\ \A i \in Slot : c <= i /\ i < e => IsRecord(s, i)
                      /\ e < SlotsPerSector => ~ IsRecord(s, e)
<1>1. Offset \subseteq Nat /\ SlotsPerSector \in Offset /\ \A i \in Slot : i \in Offset /\ i < SlotsPerSector
  BY SectorIs DEF Offset, Slot
<1>2. SlotsPerSector \in E /\ E \in SUBSET Nat
  BY <1>1, SectorIs DEF Offset
<1>3. PICK m \in E : \A k \in E : m <= k
  BY <1>2, Least
<1>4. ASSUME NEW i \in Slot, c <= i, i < m PROVE IsRecord(s, i)
  <2>1. i \in Nat /\ m \in Nat /\ c \in Nat
    BY <1>1, <1>2
  <2>2. i \notin E
    BY <1>3, <1>4, <2>1
  <2> QED BY <1>1, <1>4, <2>1, <2>2
<1>5. m \in Offset /\ Ends(m)
  BY <1>4
<1>6. RunEnd(s, c) = CHOOSE e \in Offset : Ends(e)
  BY DEF RunEnd
<1> HIDE DEF Ends
<1>7. RunEnd(s, c) \in Offset /\ Ends(RunEnd(s, c))
  BY <1>5, <1>6
<1> QED BY <1>7 DEF Ends

LEMMA RunEndReaches ==
  ASSUME RecordsInOrder, NEW s \in Sector, NEW c \in Offset, NEW p \in Offset, c <= p
  PROVE  p < RunEnd(s, c) <=> p \in Slot /\ IsRecord(s, p)
<1>1. PICK e \in Offset : e = RunEnd(s, c)
  BY RunEndIs
<1>2. /\ e >= c /\ \A i \in Slot : c <= i /\ i < e => IsRecord(s, i)
      /\ e < SlotsPerSector => ~ IsRecord(s, e)
  BY <1>1, RunEndIs
<1>3. /\ e \in Nat /\ e <= SlotsPerSector /\ p \in Nat /\ p <= SlotsPerSector /\ c \in Nat
      /\ \A i \in Nat : i < SlotsPerSector => i \in Slot
  BY SectorIs DEF Offset, Slot
<1>4. ASSUME p < e PROVE p \in Slot /\ IsRecord(s, p)
  BY <1>2, <1>3, <1>4, SectorIs
<1>5. ASSUME p \in Slot, IsRecord(s, p) PROVE p < e
  <2> SUFFICES ASSUME e <= p PROVE FALSE
    BY <1>3
  <2>1. e \in 0 .. p /\ e < SlotsPerSector
    BY <1>3, <1>5, SectorIs DEF Slot
  <2> QED BY <1>2, <1>5, <2>1 DEF RecordsInOrder
<1> QED BY <1>1, <1>4, <1>5

LEMMA VisibleIs ==
  ASSUME LogInv, ready, pendingCount > 0, NEW c \in Position,
         Dist(oldest.sector, c.sector) <= Dist(oldest.sector, activeSector),
         NEW p \in Position
  PROVE  p \in Visible(c) <=> <<p.sector, p.offset>> \in Live /\ AtOrAfter(c, <<p.sector, p.offset>>)
<1>0. PICK w \in Sector, z \in Sector : w = oldest.sector /\ z = activeSector
  BY DEF LogInv, RamTypeOK, Position
<1>1. /\ c.sector \in Sector /\ c.offset \in Offset /\ p.sector \in Sector /\ p.offset \in Offset
      /\ 0 \in Offset /\ p.offset \in Nat /\ 0 <= p.offset
  BY SectorIs DEF Position, Offset
<1>2. RecordsInOrder /\ \A s \in Sector : OnWalk(s) => Exact(s)
  BY DEF LogInv, WalkOK
<1>3. Dist(c.sector, p.sector) <= Dist(c.sector, z)
        <=> Dist(w, p.sector) <= Dist(w, z) /\ Dist(w, c.sector) <= Dist(w, p.sector)
  <2>1. Dist(w, c.sector) <= Dist(w, z)
    BY <1>0
  <2> QED BY <1>1, <2>1, RestOfWalk
<1>4. (p.sector = c.sector => c.offset <= p.offset) =>
        (p.offset < RunEnd(p.sector, IF p.sector = c.sector THEN c.offset ELSE 0)
           <=> p.offset \in Slot /\ IsRecord(p.sector, p.offset))
  <2>1. CASE p.sector = c.sector
    BY <1>1, <1>2, <2>1, RunEndReaches
  <2>2. CASE p.sector # c.sector
    BY <1>1, <1>2, <2>2, RunEndReaches
  <2> QED BY <2>1, <2>2
<1>5. p \in Visible(c) <=>
        /\ p.offset < RunEnd(p.sector, IF p.sector = c.sector THEN c.offset ELSE 0)
        /\ p.sector = c.sector => c.offset <= p.offset
        /\ Dist(c.sector, p.sector) <= Dist(c.sector, activeSector)
        /\ slot[p.sector][p.offset].undrained
  BY DEF Visible
<1>6. <<p.sector, p.offset>> \in Live <=>
        p.offset \in Slot /\ IsUndrained(p.sector, p.offset) /\ undrainedInSector[p.sector] # 0
  BY <1>1 DEF Live, Und
<1>7. p.offset \in Slot /\ IsUndrained(p.sector, p.offset) /\ OnWalk(p.sector)
        => undrainedInSector[p.sector] # 0
  <2> SUFFICES ASSUME p.offset \in Slot, IsUndrained(p.sector, p.offset), OnWalk(p.sector)
               PROVE  undrainedInSector[p.sector] # 0
    OBVIOUS
  <2>1. p.offset \in Und(p.sector)
    BY DEF Und
  <2>2. undrainedInSector[p.sector] = Cardinality(Und(p.sector))
    BY <1>1, <1>2 DEF Exact
  <2> QED BY <2>1, <2>2, LiveIs, SlotSetIs
<1>8. <<p.sector, p.offset>> \in Live => OnWalk(p.sector)
  <2>1. \A x \in Live : OnWalk(x[1])
    BY DEF LogInv, WalkOK
  <2> QED BY <2>1
<1> QED BY <1>0, <1>3, <1>4, <1>5, <1>6, <1>7, <1>8 DEF AtOrAfter, OnWalk, IsUndrained

\* The walk is an order.
LEMMA BeforeIs ==
  ASSUME NEW c, c.sector \in Sector, NEW p \in Position, NEW q \in Position, NEW r \in Position
  PROVE  /\ ~ Before(c, p, p)
         /\ Before(c, p, q) /\ Before(c, q, r) => Before(c, p, r)
<1>1. /\ p.sector \in Sector /\ q.sector \in Sector /\ r.sector \in Sector
      /\ p.offset \in Nat /\ q.offset \in Nat /\ r.offset \in Nat
  BY SectorIs DEF Position, Offset
<1>2. \A s \in Sector : Dist(c.sector, s) \in Nat
  BY DistIs, SectorIs
<1> QED BY <1>1, <1>2 DEF Before

\* The first k of the records ps are counted ones in the order of the walk, and all others that
\* are counted come after them.
Taken(ps, k) ==
  /\ \A j \in 1 .. k : <<ps[j].sector, ps[j].offset>> \in Live
  /\ \A i, j \in 1 .. k : i < j => Before(oldest, ps[i], ps[j])
  /\ \A x \in Live : \/ \E j \in 1 .. k : ps[j] = At(x[1], x[2])
                     \/ \A j \in 1 .. k : Before(oldest, ps[j], At(x[1], x[2]))

\* While fewer records were taken than are counted, the walk sees the others and only those.
LEMMA WalkGoesOn ==
  ASSUME LogInv, ready, NEW n \in Nat, NEW ps \in [1 .. n -> Position],
         \A j \in 1 .. n : ps[j].offset \in Slot,
         NEW k \in 0 .. n, k < pendingCount, Taken(ps, k),
         NEW c, c = CursorAfter(ps, k)
  PROVE  /\ c \in Position /\ Dist(oldest.sector, c.sector) <= Dist(oldest.sector, activeSector)
         /\ \A p \in Position : p \in Visible(c) <=>
              <<p.sector, p.offset>> \in Live /\ \A j \in 1 .. k : Before(oldest, ps[j], p)
         /\ Visible(c) # {}
<1>1. PICK x \in Live : \A j \in 1 .. k : ps[j] # At(x[1], x[2])
  <2> DEFINE S == {<<ps[j].sector, ps[j].offset>> : j \in 1 .. k}
             f == [j \in 1 .. k |-> <<ps[j].sector, ps[j].offset>>]
  <2>1. f \in Surjection(1 .. k, S)
    BY DEF Surjection
  <2>2. IsFiniteSet(1 .. k) /\ Cardinality(1 .. k) = k
    BY FS_Interval
  <2> HIDE DEF f
  <2>3. IsFiniteSet(S) /\ Cardinality(S) <= k
    BY <2>1, <2>2, FS_Surjection
  <2>4. Cardinality(S) \in Nat /\ pendingCount = Cardinality(Live) /\ pendingCount \in Nat
    BY <2>3, FS_CardinalityType DEF LogInv, CountsOK, RamTypeOK
  <2>5. ~ (Live \subseteq S)
    <3> HIDE DEF S
    <3>1. Live \subseteq S => Cardinality(Live) <= Cardinality(S)
      BY <2>3, FS_Subset
    <3> QED BY <2>3, <2>4, <3>1
  <2>6. PICK x \in Live : x \notin S
    BY <2>5
  <2>7. ASSUME NEW j \in 1 .. k, ps[j] = At(x[1], x[2]) PROVE FALSE
    <3>1. x = <<x[1], x[2]>> /\ ps[j].sector = x[1] /\ ps[j].offset = x[2]
      BY <2>7, LiveIs DEF At
    <3> QED BY <2>6, <3>1
  <2> QED BY <2>6, <2>7
<1>2. \A j \in 1 .. k : Before(oldest, ps[j], At(x[1], x[2]))
  BY <1>1 DEF Taken
<1>3. /\ oldest \in Position /\ oldest.sector \in Sector /\ activeSector \in Sector
      /\ pendingCount > 0
  BY DEF LogInv, RamTypeOK, Position
<1>4. \A y \in Live : At(y[1], y[2]) \in Position /\ y = <<y[1], y[2]>>
                      /\ At(y[1], y[2]).sector = y[1] /\ At(y[1], y[2]).offset = y[2]
  BY LiveIs, SectorIs DEF Live, At, Position, Slot, Offset
<1>5. /\ c \in Position /\ Dist(oldest.sector, c.sector) <= Dist(oldest.sector, activeSector)
      /\ \A y \in Live : AtOrAfter(c, y) <=> \A j \in 1 .. k : Before(oldest, ps[j], At(y[1], y[2]))
  <2>1. CASE k = 0
    <3>1. c = oldest
      BY <2>1 DEF CursorAfter
    <3>2. \A s \in Sector : Dist(oldest.sector, s) \in Nat
      BY <1>3, DistIs, SectorIs
    <3>3. Dist(oldest.sector, oldest.sector) = 0
      BY <1>3, DistIs
    <3>4. \A y \in Live : AtOrAfter(c, y)
      <4>1. \A y \in Live : y[1] \in Sector /\ (y[1] = oldest.sector => oldest.offset <= y[2])
        BY LiveIs DEF LogInv, WalkOK
      <4> QED BY <3>1, <3>2, <3>3, <4>1 DEF AtOrAfter
    <3> QED BY <1>3, <2>1, <3>1, <3>2, <3>3, <3>4
  <2>2. CASE k # 0
    <3>1. PICK p \in Position : p = ps[k] /\ p.offset \in Slot
      BY <2>2
    <3>2. c = After(p)
      BY <2>2, <3>1 DEF CursorAfter
    <3>3. Dist(oldest.sector, p.sector) <= Dist(oldest.sector, activeSector)
      <4>1. <<p.sector, p.offset>> \in Live
        BY <2>2, <3>1 DEF Taken
      <4>2. OnWalk(<<p.sector, p.offset>>[1])
        BY <4>1 DEF LogInv, WalkOK
      <4> QED BY <4>2 DEF OnWalk
    <3>4. Before(oldest, p, At(x[1], x[2]))
      BY <1>2, <2>2, <3>1
    <3>5. /\ After(p) \in Position
          /\ Dist(oldest.sector, After(p).sector) <= Dist(oldest.sector, activeSector)
          /\ \A y \in Live : Before(oldest, p, At(y[1], y[2])) <=> AtOrAfter(After(p), y)
      BY <3>1, <3>3, <3>4, AfterIs
    <3>6. ASSUME NEW y \in Live, Before(oldest, p, At(y[1], y[2])), NEW j \in 1 .. k
          PROVE  Before(oldest, ps[j], At(y[1], y[2]))
      <4>1. j = k \/ Before(oldest, ps[j], p)
        BY <2>2, <3>1 DEF Taken
      <4> QED BY <1>3, <1>4, <3>1, <3>6, <4>1, BeforeIs
    <3> QED BY <2>2, <3>1, <3>2, <3>5, <3>6
  <2> QED BY <2>1, <2>2
<1>6. ASSUME NEW p \in Position
      PROVE  p \in Visible(c) <=>
               <<p.sector, p.offset>> \in Live /\ \A j \in 1 .. k : Before(oldest, ps[j], p)
  <2>1. p \in Visible(c) <=> <<p.sector, p.offset>> \in Live /\ AtOrAfter(c, <<p.sector, p.offset>>)
    BY <1>3, <1>5, VisibleIs
  <2>2. At(<<p.sector, p.offset>>[1], <<p.sector, p.offset>>[2]) = p
    BY DEF At, Position
  <2> QED BY <1>5, <2>1, <2>2
<1>7. Visible(c) # {}
  <2>1. <<At(x[1], x[2]).sector, At(x[1], x[2]).offset>> \in Live
    BY <1>4
  <2> QED BY <1>2, <1>4, <1>6, <2>1
<1> QED BY <1>5, <1>6, <1>7

LEMMA TakesNext ==
  ASSUME LogInv, ready, NEW n \in Nat, n <= pendingCount, NEW ps \in [1 .. n -> Position],
         \A j \in 1 .. n : ps[j].offset \in Slot,
         \A j \in 1 .. n : IsNext(CursorAfter(ps, j - 1), ps[j]),
         NEW k \in Nat, k < n, Taken(ps, k)
  PROVE  Taken(ps, k + 1)
<1>1. PICK c : c = CursorAfter(ps, k)
  OBVIOUS
<1>2. pendingCount \in Nat /\ k < pendingCount /\ k \in 0 .. n /\ k + 1 \in 1 .. n /\ (k + 1) - 1 = k
  BY DEF LogInv, RamTypeOK
<1>3. /\ c \in Position /\ Dist(oldest.sector, c.sector) <= Dist(oldest.sector, activeSector)
      /\ \A p \in Position : p \in Visible(c) <=>
           <<p.sector, p.offset>> \in Live /\ \A j \in 1 .. k : Before(oldest, ps[j], p)
  BY <1>1, <1>2, WalkGoesOn
<1>4. PICK t \in Position : t = ps[k + 1]
  BY <1>2
<1>5. t \in Visible(c) /\ \A q \in Visible(c) \ {t} : Before(c, t, q)
  <2>1. IsNext(CursorAfter(ps, (k + 1) - 1), ps[k + 1])
    BY <1>2
  <2> QED BY <1>1, <1>2, <1>4, <2>1 DEF IsNext
<1>6. <<t.sector, t.offset>> \in Live /\ \A j \in 1 .. k : Before(oldest, ps[j], t)
  BY <1>3, <1>5
<1>7. \A j \in 1 .. k + 1 : j \in 1 .. k \/ j = k + 1
  OBVIOUS
<1>8. \A j \in 1 .. k + 1 : <<ps[j].sector, ps[j].offset>> \in Live
  BY <1>4, <1>6, <1>7 DEF Taken
<1>9. ASSUME NEW i \in 1 .. k + 1, NEW j \in 1 .. k + 1, i < j
      PROVE  Before(oldest, ps[i], ps[j])
  <2>1. CASE j = k + 1
    BY <1>4, <1>6, <1>7, <1>9, <2>1
  <2>2. CASE j # k + 1
    <3>1. i \in 1 .. k /\ j \in 1 .. k
      BY <1>9, <2>2
    <3> QED BY <1>9, <3>1 DEF Taken
  <2> QED BY <2>1, <2>2
<1>10. ASSUME NEW x \in Live
       PROVE  \/ \E j \in 1 .. k + 1 : ps[j] = At(x[1], x[2])
              \/ \A j \in 1 .. k + 1 : Before(oldest, ps[j], At(x[1], x[2]))
  <2>1. PICK q \in Position : q = At(x[1], x[2]) /\ <<q.sector, q.offset>> = x
    <3>1. x \in Sector \X Slot
      BY LiveIs
    <3>2. x[1] \in Sector /\ x[2] \in Offset /\ x = <<x[1], x[2]>>
      <4>1. Slot \subseteq Offset
        BY SectorIs DEF Slot, Offset
      <4>2. x[1] \in Sector /\ x[2] \in Slot /\ x = <<x[1], x[2]>>
        BY <3>1
      <4> QED BY <4>1, <4>2
    <3>3. At(x[1], x[2]) \in Position
      BY <3>2 DEF At, Position
    <3>4. At(x[1], x[2]).sector = x[1] /\ At(x[1], x[2]).offset = x[2]
      BY DEF At
    <3> QED BY <3>2, <3>3, <3>4
  <2>2. CASE \E j \in 1 .. k : ps[j] = q
    BY <2>1, <2>2
  <2>3. CASE q = t
    BY <1>2, <1>4, <2>1, <2>3
  <2>4. CASE q # t /\ \A j \in 1 .. k : Before(oldest, ps[j], q)
    <3>1. q \in Visible(c)
      BY <1>3, <2>1, <2>4
    <3>2. Before(c, t, q)
      BY <1>5, <2>4, <3>1
    <3>3. PICK w \in Sector, z \in Sector : w = oldest.sector /\ z = activeSector
      BY DEF LogInv, RamTypeOK, Position
    <3>4. /\ c.sector \in Sector /\ t.sector \in Sector /\ q.sector \in Sector
      BY <1>3 DEF Position
    <3>5. Dist(w, c.sector) <= Dist(w, z)
      BY <1>3, <3>3
    <3>6. \A p \in Visible(c) : Dist(c.sector, p.sector) <= Dist(c.sector, z)
      BY <3>3 DEF Visible
    <3>7. /\ Dist(c.sector, t.sector) = Dist(w, t.sector) - Dist(w, c.sector)
          /\ Dist(c.sector, q.sector) = Dist(w, q.sector) - Dist(w, c.sector)
      BY <1>5, <3>1, <3>4, <3>5, <3>6, RestOfWalk
    <3>8. Dist(w, t.sector) \in Nat /\ Dist(w, q.sector) \in Nat /\ Dist(w, c.sector) \in Nat
      <4>1. \A s \in Sector : Dist(w, s) \in Nat
        BY DistIs, SectorIs
      <4> QED BY <3>4, <4>1
    <3>9. Before(oldest, t, q)
      BY <3>2, <3>3, <3>7, <3>8 DEF Before
    <3> QED BY <1>4, <1>7, <2>1, <2>4, <3>9
  <2> QED BY <2>1, <2>2, <2>3, <2>4 DEF Taken
<1> QED BY <1>8, <1>9, <1>10 DEF Taken

LEMMA TakesAll ==
  ASSUME LogInv, ready, NEW n \in Nat, n <= pendingCount, NEW ps \in [1 .. n -> Position],
         \A j \in 1 .. n : ps[j].offset \in Slot,
         \A j \in 1 .. n : IsNext(CursorAfter(ps, j - 1), ps[j])
  PROVE  Taken(ps, n)
<1> DEFINE B == {k \in 0 .. n : ~ Taken(ps, k)}
<1>1. Taken(ps, 0)
  BY DEF Taken
<1>2. SUFFICES ASSUME B # {} PROVE FALSE
  OBVIOUS
<1>3. PICK m \in B : \A k \in B : m <= k
  <2>1. B \in SUBSET Nat
    OBVIOUS
  <2> HIDE DEF B
  <2> QED BY <1>2, <2>1, Least
<1>4. m \in 0 .. n /\ ~ Taken(ps, m) /\ m # 0
  BY <1>1
<1>5. PICK k \in Nat : m = k + 1 /\ k < n
  BY <1>4
<1>6. Taken(ps, k)
  <2>1. k \notin B
    BY <1>3, <1>5
  <2> QED BY <1>5, <2>1
<1> QED BY <1>4, <1>5, <1>6, TakesNext

\* The batch a peek takes: as many records as it may, the first counted ones of the walk.
LEMMA PeekPendingIs ==
  ASSUME LogInv, PeekPending
  PROVE  /\ ready /\ ready' = ready
         /\ UNCHANGED <<flash, nextGeneration, activeSector, writeOffset, activeSectorClosed, oldest,
                        pendingCount, undrainedInSector, nextId, evicted>>
         /\ PeekLimit \in Nat
         /\ \E at \in [1 .. PeekLimit -> Position] :
              /\ \A j \in 1 .. PeekLimit : at[j].offset \in Slot /\ at[j].sector \in Sector
              /\ at \in Seq(Position) /\ Len(at) = PeekLimit
              /\ Taken(at, PeekLimit)
              /\ peeked' = at /\ peekEnd' = CursorAfter(at, PeekLimit)
              /\ batch' = [i \in 1 .. PeekLimit |-> slot[at[i].sector][at[i].offset].id]
<1>1. /\ ready /\ ready' = ready
      /\ UNCHANGED <<flash, nextGeneration, activeSector, writeOffset, activeSectorClosed, oldest,
                     pendingCount, undrainedInSector, nextId, evicted>>
  BY DEF PeekPending
<1>2. PICK n \in 0 .. PeekLimit : \E ps \in [1 .. n -> Sector \X Slot] :
       LET at == [i \in 1 .. n |-> At(ps[i][1], ps[i][2])]
           cursor == CursorAfter(at, n)
       IN /\ IsPeek(at)
          /\ peeked' = at
          /\ peekEnd' = IF n = PeekLimit THEN cursor ELSE Frontier(cursor)
          /\ batch' = [i \in 1 .. n |-> slot[at[i].sector][at[i].offset].id]
  BY DEF PeekPending
<1>3. PICK ps \in [1 .. n -> Sector \X Slot] :
       LET at == [i \in 1 .. n |-> At(ps[i][1], ps[i][2])]
           cursor == CursorAfter(at, n)
       IN /\ IsPeek(at)
          /\ peeked' = at
          /\ peekEnd' = IF n = PeekLimit THEN cursor ELSE Frontier(cursor)
          /\ batch' = [i \in 1 .. n |-> slot[at[i].sector][at[i].offset].id]
  BY <1>2
<1>4. PICK at : at = [i \in 1 .. n |-> At(ps[i][1], ps[i][2])]
  OBVIOUS
<1>5. /\ IsPeek(at) /\ peeked' = at
      /\ peekEnd' = IF n = PeekLimit THEN CursorAfter(at, n) ELSE Frontier(CursorAfter(at, n))
      /\ batch' = [i \in 1 .. n |-> slot[at[i].sector][at[i].offset].id]
  BY <1>3, <1>4
<1>6. /\ PeekLimit \in Nat /\ PeekLimit <= pendingCount /\ pendingCount \in Nat /\ n \in Nat
  BY LogAssumption DEF PeekLimit, LogInv, RamTypeOK
<1>7. at \in [1 .. n -> Position] /\ \A j \in 1 .. n : at[j].offset \in Slot /\ at[j].sector \in Sector
  BY <1>4, SectorIs DEF At, Position, Slot, Offset
<1>8. at \in Seq(Position) /\ Len(at) = n
  BY <1>6, <1>7
<1>9. \A j \in 1 .. n : IsNext(CursorAfter(at, j - 1), at[j])
  BY <1>5, <1>8 DEF IsPeek
<1>10. Taken(at, n)
  <2>1. n <= pendingCount
    BY <1>6
  <2> QED BY <1>1, <1>6, <1>7, <1>9, <2>1, TakesAll
<1>11. n = PeekLimit
  <2> SUFFICES ASSUME n < PeekLimit PROVE FALSE
    BY <1>6
  <2>1. n < pendingCount /\ n \in 0 .. n
    BY <1>6
  <2>2. PICK c : c = CursorAfter(at, n)
    OBVIOUS
  <2>3. Visible(c) # {}
    BY <1>1, <1>6, <1>7, <1>10, <2>1, <2>2, WalkGoesOn
  <2>4. Visible(c) = {}
    BY <1>5, <1>8, <2>2 DEF IsPeek
  <2> QED BY <2>3, <2>4
<1> QED BY <1>1, <1>5, <1>6, <1>7, <1>8, <1>10, <1>11

LEMMA PeekPendingKeeps ==
  ASSUME LogInv, PeekPending
  PROVE  LogInv'
<1>1. /\ ready /\ ready' = ready
      /\ UNCHANGED <<flash, nextGeneration, activeSector, writeOffset, activeSectorClosed, oldest,
                     pendingCount, undrainedInSector, nextId, evicted>>
  BY PeekPendingIs
<1>2. PICK n \in Nat : n = PeekLimit
  BY PeekPendingIs
<1>5. PICK at \in [1 .. n -> Position] :
        /\ \A j \in 1 .. n : at[j].offset \in Slot /\ at[j].sector \in Sector
        /\ at \in Seq(Position) /\ Len(at) = n
        /\ Taken(at, n)
        /\ peeked' = at /\ peekEnd' = CursorAfter(at, n)
        /\ batch' = [i \in 1 .. n |-> slot[at[i].sector][at[i].offset].id]
  BY <1>2, PeekPendingIs
<1>6. pendingCount \in Nat /\ n \in Nat
  BY DEF LogInv, RamTypeOK
<1>7. at \in [1 .. n -> Position] /\ \A j \in 1 .. n : at[j].offset \in Slot /\ at[j].sector \in Sector
  BY <1>5
<1>8. at \in Seq(Position) /\ Len(at) = n
  BY <1>5
<1>10. Taken(at, n)
  BY <1>5
<1>12. n > 0 => peekEnd' = After(at[n])
  BY <1>5, <1>6 DEF CursorAfter
<1>13. peekEnd' = peekEnd' /\ batch' \in Seq(Nat) /\ Len(batch') = n
  <2>1. \A i \in 1 .. n : slot[at[i].sector][at[i].offset].id \in Nat
    BY <1>7 DEF LogInv, FlashTypeOK, Cell
  <2> QED BY <1>5, <1>6, <2>1
<1>14. head' = head /\ gen' = gen /\ slot' = slot
  BY <1>1 DEF flash
<1>15. Live' = Live /\ \A s : (Exact(s)' <=> Exact(s)) /\ UndrainedIdsIn(s)' = UndrainedIdsIn(s)
  BY <1>1, <1>14 DEF Live, Exact, Und, UndrainedIdsIn, IsUndrained, IsRecord
<1>16. PeekOK'
  <2>1. ASSUME NEW i \in 1 .. n
        PROVE  /\ <<at[i].sector, at[i].offset>> \in Live
               /\ batch'[i] = slot[at[i].sector][at[i].offset].id
               /\ \A j \in 1 .. n : i < j => Before(oldest, at[i], at[j])
               /\ \A x \in Live : \/ \E j \in 1 .. n : at[j] = At(x[1], x[2])
                                  \/ Before(oldest, at[i], At(x[1], x[2]))
    BY <1>5, <1>10 DEF Taken
  <2> QED BY <1>1, <1>5, <1>8, <1>12, <1>13, <1>14, <1>15, <2>1 DEF PeekOK
<1>17. RamTypeOK'
  BY <1>1, <1>5, <1>8, <1>13 DEF LogInv, RamTypeOK
<1>18. CountsOK' /\ WalkOK' /\ ActiveOK'
  <2>1. \A s : (GivenUp(s)' <=> GivenUp(s)) /\ (OnWalk(s)' <=> OnWalk(s))
    BY <1>1, <1>14, <1>15 DEF GivenUp, OnWalk
  <2>2. CountsOK'
    BY <1>1, <1>14, <1>15, <2>1 DEF LogInv, CountsOK
  <2>3. WalkOK'
    BY <1>1, <1>14, <1>15, <2>1 DEF LogInv, WalkOK
  <2>4. ActiveOK'
    BY <1>1, <1>14, <1>15, <2>1 DEF LogInv, ActiveOK, IsRecord
  <2> QED BY <2>2, <2>3, <2>4
<1>19. FlashTypeOK' /\ RecordsInOrder' /\ IdsInOrder' /\ RingOK'
  <2>1. FlashTypeOK'
    BY <1>14 DEF LogInv, FlashTypeOK
  <2>2. RecordsInOrder' /\ IdsInOrder'
    BY <1>1, <1>14 DEF LogInv, RecordsInOrder, IdsInOrder, IsRecord, Precedes
  <2>3. Occupied' = Occupied /\ \A s, t : (IsArc(s, t)' <=> IsArc(s, t)) /\ (Tidy(t)' <=> Tidy(t))
    BY <1>14 DEF IsArc, Tidy, Occupied
  <2>4. RingOK'
    BY <1>1, <1>14, <2>3 DEF LogInv, RingOK
  <2> QED BY <2>1, <2>2, <2>4
<1> QED BY <1>1, <1>16, <1>17, <1>18, <1>19 DEF LogInv


-----------------------------------------------------------------------------
(* wardriving_log_init.                                                     *)

\* Erasing sectors with a torn header changes no record: they hold none.
LEMMA BootErases ==
  ASSUME LogInv, NEW T \in SUBSET {s \in Sector : head[s] = "torn"}, gen' = gen, nextId' = nextId,
         head' = [s \in Sector |-> IF s \in T THEN "blank" ELSE head[s]],
         slot' = [s \in Sector |-> IF s \in T THEN BlankSector ELSE slot[s]]
  PROVE  /\ FlashTypeOK' /\ RecordsInOrder' /\ IdsInOrder' /\ Occupied' = Occupied
         /\ \A s \in Occupied : slot'[s] = slot[s]
         /\ \A s \in Sector : Und(s)' = Und(s)
         /\ \A s \in Sector, o \in Slot : IsRecord(s, o)' <=> IsRecord(s, o)
         /\ \A s \in Sector, o \in Slot : IsRecord(s, o) => slot'[s][o] = slot[s][o]
<1>1. /\ head \in [Sector -> {"blank", "torn", "valid"}] /\ gen \in [Sector -> Nat]
      /\ slot \in [Sector -> [Slot -> Cell]] /\ nextId \in Nat
  BY DEF LogInv, FlashTypeOK, RamTypeOK
<1>2. BlankSector \in [Slot -> Cell] /\ \A o \in Slot : BlankSector[o].body = "blank"
  BY DEF BlankSector, BlankCell, Cell
<1>3. FlashTypeOK'
  <2>1. head' \in [Sector -> {"blank", "torn", "valid"}]
    BY <1>1
  <2>2. slot' \in [Sector -> [Slot -> Cell]]
    BY <1>1, <1>2
  <2> QED BY <1>1, <2>1, <2>2 DEF FlashTypeOK
<1>4. Occupied' = Occupied /\ \A s \in Occupied : slot'[s] = slot[s]
  BY DEF Occupied
<1>5. \A s \in Sector, o \in Slot : IsRecord(s, o) => s \in Occupied
  BY DEF LogInv, RecordsInOrder, Occupied
<1>6. \A s \in Sector, o \in Slot : IsRecord(s, o)' <=> IsRecord(s, o)
  <2> SUFFICES ASSUME NEW s \in Sector, NEW o \in Slot PROVE IsRecord(s, o)' <=> IsRecord(s, o)
    OBVIOUS
  <2>1. CASE s \in T
    <3>1. ~ IsRecord(s, o)
      BY <1>5, <2>1 DEF Occupied
    <3>2. slot'[s][o].body = "blank"
      BY <1>2, <2>1
    <3> QED BY <3>1, <3>2 DEF IsRecord
  <2>2. CASE s \notin T
    BY <2>2 DEF IsRecord
  <2> QED BY <2>1, <2>2
<1>7. \A s \in Sector, o \in Slot : IsRecord(s, o) => slot'[s][o] = slot[s][o]
  BY <1>4, <1>5
<1>8. \A s \in Sector : Und(s)' = Und(s)
  BY <1>6, <1>7 DEF Und, IsUndrained
<1>9. RecordsInOrder'
  <2> SUFFICES ASSUME NEW s \in Sector, NEW o \in Slot, IsRecord(s, o)'
               PROVE  head'[s] = "valid" /\ \A i \in 0 .. o : IsRecord(s, i)'
    BY DEF RecordsInOrder
  <2>1. 0 .. o \subseteq Slot
    BY SectorIs DEF Slot
  <2>2. head[s] = "valid" /\ \A i \in 0 .. o : IsRecord(s, i)
    BY <1>6 DEF LogInv, RecordsInOrder
  <2> QED BY <1>6, <2>1, <2>2
<1>10. IdsInOrder'
  <2> SUFFICES ASSUME NEW s \in Sector, NEW t \in Sector, NEW i \in Slot, NEW j \in Slot
               PROVE  /\ IsRecord(s, i)' => slot'[s][i].id < nextId'
                      /\ IsRecord(s, i)' /\ IsRecord(t, j)' /\ Precedes(s, i, t, j)'
                           => slot'[s][i].id < slot'[t][j].id
    BY DEF IdsInOrder
  <2>1. /\ IsRecord(s, i) => slot[s][i].id < nextId
        /\ IsRecord(s, i) /\ IsRecord(t, j) /\ Precedes(s, i, t, j) => slot[s][i].id < slot[t][j].id
    BY DEF LogInv, IdsInOrder
  <2>2. Precedes(s, i, t, j)' <=> Precedes(s, i, t, j)
    BY DEF Precedes
  <2> QED BY <1>6, <1>7, <2>1, <2>2
<1> QED BY <1>3, <1>4, <1>6, <1>7, <1>8, <1>9, <1>10

\* No sector is occupied: there is no record either.
LEMMA EmptyRing ==
  ASSUME LogInv, Occupied = {}
  PROVE  \A s \in Sector, o \in Slot : ~ IsRecord(s, o)
BY DEF LogInv, RecordsInOrder, Occupied

\* The boot of an empty log, up to the header of its first sector.
LEMMA BootFormats ==
  ASSUME LogInv, Occupied = {}, NEW h \in {"torn", "valid"}, NEW g \in Nat, nextId' = nextId,
         head' = [HeadAtBoot EXCEPT ![0] = h], gen' = [gen EXCEPT ![0] = g],
         slot' = [SlotAtBoot EXCEPT ![0] = BlankSector]
  PROVE  /\ FlashTypeOK' /\ \A s \in Sector, o \in Slot : ~ IsRecord(s, o)'
         /\ Occupied' = IF h = "valid" THEN {0} ELSE {}
         /\ 0 \in Sector /\ \A o \in Slot : slot'[0][o] = BlankCell
         /\ RecordsInOrder' /\ IdsInOrder' /\ \A s \in Sector : Und(s)' = {}
         /\ gen'[0] = g
<1>1. /\ head \in [Sector -> {"blank", "torn", "valid"}] /\ gen \in [Sector -> Nat]
      /\ slot \in [Sector -> [Slot -> Cell]]
  BY DEF LogInv, FlashTypeOK
<1>2. BlankSector \in [Slot -> Cell] /\ \A o \in Slot : BlankSector[o].body = "blank"
  BY DEF BlankSector, BlankCell, Cell
<1>3. 0 \in Sector
  BY SectorIs DEF Sector
<1>4. HeadAtBoot \in [Sector -> {"blank", "torn", "valid"}] /\ \A s \in Sector : HeadAtBoot[s] # "valid"
  BY <1>1 DEF HeadAtBoot, Occupied
<1>5. SlotAtBoot \in [Sector -> [Slot -> Cell]] /\ \A s \in Sector, o \in Slot : SlotAtBoot[s][o].body # "record"
  <2>1. \A s \in Sector, o \in Slot : slot[s][o].body # "record"
    BY EmptyRing DEF IsRecord
  <2>2. SlotAtBoot \in [Sector -> [Slot -> Cell]]
    BY <1>1, <1>2 DEF SlotAtBoot
  <2>3. \A s \in Sector : SlotAtBoot[s] = IF head[s] = "torn" THEN BlankSector ELSE slot[s]
    BY DEF SlotAtBoot
  <2> QED BY <1>2, <2>1, <2>2, <2>3
<1>6. FlashTypeOK'
  <2>1. head' \in [Sector -> {"blank", "torn", "valid"}]
    BY <1>4
  <2>2. slot' \in [Sector -> [Slot -> Cell]]
    BY <1>2, <1>5
  <2>3. gen' \in [Sector -> Nat]
    BY <1>1
  <2> QED BY <2>1, <2>2, <2>3 DEF FlashTypeOK
<1>7. \A s \in Sector, o \in Slot : ~ IsRecord(s, o)'
  <2>1. \A s \in Sector : slot'[s] = IF s = 0 THEN BlankSector ELSE SlotAtBoot[s]
    BY <1>5
  <2>2. \A s \in Sector, o \in Slot : slot'[s][o].body # "record"
    BY <1>2, <1>5, <2>1
  <2> QED BY <2>2 DEF IsRecord
<1>8. Occupied' = IF h = "valid" THEN {0} ELSE {}
  <2>1. \A s \in Sector : head'[s] = IF s = 0 THEN h ELSE HeadAtBoot[s]
    BY <1>4
  <2> QED BY <1>3, <1>4, <2>1 DEF Occupied
<1>9. \A o \in Slot : slot'[0][o] = BlankCell
  <2>1. slot'[0] = BlankSector
    BY <1>3, <1>5
  <2> QED BY <2>1 DEF BlankSector
<1>10. RecordsInOrder' /\ IdsInOrder'
  BY <1>7 DEF RecordsInOrder, IdsInOrder
<1>11. \A s \in Sector : Und(s)' = {}
  BY <1>7 DEF Und, IsUndrained
<1>12. gen'[0] = g
  BY <1>1, <1>3
<1> QED BY <1>3, <1>6, <1>7, <1>8, <1>9, <1>10, <1>11, <1>12

LEMMA BootCutKeeps ==
  ASSUME LogInv, Premises, BootCut
  PROVE  LogInv'
<1>1. ~ ready /\ gen' = gen /\ UNCHANGED ram /\ UNCHANGED hist
  BY PremisesGive DEF BootCut
<1>2. RamTypeOK' /\ ~ ready' /\ Reset' /\ peeked' = << >> /\ batch' = << >> /\ nextId' = nextId
  BY <1>1 DEF ram, hist, LogInv, RamTypeOK, Reset
<1>3. FlashTypeOK' /\ RecordsInOrder' /\ IdsInOrder' /\ RingOK'
  <2>1. CASE \E T \in SUBSET {s \in Sector : head[s] = "torn"} :
               /\ head' = [s \in Sector |-> IF s \in T THEN "blank" ELSE head[s]]
               /\ slot' = [s \in Sector |-> IF s \in T THEN BlankSector ELSE slot[s]]
    <3>1. PICK T \in SUBSET {s \in Sector : head[s] = "torn"} :
               /\ head' = [s \in Sector |-> IF s \in T THEN "blank" ELSE head[s]]
               /\ slot' = [s \in Sector |-> IF s \in T THEN BlankSector ELSE slot[s]]
      BY <2>1
    <3>2. /\ FlashTypeOK' /\ RecordsInOrder' /\ IdsInOrder' /\ Occupied' = Occupied
          /\ \A s \in Occupied : slot'[s] = slot[s]
      BY <1>1, <1>2, <3>1, BootErases
    <3>3. \A a, z \in Sector : IsArc(a, z) => IsArc(a, z)' /\ z \in Occupied
      BY <1>1, <3>2, DistIs, SectorIs DEF IsArc
    <3>4. \A z \in Occupied : Tidy(z) => Tidy(z)'
      BY <3>2 DEF Tidy
    <3>5. RingOK'
      BY <1>1, <1>2, <3>2, <3>3, <3>4 DEF LogInv, RingOK
    <3> QED BY <3>2, <3>5
  <2>2. CASE /\ Occupied = {}
             /\ head' = [HeadAtBoot EXCEPT ![0] = "torn"]
             /\ slot' = [SlotAtBoot EXCEPT ![0] = BlankSector]
    <3>1. PICK h \in {"torn", "valid"}, g \in Nat : h = "torn" /\ g = gen[0]
      BY SectorIs DEF LogInv, FlashTypeOK, Sector
    <3>2. gen' = [gen EXCEPT ![0] = g]
      BY <1>1, <3>1, SectorIs DEF LogInv, FlashTypeOK, Sector
    <3>3. FlashTypeOK' /\ RecordsInOrder' /\ IdsInOrder' /\ Occupied' = {}
      BY <1>2, <2>2, <3>1, <3>2, BootFormats
    <3> QED BY <1>2, <3>3 DEF RingOK
  <2> QED BY <2>1, <2>2, PremisesGive DEF BootCut
<1> QED BY <1>2, <1>3 DEF LogInv

LEMMA BootFreshKeeps ==
  ASSUME LogInv, Premises, BootFresh
  PROVE  LogInv'
<1>1. PICK h \in {"torn", "valid"}, g \in Nat : h = "valid" /\ g = 1
  OBVIOUS
<1>2. /\ FlashTypeOK' /\ \A s \in Sector, o \in Slot : ~ IsRecord(s, o)'
      /\ Occupied' = {0} /\ 0 \in Sector /\ \A o \in Slot : slot'[0][o] = BlankCell
      /\ RecordsInOrder' /\ IdsInOrder' /\ \A s \in Sector : Und(s)' = {}
      /\ gen'[0] = 1
  BY <1>1, BootFormats DEF BootFresh, hist
<1>3. /\ ready' /\ nextId' = nextId /\ activeSector' = 0 /\ writeOffset' = 0 /\ ~ activeSectorClosed'
      /\ oldest' = At(0, 0) /\ pendingCount' = 0 /\ undrainedInSector' = [s \in Sector |-> 0]
      /\ peeked' = << >> /\ batch' = << >> /\ nextId \in 1 .. MaxAppends + 1
      /\ activeSectorClosed' \in BOOLEAN /\ ready' \in BOOLEAN
  BY DEF BootFresh, hist, LogInv, Reset, RamTypeOK
<1>4. nextGeneration' = 2
  <2>1. GenMod \in Nat /\ GenMod > 2
    BY LogAssumption DEF Premises
  <2> QED BY <2>1 DEF BootFresh
<1>5. RamTypeOK'
  <2>1. 0 \in Offset /\ At(0, 0) \in Position
    BY <1>2, SectorIs DEF Offset, At, Position
  <2>2. peeked' \in Seq(Position) /\ batch' \in Seq(Nat)
    BY <1>3
  <2>3. undrainedInSector' \in [Sector -> Nat]
    BY <1>3
  <2> QED BY <1>2, <1>3, <1>4, <2>1, <2>2, <2>3 DEF RamTypeOK
<1>6. RingOK'
  <2>1. IsArc(0, 0)'
    <3>1. \A s \in Sector : Dist(0, s) <= Dist(0, 0) <=> s = 0
      BY <1>2, DistIs, SectorIs
    <3>2. Occupied' = {s \in Sector : Dist(0, s) <= Dist(0, 0)}
      BY <1>2, <3>1
    <3>3. \A s, t \in Occupied' : Dist(0, s) = Dist(0, t)
      BY <1>2
    <3>4. ~ (Dist(0, 0) < Dist(0, 0))
      BY <1>2, DistIs, SectorIs
    <3> QED BY <1>2, <3>2, <3>4 DEF IsArc
  <2>2. Tidy(0)'
    <3>1. \A o \in Slot : o .. SlotsPerSector - 1 \subseteq Slot
      BY SectorIs DEF Slot
    <3> QED BY <1>2, <3>1 DEF Tidy
  <2>3. 1 <= nextId /\ 2 <= nextId + 1
    BY <1>3
  <2> QED BY <1>2, <1>3, <1>4, <2>1, <2>2, <2>3 DEF RingOK
<1>7. ActiveOK'
  <2>1. \A o \in Slot : ~ (o < 0)
    BY SectorIs DEF Slot
  <2> QED BY <1>2, <1>3, <2>1 DEF ActiveOK
<1>8. Live' = {}
  BY <1>2 DEF Live
<1>9. CountsOK' /\ WalkOK'
  <2>1. Cardinality({}) = 0
    BY FS_EmptySet
  <2>2. \A s \in Sector : Exact(s)'
    BY <1>2, <1>3, <2>1 DEF Exact
  <2> QED BY <1>3, <1>8, <2>1, <2>2 DEF CountsOK, WalkOK
<1>10. PeekOK'
  BY <1>3 DEF PeekOK
<1> QED BY <1>2, <1>3, <1>5, <1>6, <1>7, <1>9, <1>10 DEF LogInv


\* The sectors of an arc are the occupied ones: the newest is its last, the oldest its first, and
\* the walk of the boot passes them all.
LEMMA ArcIs ==
  ASSUME LogInv, NEW a \in Sector, NEW z \in Sector, IsArc(a, z)
  PROVE  /\ a \in Occupied /\ z \in Occupied /\ \A s \in Occupied : gen[s] <= gen[z]
         /\ Newest = z /\ OldestOccupied = a /\ Walked = Occupied
<1>1. /\ Occupied = {s \in Sector : Dist(a, s) <= Dist(a, z)}
      /\ \A s, t \in Occupied : Dist(a, s) < Dist(a, t) => gen[s] < gen[t]
  BY DEF IsArc
<1>2. \A s \in Sector : Dist(a, s) \in Nat /\ gen[s] \in Nat /\ Dist(a, s) < NumSectors
  BY DistIs, SectorIs DEF LogInv, FlashTypeOK
<1>3. Dist(a, a) = 0
  BY DistIs
<1>4. a \in Occupied /\ z \in Occupied
  BY <1>1, <1>2, <1>3
<1>5. \A s \in Occupied : s \in Sector
  BY DEF Occupied
<1>6. ASSUME NEW t \in Occupied \ {z} PROVE gen[t] < gen[z]
  <2>1. Dist(a, t) # Dist(a, z)
    BY <1>5, DistIs
  <2> QED BY <1>1, <1>2, <1>4, <1>5, <2>1
<1>7. ASSUME NEW t \in Occupied \ {a} PROVE gen[a] < gen[t]
  <2>1. Dist(a, t) # 0
    BY <1>5, DistIs
  <2> QED BY <1>1, <1>2, <1>3, <1>4, <1>5, <2>1
<1>8. Newest = z
  <2> DEFINE New(s) == \A t \in Occupied \ {s} : gen[t] < gen[s] \/ (gen[t] = gen[s] /\ s < t)
  <2>1. New(z)
    BY <1>6
  <2>2. ASSUME NEW s \in Occupied, New(s) PROVE s = z
    <3> SUFFICES ASSUME s # z PROVE FALSE
      OBVIOUS
    <3>1. gen[s] < gen[z] /\ gen[z] <= gen[s]
      BY <1>2, <1>4, <1>5, <1>6, <2>2
    <3> QED BY <1>2, <1>4, <1>5, <3>1
  <2>3. Newest = CHOOSE s \in Occupied : New(s)
    BY DEF Newest
  <2> HIDE DEF New
  <2> QED BY <1>4, <2>1, <2>2, <2>3
<1>9. OldestOccupied = a
  <2> DEFINE Old(s) == \A t \in Occupied \ {s} : gen[s] < gen[t] \/ (gen[t] = gen[s] /\ s < t)
  <2>1. Old(a)
    BY <1>7
  <2>2. ASSUME NEW s \in Occupied, Old(s) PROVE s = a
    <3> SUFFICES ASSUME s # a PROVE FALSE
      OBVIOUS
    <3>1. gen[a] < gen[s] /\ gen[s] <= gen[a]
      BY <1>2, <1>4, <1>5, <1>7, <2>2
    <3> QED BY <1>2, <1>4, <1>5, <3>1
  <2>3. OldestOccupied = CHOOSE s \in Occupied : Old(s)
    BY DEF OldestOccupied
  <2> HIDE DEF Old
  <2> QED BY <1>4, <2>1, <2>2, <2>3
<1>10. Cardinality(Occupied) = Dist(a, z) + 1
  <2> DEFINE f == [s \in Occupied |-> Dist(a, s)]
             D == 0 .. Dist(a, z)
  <2>1. f \in [Occupied -> D]
    BY <1>1, <1>2
  <2>2. ASSUME NEW k \in D PROVE \E s \in Occupied : f[s] = k
    <3>1. PICK s : s = IF a + k < NumSectors THEN a + k ELSE a + k - NumSectors
      OBVIOUS
    <3>2. k \in Nat /\ k < NumSectors
      <4>1. Dist(a, z) \in Nat /\ Dist(a, z) < NumSectors
        BY <1>2
      <4> QED BY <4>1, SectorIs
    <3>3. s \in Sector /\ Dist(a, s) = k
      BY <3>1, <3>2, SectorIs DEF Sector, Dist
    <3> QED BY <1>1, <1>2, <3>3
  <2>3. \A s, t \in Occupied : f[s] = f[t] => s = t
    BY <1>5, DistIs
  <2> HIDE DEF f
  <2>4. f \in Surjection(Occupied, D) /\ f \in Injection(Occupied, D)
    BY <2>1, <2>2, <2>3 DEF Injection, Surjection, IsInjective
  <2>5. IsFiniteSet(D) /\ Cardinality(D) = Dist(a, z) + 1
    <3>1. PICK d \in Nat : d = Dist(a, z)
      BY <1>2
    <3>2. IsFiniteSet(0 .. d) /\ Cardinality(0 .. d) = d + 1
      BY FS_Interval
    <3> QED BY <3>1, <3>2
  <2>6. IsFiniteSet(Occupied)
    <3>1. IsFiniteSet(Sector) /\ Occupied \subseteq Sector
      BY SectorIs, FS_Interval DEF Sector, Occupied
    <3> QED BY <3>1, FS_Subset
  <2> HIDE DEF D
  <2>7. Cardinality(D) = Cardinality(Occupied)
    BY <2>4, <2>6, FS_Surjection
  <2> QED BY <2>5, <2>7
<1>11. Walked = Occupied
  <2>1. Walked = {s \in Sector : Dist(a, s) < Dist(a, z) + 1}
    BY <1>9, <1>10 DEF Walked
  <2> QED BY <1>1, <1>2, <2>1
<1> QED BY <1>2, <1>4, <1>5, <1>6, <1>8, <1>9, <1>11

\* The first record of a set in the order of the walk from the head of sector a.
LEMMA FirstIs ==
  ASSUME NEW a \in Sector, NEW F \in SUBSET Position, F # {}
  PROVE  \E p \in F : \A q \in F \ {p} : Before(At(a, 0), p, q)
<1>1. \A p \in F : p.sector \in Sector /\ p.offset \in Nat /\ Dist(a, p.sector) \in Nat
  BY DistIs, SectorIs DEF Position, Offset
<1>2. PICK d \in {Dist(a, p.sector) : p \in F} : \A k \in {Dist(a, p.sector) : p \in F} : d <= k
  <2> DEFINE D == {Dist(a, p.sector) : p \in F}
  <2>1. D \in SUBSET Nat /\ D # {}
    BY <1>1
  <2> HIDE DEF D
  <2>2. \E d \in D : \A k \in D : d <= k
    BY <2>1, Least
  <2> QED BY <2>2 DEF D
<1>3. PICK o \in {p.offset : p \in {q \in F : Dist(a, q.sector) = d}} :
        \A k \in {p.offset : p \in {q \in F : Dist(a, q.sector) = d}} : o <= k
  <2> DEFINE E == {p.offset : p \in {q \in F : Dist(a, q.sector) = d}}
  <2>1. E \in SUBSET Nat /\ E # {}
    BY <1>1, <1>2
  <2> HIDE DEF E
  <2>2. \E o \in E : \A k \in E : o <= k
    BY <2>1, Least
  <2> QED BY <2>2 DEF E
<1>4. PICK p \in F : Dist(a, p.sector) = d /\ p.offset = o
  BY <1>3
<1>5. ASSUME NEW q \in F \ {p} PROVE Before(At(a, 0), p, q)
  <2>1. At(a, 0).sector = a
    BY DEF At
  <2>2. d <= Dist(a, q.sector) /\ d \in Nat /\ Dist(a, q.sector) \in Nat
    BY <1>1, <1>2, <1>4
  <2>3. CASE Dist(a, q.sector) # d
    BY <1>4, <2>1, <2>2, <2>3 DEF Before
  <2>4. CASE Dist(a, q.sector) = d
    <3>1. q.sector = p.sector
      BY <1>1, <1>4, <2>4, DistIs
    <3>2. o <= q.offset
      BY <1>3, <2>4
    <3>3. q.offset # o
      BY <1>4, <3>1 DEF Position
    <3> QED BY <1>1, <1>4, <3>1, <3>2, <3>3 DEF Before
  <2> QED BY <2>3, <2>4
<1> QED BY <1>4, <1>5

\* The boot finds every undrained record.
LEMMA FoundIs ==
  ASSUME LogInv, Walked = Occupied
  PROVE  /\ \A s \in Sector : FoundIn(s) = Und(s) /\ (s \notin Occupied => Und(s) = {})
         /\ Found \in SUBSET Position
         /\ \A p \in Position : p \in Found <=> p.sector \in Occupied /\ p.offset \in Und(p.sector)
         /\ Cardinality(Found) = Cardinality({x \in Sector \X Slot : x[2] \in Und(x[1])})
<1>1. Slot \subseteq Offset /\ 0 \in Offset /\ Occupied \subseteq Sector
  BY SectorIs DEF Slot, Offset, Occupied
<1>2. RecordsInOrder /\ \A o \in Slot : 0 <= o
  BY SectorIs DEF LogInv, Slot
<1>3. ASSUME NEW s \in Sector PROVE FoundIn(s) = Und(s) /\ (s \notin Occupied => Und(s) = {})
  <2>1. \A o \in Slot : o < RunEnd(s, 0) <=> IsRecord(s, o)
    BY <1>1, <1>2, RunEndReaches
  <2>2. s \notin Occupied => Und(s) = {}
    BY <1>2 DEF RecordsInOrder, Occupied, Und, IsUndrained
  <2> QED BY <2>1, <2>2 DEF FoundIn, Und, IsUndrained
<1>4. Found \in SUBSET Position
  BY DEF Found
<1>5. \A p \in Position : p \in Found <=> p.sector \in Occupied /\ p.offset \in Und(p.sector)
  BY <1>1, <1>3 DEF Found
<1>6. Cardinality(Found) = Cardinality({x \in Sector \X Slot : x[2] \in Und(x[1])})
  <2> DEFINE L == {x \in Sector \X Slot : x[2] \in Und(x[1])}
             f == [x \in L |-> At(x[1], x[2])]
  <2>1. ASSUME NEW x \in L
        PROVE  /\ At(x[1], x[2]) \in Found /\ x = <<x[1], x[2]>>
               /\ At(x[1], x[2]).sector = x[1] /\ At(x[1], x[2]).offset = x[2]
    <3>1. x[1] \in Sector /\ x[2] \in Slot /\ x[2] \in Und(x[1]) /\ x = <<x[1], x[2]>>
      OBVIOUS
    <3>2. At(x[1], x[2]) \in Position /\ At(x[1], x[2]).sector = x[1] /\ At(x[1], x[2]).offset = x[2]
      BY <1>1, <3>1 DEF At, Position
    <3>3. At(x[1], x[2]) \in Found
      BY <1>3, <1>5, <3>1, <3>2
    <3> QED BY <3>1, <3>2, <3>3
  <2>2. f \in [L -> Found]
    BY <2>1
  <2>3. ASSUME NEW p \in Found PROVE \E x \in L : f[x] = p
    <3>1. p \in Position /\ p.sector \in Sector /\ p.offset \in Und(p.sector) /\ p.offset \in Slot
      BY <1>1, <1>4, <1>5, LiveIs
    <3>2. <<p.sector, p.offset>> \in L /\ At(p.sector, p.offset) = p
      BY <3>1 DEF At, Position
    <3> QED BY <3>2
  <2>4. ASSUME NEW x \in L, NEW y \in L, f[x] = f[y] PROVE x = y
    <3>1. At(x[1], x[2]) = At(y[1], y[2])
      BY <2>4
    <3> HIDE DEF L, f
    <3>2. x[1] = y[1] /\ x[2] = y[2]
      BY <2>1, <3>1
    <3> QED BY <2>1, <3>2
  <2> HIDE DEF f
  <2>5. f \in Surjection(L, Found) /\ f \in Injection(L, Found)
    BY <2>2, <2>3, <2>4 DEF Injection, Surjection, IsInjective
  <2>7. IsFiniteSet(L) /\ L \in SUBSET (Sector \X Slot)
    BY CellSetIs
  <2> HIDE DEF L
  <2>9. Cardinality(Found) = Cardinality(L)
    BY <2>5, <2>7, FS_Surjection
  <2> QED BY <2>9 DEF L
<1> QED BY <1>3, <1>4, <1>5, <1>6

LEMMA BootResumeKeeps ==
  ASSUME LogInv, Premises, BootResume
  PROVE  LogInv'
<1>1. PICK a \in Sector, z \in Sector : IsArc(a, z) /\ Tidy(z)
  BY DEF LogInv, RingOK, BootResume
<1>2. /\ a \in Occupied /\ z \in Occupied /\ \A s \in Occupied : gen[s] <= gen[z]
      /\ Newest = z /\ OldestOccupied = a /\ Walked = Occupied
  BY <1>1, ArcIs
<1>3. /\ \A s \in Sector : FoundIn(s) = Und(s) /\ (s \notin Occupied => Und(s) = {})
      /\ Found \in SUBSET Position
      /\ \A p \in Position : p \in Found <=> p.sector \in Occupied /\ p.offset \in Und(p.sector)
      /\ Cardinality(Found) = Cardinality({x \in Sector \X Slot : x[2] \in Und(x[1])})
  BY <1>2, FoundIs
<1>4. /\ FlashTypeOK' /\ RecordsInOrder' /\ IdsInOrder' /\ Occupied' = Occupied
      /\ \A s \in Occupied : slot'[s] = slot[s]
      /\ \A s \in Sector : Und(s)' = Und(s)
      /\ \A s \in Sector, o \in Slot : IsRecord(s, o)' <=> IsRecord(s, o)
  <2>1. PICK T \in SUBSET {s \in Sector : head[s] = "torn"} : T = {s \in Sector : head[s] = "torn"}
    OBVIOUS
  <2>2. /\ head' = [s \in Sector |-> IF s \in T THEN "blank" ELSE head[s]]
        /\ slot' = [s \in Sector |-> IF s \in T THEN BlankSector ELSE slot[s]]
        /\ gen' = gen /\ nextId' = nextId
    BY <2>1 DEF BootResume, HeadAtBoot, SlotAtBoot, hist
  <2> QED BY <2>2, BootErases
<1>5. PICK e \in Offset : e = RunEnd(z, 0)
  BY RunEndIs, SectorIs DEF Offset
<1>6. /\ ready' /\ nextId' = nextId /\ gen' = gen /\ activeSector' = z /\ writeOffset' = e
      /\ activeSectorClosed' = ClosedAtBoot /\ peeked' = << >> /\ batch' = << >>
      /\ pendingCount' = Cardinality(Found) /\ nextId \in 1 .. MaxAppends + 1
      /\ ready' \in BOOLEAN
  BY <1>2, <1>5 DEF BootResume, hist, LogInv, RamTypeOK
<1>7. undrainedInSector' \in [Sector -> Nat] /\ \A s \in Sector : Exact(s)'
  <2>1. undrainedInSector' = [s \in Sector |-> IF s \in Occupied THEN Cardinality(Und(s)) ELSE 0]
    BY <1>2, <1>3 DEF BootResume
  <2>2. \A s \in Sector : Cardinality(Und(s)) \in Nat /\ (Cardinality(Und(s)) = 0 <=> Und(s) = {})
    BY LiveIs, SlotSetIs
  <2> QED BY <1>3, <1>4, <2>1, <2>2 DEF Exact
<1>8. Live' = {x \in Sector \X Slot : x[2] \in Und(x[1])}
  <2>1. \A s \in Sector : undrainedInSector'[s] = Cardinality(Und(s))
    BY <1>4, <1>7 DEF Exact
  <2>2. \A s \in Sector : Cardinality(Und(s)) = 0 <=> Und(s) = {}
    BY LiveIs, SlotSetIs
  <2> QED BY <1>4, <2>1, <2>2 DEF Live
<1>9. pendingCount' = Cardinality(Live') /\ pendingCount' \in Nat /\ (pendingCount' = 0 <=> Live' = {})
  <2>1. Live' \in SUBSET (Sector \X Slot)
    BY <1>8
  <2> QED BY <1>3, <1>6, <1>8, <2>1, CellSetIs
<1>10. CountsOK'
  BY <1>7, <1>9 DEF CountsOK
<1>11. nextGeneration' = gen[z] + 1 /\ gen[z] \in Nat /\ gen[z] <= nextId
  <2>1. gen[z] \in Nat /\ gen[z] <= nextId /\ nextId <= MaxAppends + 1 /\ MaxAppends \in Nat
    BY <1>2, LogAssumption DEF LogInv, RingOK, FlashTypeOK, RamTypeOK
  <2>2. (gen[z] + 1) % GenMod = gen[z] + 1
    BY <1>6, <2>1, NextGenerationIs
  <2> QED BY <1>2, <2>1, <2>2 DEF BootResume
<1>12. RingOK'
  <2>1. IsArc(a, z)'
    BY <1>1, <1>4, <1>6 DEF IsArc
  <2>2. Tidy(z)'
    BY <1>1, <1>2, <1>4 DEF Tidy
  <2>3. \A s \in Occupied' : gen'[s] <= nextId' /\ gen'[s] < nextGeneration'
    <3>1. \A s \in Occupied : gen[s] <= nextId /\ gen[s] \in Nat
      BY DEF LogInv, RingOK, FlashTypeOK, Occupied
    <3> QED BY <1>2, <1>4, <1>6, <1>11, <3>1
  <2>4. nextGeneration' <= nextId' + 1 /\ Occupied' # {}
    BY <1>2, <1>4, <1>6, <1>11
  <2> QED BY <1>6, <2>1, <2>2, <2>3, <2>4 DEF RingOK
<1>13. ActiveOK'
  <2>1. \A o \in Slot : o < e <=> IsRecord(z, o)
    <3>1. RecordsInOrder /\ 0 \in Offset /\ \A o \in Slot : o \in Offset /\ 0 <= o
      BY SectorIs DEF LogInv, Slot, Offset
    <3> QED BY <1>5, <3>1, RunEndReaches
  <2>2. ASSUME ~ ClosedAtBoot, NEW o \in Slot, e <= o PROVE slot[z][o] = BlankCell
    <3>1. e # SlotsPerSector /\ slot[z][e] = BlankCell
      BY <1>2, <1>5, <2>2 DEF ClosedAtBoot
    <3>2. e \in Slot /\ o \in e .. SlotsPerSector - 1
      BY <2>2, <3>1, SectorIs DEF Slot, Offset
    <3> QED BY <1>1, <3>1, <3>2 DEF Tidy
  <2>3. slot'[z] = slot[z] /\ \A o \in Slot : IsRecord(z, o)' <=> IsRecord(z, o)
    BY <1>2, <1>4
  <2>4. \A o \in Slot : o < writeOffset' <=> IsRecord(activeSector, o)'
    BY <1>6, <2>1, <2>3 DEF IsRecord
  <2> QED BY <1>6, <2>2, <2>3, <2>4 DEF ActiveOK
<1>14. PeekOK'
  BY <1>6 DEF PeekOK
<1>15. oldest' \in Position /\ WalkOK'
  <2>1. CASE Found = {}
    <3>1. oldest' = At(z, e)
      BY <1>2, <1>5, <2>1 DEF BootResume
    <3>2. oldest' \in Position
      BY <3>1 DEF At, Position
    <3>3. pendingCount' = 0
      BY <1>6, <2>1, FS_EmptySet
    <3> QED BY <1>9, <3>2, <3>3 DEF WalkOK
  <2>2. CASE Found # {}
    <3> DEFINE First(p) == \A q \in Found \ {p} : Before(At(a, 0), p, q)
    <3>1. oldest' = CHOOSE p \in Found : First(p)
      BY <1>2, <2>2 DEF BootResume
    <3>2. \E p \in Found : First(p)
      BY <1>3, <2>2, FirstIs
    <3> HIDE DEF First
    <3>3. PICK w \in Found : w = oldest' /\ First(w)
      BY <3>1, <3>2
    <3>4. w \in Position /\ w.sector \in Occupied /\ w.sector \in Sector /\ w.offset \in Nat
      BY <1>3, SectorIs DEF Position, Offset
    <3>5. Dist(a, w.sector) <= Dist(a, z)
      BY <1>1, <3>4 DEF IsArc
    <3>6. ASSUME NEW x \in Live'
          PROVE  /\ Dist(w.sector, x[1]) <= Dist(w.sector, z)
                 /\ x[1] = w.sector => w.offset <= x[2]
      <4>1. x[1] \in Sector /\ x[2] \in Slot /\ x[2] \in Und(x[1]) /\ x[1] \in Occupied
        BY <1>3, <1>8
      <4>2. PICK q : q = At(x[1], x[2])
        OBVIOUS
      <4>3. q.sector = x[1] /\ q.offset = x[2] /\ q \in Position
        BY <4>1, <4>2, SectorIs DEF At, Position, Slot, Offset
      <4>4. q \in Found
        BY <1>3, <4>1, <4>3
      <4>5. Dist(a, w.sector) <= Dist(a, x[1]) /\ (x[1] = w.sector => w.offset <= x[2])
        <5>1. Dist(a, w.sector) \in Nat /\ Dist(a, x[1]) \in Nat /\ x[2] \in Nat
          <6>1. \A s \in Sector : Dist(a, s) \in Nat
            BY DistIs, SectorIs
          <6> QED BY <3>4, <4>1, <6>1, SectorIs DEF Slot
        <5>2. CASE q = w
          BY <3>4, <4>3, <5>1, <5>2
        <5>3. CASE q # w
          <6>1. Before(At(a, 0), w, q) /\ At(a, 0).sector = a
            BY <3>3, <4>4, <5>3 DEF First, At
          <6>2. \/ Dist(a, w.sector) < Dist(a, x[1])
                \/ w.sector = x[1] /\ w.offset < x[2]
            BY <4>3, <6>1 DEF Before
          <6> QED BY <3>4, <5>1, <6>2
        <5> QED BY <5>2, <5>3
      <4>6. Dist(a, x[1]) <= Dist(a, z)
        BY <1>1, <4>1 DEF IsArc
      <4> QED BY <3>4, <3>5, <4>1, <4>5, <4>6, RestOfWalk
    <3>7. \A x \in Live' : OnWalk(x[1])' /\ (x[1] = oldest'.sector => oldest'.offset <= x[2])
      BY <1>6, <3>3, <3>6 DEF OnWalk
    <3> QED BY <1>7, <3>3, <3>4, <3>7 DEF WalkOK
  <2> QED BY <2>1, <2>2
<1>16. RamTypeOK'
  <2>1. z \in Sector /\ e \in Offset /\ ClosedAtBoot \in BOOLEAN
    BY DEF ClosedAtBoot
  <2>2. peeked' \in Seq(Position) /\ batch' \in Seq(Nat) /\ nextGeneration' \in Nat
    BY <1>6, <1>11
  <2> QED BY <1>6, <1>7, <1>9, <1>15, <2>1, <2>2 DEF RamTypeOK
<1> QED BY <1>4, <1>6, <1>10, <1>12, <1>13, <1>14, <1>15, <1>16 DEF LogInv


-----------------------------------------------------------------------------
(* The invariant.                                                           *)

LEMMA InitKeeps ==
  ASSUME Init
  PROVE  LogInv
<1>1. 0 \in Sector /\ 0 \in Offset /\ At(0, 0) \in Position /\ MaxAppends \in Nat
  BY LogAssumption, SectorIs DEF Sector, Offset, Position, At
<1>2. BlankSector \in [Slot -> Cell] /\ \A o \in Slot : BlankSector[o].body = "blank"
  BY DEF BlankSector, BlankCell, Cell
<1>3. FlashTypeOK
  <2>1. slot \in [Sector -> [Slot -> Cell]]
    BY <1>2 DEF Init
  <2> QED BY <2>1 DEF Init, FlashTypeOK
<1>4. \A s \in Sector, o \in Slot : ~ IsRecord(s, o)
  BY <1>2 DEF Init, IsRecord
<1>5. RecordsInOrder /\ IdsInOrder
  BY <1>4 DEF RecordsInOrder, IdsInOrder
<1>6. Occupied = {} /\ ~ ready
  BY DEF Init, Occupied
<1>7. RamTypeOK
  <2>1. peeked \in Seq(Position) /\ batch \in Seq(Nat)
    BY DEF Init
  <2>2. undrainedInSector \in [Sector -> Nat] /\ nextId \in 1 .. MaxAppends + 1
    BY <1>1 DEF Init
  <2> QED BY <1>1, <2>1, <2>2 DEF Init, RamTypeOK
<1> QED BY <1>3, <1>5, <1>6, <1>7 DEF Init, LogInv, RingOK, Reset

LEMMA StutterKeeps ==
  ASSUME LogInv, UNCHANGED vars
  PROVE  LogInv'
<1>1. /\ head' = head /\ gen' = gen /\ slot' = slot /\ ready' = ready
      /\ nextGeneration' = nextGeneration /\ activeSector' = activeSector
      /\ writeOffset' = writeOffset /\ activeSectorClosed' = activeSectorClosed
      /\ oldest' = oldest /\ pendingCount' = pendingCount
      /\ undrainedInSector' = undrainedInSector /\ peeked' = peeked /\ peekEnd' = peekEnd
      /\ nextId' = nextId /\ batch' = batch /\ evicted' = evicted
  BY DEF vars, flash, ram, hist
<1>2. FlashTypeOK' /\ RamTypeOK' /\ RecordsInOrder' /\ IdsInOrder'
  BY <1>1 DEF LogInv, FlashTypeOK, RamTypeOK, RecordsInOrder, IdsInOrder, IsRecord, Precedes
<1>3. /\ Live' = Live /\ Occupied' = Occupied
      /\ \A s : /\ Exact(s)' <=> Exact(s)
                /\ GivenUp(s)' <=> GivenUp(s)
                /\ OnWalk(s)' <=> OnWalk(s)
      /\ \A s, t : (IsArc(s, t)' <=> IsArc(s, t)) /\ (Tidy(t)' <=> Tidy(t))
  BY <1>1 DEF Live, Occupied, Exact, GivenUp, OnWalk, IsArc, Tidy, Und, UndrainedIdsIn, IsUndrained,
              IsRecord
<1>4. RingOK'
  BY <1>1, <1>3 DEF LogInv, RingOK
<1>5. ready' => ActiveOK' /\ CountsOK'
  BY <1>1, <1>3 DEF LogInv, ActiveOK, CountsOK, IsRecord
<1>6. ready' => WalkOK' /\ PeekOK'
  BY <1>1, <1>3 DEF LogInv, WalkOK, PeekOK
<1>7. ~ ready' => Reset' /\ peeked' = << >> /\ batch' = << >>
  BY <1>1 DEF LogInv, Reset
<1> QED BY <1>2, <1>4, <1>5, <1>6, <1>7 DEF LogInv

LEMMA NextKeeps ==
  ASSUME LogInv, Premises, [Next]_vars
  PROVE  LogInv'
<1>1. CASE LogAppend
  BY <1>1, LogAppendKeeps
<1>2. CASE RollFails
  BY <1>2, RollFailsKeeps
<1>3. CASE RecordWriteFails
  BY <1>3, RecordWriteFailsKeeps
<1>4. CASE AppendCut
  BY <1>4, AppendCutKeeps
<1>5. CASE PeekPending
  BY <1>5, PeekPendingKeeps
<1>6. CASE MarkDrained
  BY <1>6, MarkDrainedKeeps
<1>7. CASE MarkCut
  BY <1>7, MarkCutKeeps
<1>8. CASE BootFresh
  BY <1>8, BootFreshKeeps
<1>9. CASE BootResume
  BY <1>9, BootResumeKeeps
<1>10. CASE BootCut
  BY <1>10, BootCutKeeps
<1>11. CASE PowerLoss
  BY <1>11, PowerLossKeeps
<1>12. CASE UNCHANGED vars
  BY <1>12, StutterKeeps
<1> QED BY <1>1, <1>2, <1>3, <1>4, <1>5, <1>6, <1>7, <1>8, <1>9, <1>10, <1>11, <1>12 DEF Next

\* What the log is at every moment: its flash is a ring of sectors filled in the order of the
\* appends, and what its RAM counts and remembers is what is stored there.
THEOREM LogInvariant ==
  ASSUME Premises
  PROVE  Spec => []LogInv
<1>1. Init => LogInv
  BY InitKeeps
<1>2. LogInv /\ [Next]_vars => LogInv'
  BY NextKeeps
<1> QED BY <1>1, <1>2, PTL DEF Spec

-----------------------------------------------------------------------------
(* No silent loss.                                                          *)

LEMMA StoredIs ==
  ASSUME LogInv, NEW k
  PROVE  k \in Stored <=> \E s \in Sector, i \in Slot : IsUndrained(s, i) /\ slot[s][i].id = k
BY DEF LogInv, RecordsInOrder, Stored, UndrainedIdsIn, IsUndrained

LEMMA StoredIsThen ==
  ASSUME LogInv', NEW k, NEW s \in Sector, NEW i \in Slot, IsUndrained(s, i)', slot'[s][i].id = k
  PROVE  k \in Stored'
BY DEF LogInv, RecordsInOrder, Stored, UndrainedIdsIn, IsUndrained

\* Whatever an append writes, it loses at most the records of the sector it rolls to, and those
\* are logged as evicted.
LEMMA AppendStores ==
  ASSUME LogInv, LogInv', ready, NEW rolls \in BOOLEAN, RollChoice(rolls),
         NEW h \in {"blank", "torn", "valid"}, NEW g \in Nat, NEW b \in {"blank", "torn", "record"},
         AppendOnFlash(rolls, h, g, b), evicted' = EvictedAfterRoll(rolls)
  PROVE  Stored \subseteq Stored' \cup evicted' /\ (b = "record" => nextId \in Stored')
<1>1. PICK T, o : T = TargetSector(rolls) /\ o = TargetOffset(rolls)
  OBVIOUS
<1>2. Wrote(T, o, rolls, h, g, b)
  BY <1>1, AppendWrites
<1>3. /\ T \in Sector /\ o \in Slot /\ (rolls => T = RollTarget)
  BY <1>1, TargetIs
<1>4. /\ \A s \in Sector, i \in Slot :
              IsUndrained(s, i)' <=> IF s = T /\ (i = o \/ rolls) THEN i = o /\ b = "record"
                                     ELSE IsUndrained(s, i)
      /\ \A s \in Sector, i \in Slot :
              slot'[s][i].id = IF s = T /\ i = o /\ b = "record" THEN nextId
                               ELSE IF s = T /\ (i = o \/ rolls) THEN 0 ELSE slot[s][i].id
      /\ ~ rolls => ~ IsRecord(T, o)
  BY <1>1, <1>2, WrittenRecords
<1>5. rolls => UndrainedIdsIn(T) \subseteq evicted'
  <2>1. CASE rolls
    <3>1. UndrainedIdsIn(RollTarget) \subseteq EvictedAfterRoll(TRUE)
      BY RollAccounts
    <3> QED BY <1>3, <2>1, <3>1
  <2> QED BY <2>1
<1>6. ASSUME NEW k \in Stored PROVE k \in Stored' \cup evicted'
  <2>1. PICK s \in Sector, i \in Slot : IsUndrained(s, i) /\ slot[s][i].id = k
    BY StoredIs
  <2>2. CASE s = T /\ rolls
    <3>1. k \in UndrainedIdsIn(T)
      BY <2>1, <2>2 DEF UndrainedIdsIn
    <3> QED BY <1>5, <2>2, <3>1
  <2>3. CASE ~ (s = T /\ rolls)
    <3>1. ~ (s = T /\ i = o)
      BY <1>4, <2>1, <2>3 DEF IsUndrained
    <3>2. IsUndrained(s, i)' /\ slot'[s][i].id = k
      BY <1>4, <2>1, <2>3, <3>1
    <3> QED BY <3>2, StoredIsThen
  <2> QED BY <2>2, <2>3
<1>7. b = "record" => nextId \in Stored'
  <2>1. CASE b = "record"
    <3>1. IsUndrained(T, o)' /\ slot'[T][o].id = nextId
      BY <1>3, <1>4, <2>1
    <3> QED BY <1>3, <3>1, StoredIsThen
  <2> QED BY <2>1
<1> QED BY <1>6, <1>7

\* The records that leave the flash in a step were delivered or logged as evicted.
LossesAreKnown == Stored \subseteq Stored' \cup drained' \cup evicted'

LEMMA AppendLosesNone ==
  ASSUME LogInv, LogInv', Premises, LogAppend \/ RecordWriteFails \/ RollFails \/ AppendCut
  PROVE  LossesAreKnown /\ acked' \subseteq acked \cup Stored' /\ drained' = drained
<1>1. CASE LogAppend
  <2>1. PICK rolls \in BOOLEAN, h \in {"blank", "torn", "valid"}, b \in {"blank", "torn", "record"} :
          /\ RollChoice(rolls) /\ AppendOnFlash(rolls, h, nextGeneration, b)
          /\ evicted' = EvictedAfterRoll(rolls) /\ b = "record"
    BY <1>1 DEF LogAppend
  <2>2. ready /\ nextGeneration \in Nat /\ acked' = acked \cup {nextId} /\ drained' = drained
    BY <1>1 DEF LogAppend, LogInv, RamTypeOK
  <2>3. Stored \subseteq Stored' \cup evicted' /\ nextId \in Stored'
    BY <2>1, <2>2, AppendStores
  <2> QED BY <2>2, <2>3 DEF LossesAreKnown
<1>2. CASE RecordWriteFails
  <2>1. PICK rolls \in BOOLEAN, h \in {"blank", "torn", "valid"}, b \in {"blank", "torn", "record"} :
          /\ RollChoice(rolls) /\ AppendOnFlash(rolls, h, nextGeneration, b)
          /\ evicted' = EvictedAfterRoll(rolls)
    BY <1>2 DEF RecordWriteFails
  <2>2. ready /\ nextGeneration \in Nat /\ acked' = acked /\ drained' = drained
    BY <1>2 DEF RecordWriteFails, LogInv, RamTypeOK
  <2>3. Stored \subseteq Stored' \cup evicted'
    BY <2>1, <2>2, AppendStores
  <2> QED BY <2>2, <2>3 DEF LossesAreKnown
<1>3. CASE RollFails
  <2>1. PICK rolls \in BOOLEAN : rolls = TRUE
    OBVIOUS
  <2>2. /\ ready /\ acked' = acked /\ drained' = drained
        /\ RollChoice(rolls) /\ evicted' = EvictedAfterRoll(rolls)
    BY <1>3, <2>1 DEF RollFails
  <2>3. CASE UNCHANGED flash
    <3>1. Stored' = Stored
      BY <2>3 DEF flash, Stored, UndrainedIdsIn, IsUndrained, IsRecord
    <3> QED BY <2>2, <3>1 DEF LossesAreKnown
  <2>4. CASE \E h \in {"blank", "torn"} : AppendOnFlash(TRUE, h, 0, "blank")
    <3>1. PICK h \in {"blank", "torn", "valid"}, g \in Nat, b \in {"blank", "torn", "record"} :
            AppendOnFlash(rolls, h, g, b)
      BY <2>1, <2>4
    <3>2. Stored \subseteq Stored' \cup evicted'
      BY <2>2, <3>1, AppendStores
    <3> QED BY <2>2, <3>2 DEF LossesAreKnown
  <2> QED BY <1>3, <2>3, <2>4 DEF RollFails
<1>4. CASE AppendCut
  <2>1. ready /\ acked' = acked /\ drained' = drained
    BY <1>4, AppendCutIs
  <2>2. PICK rolls \in BOOLEAN :
          /\ RollChoice(rolls) /\ evicted' = EvictedAfterRoll(rolls)
          /\ \/ \E h \in {"blank", "torn", "valid"}, g \in Nat, b \in {"blank", "torn", "record"} :
                  AppendOnFlash(rolls, h, g, b)
             \/ rolls /\ \E k \in Offset : EraseCut(k)
    BY <1>4, AppendCutIs
  <2>3. CASE \E h \in {"blank", "torn", "valid"}, g \in Nat, b \in {"blank", "torn", "record"} :
               AppendOnFlash(rolls, h, g, b)
    <3>1. Stored \subseteq Stored' \cup evicted'
      BY <2>1, <2>2, <2>3, AppendStores
    <3> QED BY <2>1, <3>1 DEF LossesAreKnown
  <2>4. CASE rolls /\ \E k \in Offset : EraseCut(k)
    <3>1. PICK k \in Offset : EraseCut(k)
      BY <2>4
    <3>2. PICK T \in Sector : T = RollTarget
      BY RollTargetIs
    <3>3. \A s \in Sector : s # T => slot'[s] = slot[s]
      BY <3>1, <3>2, EraseCutIs
    <3>4. UndrainedIdsIn(T) \subseteq evicted'
      <4>1. UndrainedIdsIn(RollTarget) \subseteq EvictedAfterRoll(TRUE)
        BY <2>1, RollAccounts
      <4> QED BY <2>2, <2>4, <3>2, <4>1
    <3>5. ASSUME NEW c \in Stored PROVE c \in Stored' \cup evicted'
      <4>1. PICK s \in Sector, i \in Slot : IsUndrained(s, i) /\ slot[s][i].id = c
        BY StoredIs
      <4>2. CASE s = T
        BY <3>4, <4>1, <4>2 DEF UndrainedIdsIn
      <4>3. CASE s # T
        <5>1. IsUndrained(s, i)' /\ slot'[s][i].id = c
          BY <3>3, <4>1, <4>3 DEF IsUndrained, IsRecord
        <5> QED BY <5>1, StoredIsThen
      <4> QED BY <4>2, <4>3
    <3> QED BY <2>1, <3>5 DEF LossesAreKnown
  <2> QED BY <2>2, <2>3, <2>4
<1> QED BY <1>1, <1>2, <1>3, <1>4

LEMMA MarkLosesNone ==
  ASSUME LogInv, LogInv', Premises, MarkDrained \/ MarkCut
  PROVE  LossesAreKnown /\ acked' = acked /\ drained \subseteq drained' /\ evicted' = evicted
<1>1. Len(peeked) \in Nat
  BY DEF LogInv, RamTypeOK
<1>2. PICK m \in 0 .. Len(peeked) : FlagsCleared(1 .. m) /\ Drains(1 .. m)
  BY <1>1, MarkDrainedIs DEF MarkCut
<1>3. ready /\ head' = head /\ gen' = gen /\ acked' = acked /\ evicted' = evicted
  BY DEF MarkDrained, MarkCut
<1>4. 1 .. m \in SUBSET (1 .. Len(peeked))
  BY <1>1
<1>5. PICK D : D = CellsOf(1 .. m)
  OBVIOUS
<1>6. \A s \in Sector, i \in Slot :
        /\ slot'[s][i].id = slot[s][i].id
        /\ IsUndrained(s, i)' <=> IsUndrained(s, i) /\ <<s, i>> \notin D
  BY <1>2, <1>3, <1>4, <1>5, ClearedIs
<1>7. ASSUME NEW k \in Stored PROVE k \in Stored' \cup drained'
  <2>1. PICK s \in Sector, i \in Slot : IsUndrained(s, i) /\ slot[s][i].id = k
    BY StoredIs
  <2>2. CASE <<s, i>> \in D
    <3>1. PICK j \in 1 .. m : <<peeked[j].sector, peeked[j].offset>> = <<s, i>>
      BY <1>5, <2>2 DEF CellsOf
    <3>2. j \in 1 .. Len(peeked) /\ peeked[j].sector = s /\ peeked[j].offset = i
      BY <1>4, <3>1
    <3>3. batch[j] = k
      BY <1>3, <2>1, <3>2 DEF LogInv, PeekOK
    <3> QED BY <1>2, <3>3 DEF Drains
  <2>3. CASE <<s, i>> \notin D
    BY <1>6, <2>1, <2>3, StoredIsThen
  <2> QED BY <2>2, <2>3
<1> QED BY <1>2, <1>3, <1>7 DEF LossesAreKnown, Drains

LEMMA BootLosesNone ==
  ASSUME LogInv, LogInv', BootFresh \/ BootResume \/ BootCut
  PROVE  LossesAreKnown /\ UNCHANGED hist
<1>1. UNCHANGED hist
  BY DEF BootFresh, BootResume, BootCut
<1>2. CASE Occupied = {}
  <2>1. Stored = {}
    BY <1>2, EmptyRing, StoredIs DEF IsUndrained
  <2> QED BY <1>1, <2>1 DEF LossesAreKnown
<1>3. CASE Occupied # {}
  <2>1. PICK T \in SUBSET {s \in Sector : head[s] = "torn"} :
          /\ head' = [s \in Sector |-> IF s \in T THEN "blank" ELSE head[s]]
          /\ slot' = [s \in Sector |-> IF s \in T THEN BlankSector ELSE slot[s]]
          /\ gen' = gen
    <3>1. CASE BootResume
      <4>1. PICK T \in SUBSET {s \in Sector : head[s] = "torn"} : T = {s \in Sector : head[s] = "torn"}
        OBVIOUS
      <4>2. /\ head' = [s \in Sector |-> IF s \in T THEN "blank" ELSE head[s]]
            /\ slot' = [s \in Sector |-> IF s \in T THEN BlankSector ELSE slot[s]]
            /\ gen' = gen
        BY <3>1, <4>1 DEF BootResume, HeadAtBoot, SlotAtBoot
      <4> QED BY <4>2
    <3>2. CASE BootCut
      BY <1>3, <3>2 DEF BootCut
    <3> QED BY <1>3, <3>1, <3>2 DEF BootFresh
  <2>2. nextId' = nextId
    BY <1>1 DEF hist
  <2>3. /\ \A s \in Sector : Und(s)' = Und(s)
        /\ \A s \in Sector, o \in Slot : IsRecord(s, o) => slot'[s][o] = slot[s][o]
    BY <2>1, <2>2, BootErases
  <2>4. ASSUME NEW k \in Stored PROVE k \in Stored'
    <3>1. PICK s \in Sector, i \in Slot : IsUndrained(s, i) /\ slot[s][i].id = k
      BY StoredIs
    <3>2. slot'[s][i].id = k
      BY <2>3, <3>1 DEF IsUndrained
    <3>3. IsUndrained(s, i)'
      <4>1. i \in Und(s)
        BY <3>1 DEF Und
      <4>2. i \in Und(s)'
        BY <2>3, <4>1
      <4> QED BY <4>2 DEF Und
    <3> QED BY <3>2, <3>3, StoredIsThen
  <2> QED BY <1>1, <2>4 DEF LossesAreKnown
<1> QED BY <1>2, <1>3

LEMMA StepLosesNone ==
  ASSUME LogInv, Premises, [Next]_vars
  PROVE  /\ LossesAreKnown /\ acked' \subseteq acked \cup Stored'
         /\ drained \subseteq drained' /\ evicted \subseteq evicted'
<1>1. LogInv'
  BY NextKeeps
<1>2. CASE LogAppend \/ RecordWriteFails \/ RollFails \/ AppendCut
  <2>1. evicted \subseteq evicted'
    BY <1>2 DEF LogAppend, RecordWriteFails, RollFails, AppendCut, EvictedAfterRoll
  <2> QED BY <1>1, <1>2, <2>1, AppendLosesNone
<1>3. CASE MarkDrained \/ MarkCut
  BY <1>1, <1>3, MarkLosesNone
<1>4. CASE BootFresh \/ BootResume \/ BootCut
  BY <1>1, <1>4, BootLosesNone DEF hist
<1>5. CASE PeekPending \/ PowerLoss \/ UNCHANGED vars
  <2>1. /\ UNCHANGED flash /\ acked' = acked /\ drained' = drained /\ evicted' = evicted
    BY <1>5 DEF PeekPending, PowerLoss, vars, hist
  <2>2. Stored' = Stored
    BY <2>1 DEF flash, Stored, UndrainedIdsIn, IsUndrained, IsRecord
  <2> QED BY <2>1, <2>2 DEF LossesAreKnown
<1> QED BY <1>2, <1>3, <1>4, <1>5 DEF Next

\* NoSilentLoss: a capture whose append returned true is stored undrained, was delivered and
\* marked drained, or was logged as evicted, whatever power losses and flash errors strike the
\* appends, the marks and the boots.
THEOREM NoCaptureIsLostSilently ==
  ASSUME Premises
  PROVE  Spec => []NoSilentLoss
<1>1. Init => NoSilentLoss
  BY DEF Init, NoSilentLoss
<1>2. LogInv /\ NoSilentLoss /\ [Next]_vars => NoSilentLoss'
  BY StepLosesNone DEF NoSilentLoss, LossesAreKnown
<1> QED BY <1>1, <1>2, LogInvariant, PTL DEF Spec


-----------------------------------------------------------------------------
(* What the RAM says of the flash.                                          *)

\* Without flash errors no sector is ever given up, and every count is exact.
LEMMA AllCounted ==
  ASSUME LogInv, ready, "append_error" \notin Faults
  PROVE  /\ \A s \in Sector : Exact(s) /\ undrainedInSector[s] = Cardinality(Und(s))
         /\ \A s \in Sector, o \in Slot : <<s, o>> \in Live <=> IsUndrained(s, o)
<1>1. \A s \in Sector : Exact(s) /\ undrainedInSector[s] = Cardinality(Und(s))
  BY DEF LogInv, CountsOK, GivenUp, Exact
<1>2. ASSUME NEW s \in Sector, NEW o \in Slot PROVE <<s, o>> \in Live <=> IsUndrained(s, o)
  <2>1. o \in Und(s) <=> IsUndrained(s, o)
    BY DEF Und
  <2>2. o \in Und(s) => undrainedInSector[s] # 0
    BY <1>1, LiveIs, SlotSetIs
  <2>3. <<s, o>> \in Live <=> o \in Und(s) /\ undrainedInSector[s] # 0
    BY DEF Live
  <2> QED BY <2>1, <2>2, <2>3
<1> QED BY <1>1, <1>2

LEMMA CountsAgreeHere ==
  ASSUME LogInv, "append_error" \notin Faults
  PROVE  CountsAgree
<1> SUFFICES ASSUME ready
             PROVE  /\ pendingCount = Cardinality({p \in Position :
                         p.offset \in Slot /\ head[p.sector] = "valid" /\ IsUndrained(p.sector, p.offset)})
                    /\ \A s \in Sector :
                         head[s] = "valid" =>
                           undrainedInSector[s] = Cardinality({o \in Slot : IsUndrained(s, o)})
  BY DEF CountsAgree
<1>1. /\ \A s \in Sector : Exact(s) /\ undrainedInSector[s] = Cardinality(Und(s))
      /\ \A s \in Sector, o \in Slot : <<s, o>> \in Live <=> IsUndrained(s, o)
  BY AllCounted
<1>2. \A s \in Sector : undrainedInSector[s] = Cardinality({o \in Slot : IsUndrained(s, o)})
  BY <1>1 DEF Und
<1>3. pendingCount = Cardinality({p \in Position :
        p.offset \in Slot /\ head[p.sector] = "valid" /\ IsUndrained(p.sector, p.offset)})
  <2> DEFINE P == {p \in Position :
                    p.offset \in Slot /\ head[p.sector] = "valid" /\ IsUndrained(p.sector, p.offset)}
             f == [x \in Live |-> At(x[1], x[2])]
  <2>1. ASSUME NEW x \in Live
        PROVE  /\ At(x[1], x[2]) \in P /\ x = <<x[1], x[2]>>
               /\ At(x[1], x[2]).sector = x[1] /\ At(x[1], x[2]).offset = x[2]
    <3>1. x[1] \in Sector /\ x[2] \in Slot /\ x = <<x[1], x[2]>>
      BY LiveIs
    <3>2. At(x[1], x[2]) \in Position /\ At(x[1], x[2]).sector = x[1] /\ At(x[1], x[2]).offset = x[2]
      BY <3>1, SectorIs DEF At, Position, Slot, Offset
    <3>3. IsUndrained(x[1], x[2]) /\ head[x[1]] = "valid"
      BY <1>1, <3>1 DEF LogInv, RecordsInOrder, IsUndrained
    <3> QED BY <3>1, <3>2, <3>3
  <2>2. f \in [Live -> P]
    BY <2>1
  <2>3. ASSUME NEW p \in P PROVE \E x \in Live : f[x] = p
    <3>1. <<p.sector, p.offset>> \in Live /\ At(p.sector, p.offset) = p
      BY <1>1 DEF At, Position
    <3> QED BY <3>1
  <2>4. ASSUME NEW x \in Live, NEW y \in Live, f[x] = f[y] PROVE x = y
    <3>1. At(x[1], x[2]) = At(y[1], y[2])
      BY <2>4
    <3> HIDE DEF P, f
    <3>2. x[1] = y[1] /\ x[2] = y[2]
      BY <2>1, <3>1
    <3> QED BY <2>1, <3>2
  <2> HIDE DEF f, P
  <2>5. f \in Surjection(Live, P) /\ f \in Injection(Live, P)
    BY <2>2, <2>3, <2>4 DEF Injection, Surjection, IsInjective
  <2>6. IsFiniteSet(Live)
    BY LiveIs, CellSetIs
  <2>7. Cardinality(P) = Cardinality(Live)
    BY <2>5, <2>6, FS_Surjection
  <2> QED BY <2>7 DEF LogInv, CountsOK, P
<1> QED BY <1>2, <1>3

LEMMA NothingStrandedHere ==
  ASSUME LogInv, "append_error" \notin Faults
  PROVE  NothingStranded
<1> SUFFICES ASSUME ready, NEW s \in Sector, NEW o \in Slot, IsUndrained(s, o)
             PROVE  At(s, o) \in Visible(oldest)
  BY DEF NothingStranded
<1>1. <<s, o>> \in Live
  BY AllCounted
<1>2. oldest \in Position /\ activeSector \in Sector /\ oldest.sector \in Sector
      /\ pendingCount = Cardinality(Live)
  BY DEF LogInv, RamTypeOK, Position, CountsOK
<1>3. pendingCount > 0
  BY <1>1, <1>2, LiveIs, CellSetIs
<1>4. At(s, o) \in Position /\ At(s, o).sector = s /\ At(s, o).offset = o
  BY SectorIs DEF At, Position, Slot, Offset
<1>5. Dist(oldest.sector, oldest.sector) = 0
      /\ \A t \in Sector : Dist(oldest.sector, t) \in Nat
  BY <1>2, DistIs, SectorIs
<1>6. AtOrAfter(oldest, <<s, o>>)
  <2>1. \A x \in Live : x[1] = oldest.sector => oldest.offset <= x[2]
    BY DEF LogInv, WalkOK
  <2>2. s = oldest.sector => oldest.offset <= o
    BY <1>1, <2>1
  <2> QED BY <1>5, <2>2 DEF AtOrAfter
<1>7. Dist(oldest.sector, oldest.sector) <= Dist(oldest.sector, activeSector)
  BY <1>2, <1>5
<1> QED BY <1>1, <1>2, <1>3, <1>4, <1>6, <1>7, VisibleIs

\* CountsAgree and NothingStranded: as long as no flash operation fails, the counters that decide
\* evictions and the backlog equal what is on flash, and the walk of peek_pending passes every
\* stored record, whatever power losses strike.
THEOREM CountersAreTrue ==
  ASSUME Premises, "append_error" \notin Faults
  PROVE  Spec => [](CountsAgree /\ NothingStranded)
<1>1. LogInv => CountsAgree /\ NothingStranded
  BY CountsAgreeHere, NothingStrandedHere
<1> QED BY <1>1, LogInvariant, PTL

-----------------------------------------------------------------------------
(* Evictions.                                                               *)

\* The records a roll evicts are older than all others.
LEMMA EvictedAreOldest ==
  ASSUME LogInv, ready, Evicts(TRUE),
         NEW i \in Slot, IsUndrained(RollTarget, i),
         NEW s \in Sector, s # RollTarget, NEW j \in Slot, IsRecord(s, j)
  PROVE  slot[RollTarget][i].id < slot[s][j].id /\ slot[RollTarget][i].id < nextId
<1>1. PICK T \in Sector : T = RollTarget
  BY RollTargetIs
<1>2. PICK a \in Sector : IsArc(a, activeSector)
  BY ActiveIsNewest
<1>3. T \in Occupied /\ s \in Occupied /\ activeSector \in Sector
  BY <1>1 DEF LogInv, RecordsInOrder, Occupied, IsUndrained, RamTypeOK
<1>4. T = a
  <2>1. Dist(a, T) <= Dist(a, activeSector)
    BY <1>2, <1>3 DEF IsArc
  <2>2. Dist(a, T) = IF T = a THEN 0 ELSE Dist(a, activeSector) + 1
    BY <1>1, <1>3, NextIs DEF RollTarget
  <2>3. Dist(a, activeSector) \in Nat
    BY <1>3, DistIs, SectorIs
  <2> QED BY <2>1, <2>2, <2>3
<1>5. Dist(a, T) < Dist(a, s)
  <2>1. Dist(a, T) = 0
    BY <1>4, DistIs
  <2>2. Dist(a, s) \in Nat /\ Dist(a, s) # 0
    BY <1>1, <1>4, DistIs, SectorIs
  <2> QED BY <2>1, <2>2
<1>6. Precedes(T, i, s, j)
  BY <1>2, <1>3, <1>5 DEF IsArc, Precedes
<1> QED BY <1>1, <1>6 DEF LogInv, IdsInOrder, IsUndrained

LEMMA EvictionStep ==
  ASSUME LogInv, LogInv', ready, NEW rolls \in BOOLEAN, RollChoice(rolls),
         evicted' = EvictedAfterRoll(rolls),
         NEW e \in evicted' \ evicted,
         NEW k \in Stored' \ evicted', NEW T, T = TargetSector(rolls),
         \A s \in Sector, i \in Slot : s # T /\ IsUndrained(s, i)' =>
              IsUndrained(s, i) /\ slot'[s][i].id = slot[s][i].id,
         \A i \in Slot : rolls /\ IsUndrained(T, i)' =>
              \/ slot'[T][i].id = nextId
              \/ IsUndrained(T, i) /\ slot'[T][i].id = slot[T][i].id
  PROVE  e < k
<1>1. rolls = TRUE /\ Evicts(TRUE) /\ e \in UndrainedIdsIn(RollTarget)
      /\ UndrainedIdsIn(RollTarget) \subseteq evicted'
  BY DEF EvictedAfterRoll, Evicts
<1>2. PICK i \in Slot : IsUndrained(RollTarget, i) /\ e = slot[RollTarget][i].id
  BY <1>1 DEF UndrainedIdsIn
<1>3. T \in Sector /\ T = RollTarget
  BY <1>1, RollTargetIs DEF TargetSector
<1>4. PICK s \in Sector, j \in Slot : IsUndrained(s, j)' /\ slot'[s][j].id = k
  BY DEF Stored, UndrainedIdsIn
<1>5. CASE s # T
  <2>1. IsUndrained(s, j) /\ slot'[s][j].id = slot[s][j].id
    BY <1>3, <1>4, <1>5
  <2>2. IsRecord(s, j)
    BY <2>1 DEF IsUndrained
  <2> QED BY <1>1, <1>2, <1>3, <1>4, <1>5, <2>1, <2>2, EvictedAreOldest
<1>6. CASE s = T
  <2>1. CASE k = nextId
    <3>1. e < nextId
      BY <1>2, <1>3 DEF LogInv, IdsInOrder, IsUndrained
    <3> QED BY <2>1, <3>1
  <2>2. CASE k # nextId
    <3>1. IsUndrained(T, j) /\ slot[T][j].id = k
      BY <1>1, <1>3, <1>4, <1>6, <2>2
    <3>2. k \in UndrainedIdsIn(RollTarget)
      BY <1>3, <3>1 DEF UndrainedIdsIn
    <3> QED BY <1>1, <3>2
  <2> QED BY <2>1, <2>2
<1> QED BY <1>5, <1>6

\* What is undrained after an append was so before, but for the new record.
LEMMA AppendAdds ==
  ASSUME LogInv, ready, NEW rolls \in BOOLEAN, RollChoice(rolls),
         NEW h \in {"blank", "torn", "valid"}, NEW g \in Nat, NEW b \in {"blank", "torn", "record"},
         AppendOnFlash(rolls, h, g, b), NEW T, T = TargetSector(rolls)
  PROVE  /\ \A s \in Sector, i \in Slot : s # T /\ IsUndrained(s, i)' =>
              IsUndrained(s, i) /\ slot'[s][i].id = slot[s][i].id
         /\ \A i \in Slot : rolls /\ IsUndrained(T, i)' =>
              \/ slot'[T][i].id = nextId
              \/ IsUndrained(T, i) /\ slot'[T][i].id = slot[T][i].id
<1>1. PICK o : o = TargetOffset(rolls)
  OBVIOUS
<1>2. Wrote(T, o, rolls, h, g, b)
  BY <1>1, AppendWrites
<1>3. /\ \A s \in Sector, i \in Slot :
              IsUndrained(s, i)' <=> IF s = T /\ (i = o \/ rolls) THEN i = o /\ b = "record"
                                     ELSE IsUndrained(s, i)
      /\ \A s \in Sector, i \in Slot :
              slot'[s][i].id = IF s = T /\ i = o /\ b = "record" THEN nextId
                               ELSE IF s = T /\ (i = o \/ rolls) THEN 0 ELSE slot[s][i].id
  BY <1>1, <1>2, WrittenRecords
<1>4. T \in Sector
  BY <1>1, TargetIs
<1> QED BY <1>1, <1>3, <1>4

LEMMA StepEvictsOldest ==
  ASSUME LogInv, Premises, [Next]_vars, NEW e \in evicted' \ evicted, NEW k \in Stored' \ evicted'
  PROVE  e < k
<1>1. LogInv'
  BY NextKeeps
<1>2. CASE LogAppend \/ RecordWriteFails
  <2>1. PICK rolls \in BOOLEAN, h \in {"blank", "torn", "valid"}, b \in {"blank", "torn", "record"} :
          /\ RollChoice(rolls) /\ AppendOnFlash(rolls, h, nextGeneration, b)
          /\ evicted' = EvictedAfterRoll(rolls)
    BY <1>2 DEF LogAppend, RecordWriteFails
  <2>2. ready /\ nextGeneration \in Nat
    BY <1>2 DEF LogAppend, RecordWriteFails, LogInv, RamTypeOK
  <2>3. PICK T : T = TargetSector(rolls)
    OBVIOUS
  <2> QED BY <1>1, <2>1, <2>2, <2>3, AppendAdds, EvictionStep
<1>3. CASE RollFails
  <2>1. PICK rolls \in BOOLEAN : rolls = TRUE
    OBVIOUS
  <2>2. ready /\ RollChoice(rolls) /\ evicted' = EvictedAfterRoll(rolls)
    BY <1>3, <2>1 DEF RollFails
  <2>3. CASE UNCHANGED flash
    <3>1. \A s \in Sector, i \in Slot : /\ IsUndrained(s, i)' <=> IsUndrained(s, i)
                                        /\ slot'[s][i].id = slot[s][i].id
      BY <2>3 DEF flash, IsUndrained, IsRecord
    <3>2. PICK T : T = TargetSector(rolls)
      OBVIOUS
    <3>3. T \in Sector
      BY <2>2, <3>2, TargetIs
    <3> QED BY <1>1, <2>2, <3>1, <3>2, <3>3, EvictionStep
  <2>4. CASE \E h \in {"blank", "torn"} : AppendOnFlash(TRUE, h, 0, "blank")
    <3>1. PICK h \in {"blank", "torn", "valid"}, g \in Nat, b \in {"blank", "torn", "record"} :
            AppendOnFlash(rolls, h, g, b)
      BY <2>1, <2>4
    <3>2. PICK T : T = TargetSector(rolls)
      OBVIOUS
    <3> QED BY <1>1, <2>2, <3>1, <3>2, AppendAdds, EvictionStep
  <2> QED BY <1>3, <2>3, <2>4 DEF RollFails
<1>4. CASE AppendCut
  <2>1. PICK rolls \in BOOLEAN :
          /\ RollChoice(rolls) /\ evicted' = EvictedAfterRoll(rolls)
          /\ \/ \E h \in {"blank", "torn", "valid"}, g \in Nat, b \in {"blank", "torn", "record"} :
                  AppendOnFlash(rolls, h, g, b)
             \/ rolls /\ \E c \in Offset : EraseCut(c)
    BY <1>4, AppendCutIs
  <2>2. ready
    BY <1>4, AppendCutIs
  <2>3. CASE \E h \in {"blank", "torn", "valid"}, g \in Nat, b \in {"blank", "torn", "record"} :
               AppendOnFlash(rolls, h, g, b)
    <3>1. PICK T : T = TargetSector(rolls)
      OBVIOUS
    <3> QED BY <1>1, <2>1, <2>2, <2>3, <3>1, AppendAdds, EvictionStep
  <2>4. CASE rolls /\ \E c \in Offset : EraseCut(c)
    <3>1. PICK c \in Offset : EraseCut(c)
      BY <2>4
    <3>2. PICK T \in Sector : T = RollTarget /\ T = TargetSector(rolls)
      BY <2>4, RollTargetIs DEF TargetSector
    <3>3. /\ \A s \in Sector : s # T => slot'[s] = slot[s]
          /\ \A i \in Slot : slot'[T][i] = IF i < c THEN slot[T][i] ELSE TornCell
      BY <3>1, <3>2, EraseCutIs
    <3>4. \A s \in Sector, i \in Slot : IsUndrained(s, i)' =>
            IsUndrained(s, i) /\ slot'[s][i].id = slot[s][i].id
      <4>1. TornCell.body # "record"
        BY DEF TornCell
      <4> QED BY <3>3, <4>1 DEF IsUndrained, IsRecord
    <3> QED BY <1>1, <2>1, <2>2, <3>2, <3>4, EvictionStep
  <2> QED BY <2>1, <2>3, <2>4
<1>5. CASE ~ (LogAppend \/ RecordWriteFails \/ RollFails \/ AppendCut)
  <2>1. evicted' = evicted
    BY <1>5 DEF Next, PeekPending, MarkDrained, MarkCut, BootFresh, BootResume, BootCut, PowerLoss,
                vars, hist
  <2> QED BY <2>1
<1> QED BY <1>2, <1>3, <1>4, <1>5

\* EvictsOldest: what a step evicts is older than everything that stays stored.
THEOREM EvictionTakesTheOldest ==
  ASSUME Premises
  PROVE  Spec => EvictsOldest
<1>1. LogInv /\ [Next]_vars =>
        [\A e \in evicted' \ evicted, k \in Stored' \ evicted' : e < k]_vars
  BY StepEvictsOldest
<1> QED BY <1>1, LogInvariant, PTL DEF Spec, EvictsOldest

-----------------------------------------------------------------------------
(* Sorted sequences of numbers.                                             *)

Sorts(q, S) ==
  /\ q \in Seq(Nat)
  /\ \A i, j \in 1 .. Len(q) : i < j => q[i] < q[j]
  /\ S = {q[i] : i \in 1 .. Len(q)}

UpTo(S, k) == {m \in S : m <= k}
InOrder(S) == [i \in 1 .. Cardinality(S) |-> CHOOSE k \in S : Cardinality(UpTo(S, k)) = i]

LEMMA UpToIs ==
  ASSUME NEW S \in SUBSET Nat, IsFiniteSet(S), NEW k \in S
  PROVE  /\ Cardinality(UpTo(S, k)) \in 1 .. Cardinality(S)
         /\ \A m \in S : m < k => Cardinality(UpTo(S, m)) < Cardinality(UpTo(S, k))
<1>1. ASSUME NEW m \in S
      PROVE  /\ UpTo(S, m) \in SUBSET S /\ IsFiniteSet(UpTo(S, m)) /\ Cardinality(UpTo(S, m)) \in Nat
             /\ Cardinality(UpTo(S, m)) <= Cardinality(S) /\ m \in UpTo(S, m)
  <2>1. UpTo(S, m) \in SUBSET S /\ m \in UpTo(S, m)
    BY DEF UpTo
  <2> QED BY <2>1, FS_Subset, FS_CardinalityType
<1>2. Cardinality(UpTo(S, k)) # 0 /\ Cardinality(S) \in Nat
  BY <1>1, FS_EmptySet, FS_CardinalityType
<1>3. ASSUME NEW m \in S, m < k PROVE Cardinality(UpTo(S, m)) < Cardinality(UpTo(S, k))
  <2>1. UpTo(S, m) \in SUBSET UpTo(S, k) /\ k \notin UpTo(S, m)
    <3>1. m \in Nat /\ k \in Nat /\ \A x \in S : x \in Nat
      OBVIOUS
    <3>2. \A x \in S : x <= m => x <= k
      BY <1>3, <3>1
    <3>3. ~ (k <= m)
      BY <1>3, <3>1
    <3> QED BY <3>2, <3>3 DEF UpTo
  <2>2. /\ Cardinality(UpTo(S, m)) <= Cardinality(UpTo(S, k))
        /\ Cardinality(UpTo(S, m)) # Cardinality(UpTo(S, k))
    BY <1>1, <2>1, FS_Subset
  <2> QED BY <1>1, <2>2
<1> QED BY <1>1, <1>2, <1>3

\* A set of numbers has one sorted sequence.
LEMMA SortsIs ==
  ASSUME NEW S \in SUBSET Nat, NEW q, Sorts(q, S)
  PROVE  q = InOrder(S) /\ Len(q) = Cardinality(S)
<1> DEFINE n == Len(q)
<1>1. n \in Nat /\ q \in [1 .. n -> Nat] /\ S = {q[i] : i \in 1 .. n}
      /\ \A i, j \in 1 .. n : i < j => q[i] < q[j]
  <2>1. q \in Seq(Nat)
    BY DEF Sorts
  <2>2. n \in Nat /\ q \in [1 .. n -> Nat]
    BY <2>1, LenProperties
  <2> QED BY <2>2 DEF Sorts
<1> HIDE DEF n
<1>2. ASSUME NEW i \in 0 .. n
      PROVE  Cardinality({q[j] : j \in 1 .. i}) = i
  <2> DEFINE f == [j \in 1 .. i |-> q[j]]
             U == {q[j] : j \in 1 .. i}
  <2>1. \A j, k \in 1 .. i : q[j] = q[k] => j = k
    <3> SUFFICES ASSUME NEW j \in 1 .. i, NEW k \in 1 .. i, j # k PROVE q[j] # q[k]
      OBVIOUS
    <3>1. j \in 1 .. n /\ k \in 1 .. n /\ q[j] \in Nat /\ q[k] \in Nat /\ (j < k \/ k < j)
      BY <1>1
    <3> QED BY <1>1, <3>1
  <2>2. f \in Surjection(1 .. i, U) /\ f \in Injection(1 .. i, U)
    BY <2>1 DEF Surjection, Injection, IsInjective
  <2>3. i \in Nat /\ IsFiniteSet(1 .. i) /\ Cardinality(1 .. i) = i
    <3>1. i \in Nat /\ i \in Int /\ 1 \in Int
      BY <1>1
    <3>2. IsFiniteSet(1 .. i) /\ Cardinality(1 .. i) = IF 1 > i THEN 0 ELSE i - 1 + 1
      BY <3>1, FS_Interval
    <3> QED BY <3>1, <3>2
  <2> HIDE DEF f, U
  <2>4. Cardinality(U) = Cardinality(1 .. i)
    BY <2>2, <2>3, FS_Surjection
  <2> QED BY <2>3, <2>4 DEF U
<1>3. Cardinality(S) = n
  BY <1>1, <1>2
<1>4. ASSUME NEW i \in 1 .. n PROVE Cardinality(UpTo(S, q[i])) = i
  <2>1. ASSUME NEW j \in 1 .. n PROVE q[j] <= q[i] <=> j <= i
    <3>1. q[j] \in Nat /\ q[i] \in Nat /\ (j < i \/ j = i \/ i < j)
      BY <1>1
    <3> QED BY <1>1, <3>1
  <2>2. UpTo(S, q[i]) = {q[j] : j \in 1 .. i}
    <3>1. UpTo(S, q[i]) \subseteq {q[j] : j \in 1 .. i}
      <4> SUFFICES ASSUME NEW m \in UpTo(S, q[i]) PROVE \E j \in 1 .. i : m = q[j]
        OBVIOUS
      <4>1. PICK j \in 1 .. n : m = q[j] /\ q[j] <= q[i]
        BY <1>1 DEF UpTo
      <4> QED BY <2>1, <4>1
    <3>2. ASSUME NEW j \in 1 .. i PROVE q[j] \in UpTo(S, q[i])
      <4>1. j \in 1 .. n /\ j <= i
        BY <1>1
      <4> QED BY <1>1, <2>1, <4>1 DEF UpTo
    <3> QED BY <3>1, <3>2
  <2>3. i \in 0 .. n
    BY <1>1
  <2> QED BY <1>2, <2>2, <2>3
<1>5. ASSUME NEW i \in 1 .. n PROVE (CHOOSE k \in S : Cardinality(UpTo(S, k)) = i) = q[i]
  <2>1. ASSUME NEW k \in S, Cardinality(UpTo(S, k)) = i PROVE k = q[i]
    <3>1. PICK j \in 1 .. n : k = q[j]
      BY <1>1
    <3> QED BY <1>4, <2>1, <3>1
  <2> QED BY <1>1, <1>4, <2>1
<1>6. q = [i \in 1 .. n |-> q[i]]
  BY <1>1
<1>7. InOrder(S) = [i \in 1 .. n |-> q[i]]
  BY <1>3, <1>5 DEF InOrder
<1> QED BY <1>3, <1>6, <1>7 DEF n

LEMMA InOrderSorts ==
  ASSUME NEW S \in SUBSET Nat, IsFiniteSet(S)
  PROVE  Sorts(InOrder(S), S)
<1> DEFINE n == Cardinality(S)
           r == [k \in S |-> Cardinality(UpTo(S, k))]
           q == InOrder(S)
<1>1. n \in Nat /\ IsFiniteSet(1 .. n) /\ Cardinality(1 .. n) = n
  BY FS_CardinalityType, FS_Interval
<1>2. r \in [S -> 1 .. n]
  BY UpToIs
<1>3. \A k, m \in S : k < m => r[k] < r[m]
  BY UpToIs
<1>4. \A k, m \in S : r[k] = r[m] => k = m
  <2> SUFFICES ASSUME NEW k \in S, NEW m \in S, k # m PROVE r[k] # r[m]
    OBVIOUS
  <2>1. (k < m \/ m < k) /\ r[k] \in Nat /\ r[m] \in Nat
    BY <1>2
  <2> HIDE DEF r
  <2> QED BY <1>3, <2>1
<1>5. r \in Injection(S, 1 .. n)
  BY <1>2, <1>4 DEF Injection, IsInjective
<1>6. r \in Surjection(S, 1 .. n)
  <2> HIDE DEF r
  <2> QED BY <1>1, <1>5, FS_Injection
<1>7. \A i \in 1 .. n : \E k \in S : r[k] = i
  BY <1>6 DEF Surjection
<1>8. ASSUME NEW i \in 1 .. n PROVE q[i] \in S /\ r[q[i]] = i
  <2>1. \E k \in S : Cardinality(UpTo(S, k)) = i
    BY <1>7
  <2>2. q[i] = CHOOSE k \in S : Cardinality(UpTo(S, k)) = i
    BY DEF InOrder
  <2> HIDE DEF q
  <2> QED BY <2>1, <2>2
<1>9. q = [i \in 1 .. n |-> q[i]]
  BY DEF InOrder
<1> HIDE DEF q, r
<1>10. q \in Seq(Nat) /\ Len(q) = n
  <2>1. q \in [1 .. n -> Nat]
    BY <1>8, <1>9
  <2> QED BY <1>1, <2>1
<1>11. ASSUME NEW i \in 1 .. n, NEW j \in 1 .. n, i < j PROVE q[i] < q[j]
  <2> SUFFICES ASSUME ~ (q[i] < q[j]) PROVE FALSE
    OBVIOUS
  <2>1. q[i] \in S /\ q[j] \in S /\ q[i] \in Nat /\ q[j] \in Nat /\ r[q[i]] = i /\ r[q[j]] = j
    BY <1>8
  <2>2. q[j] < q[i] \/ q[i] = q[j]
    BY <2>1
  <2> QED BY <1>3, <1>11, <2>1, <2>2
<1>12. S = {q[i] : i \in 1 .. n}
  <2>1. ASSUME NEW k \in S PROVE \E i \in 1 .. n : k = q[i]
    <3>1. r[k] \in 1 .. n /\ q[r[k]] \in S /\ r[q[r[k]]] = r[k]
      BY <1>2, <1>8
    <3> QED BY <1>4, <3>1
  <2> QED BY <1>8, <2>1
<1> QED BY <1>10, <1>11, <1>12 DEF Sorts, q

LEMMA SortsNone ==
  ASSUME NEW q, Sorts(q, {})
  PROVE  q = << >>
<1>1. q \in Seq(Nat) /\ Len(q) \in Nat /\ 1 \notin 1 .. Len(q)
  BY DEF Sorts
<1> QED BY <1>1

\* What stands in front of a sorted sequence, and what is left of it.
LEMMA Splits ==
  ASSUME NEW S \in SUBSET Nat, NEW q, Sorts(q, S), NEW E \in SUBSET S,
         \A e \in E, x \in S \ E : e < x
  PROVE  \E n \in 0 .. Len(q) :
           /\ Sorts(Promise!First(q, n), E) /\ Len(Promise!First(q, n)) = n
           /\ Sorts(Promise!Without(q, n), S \ E)
<1>1. Len(q) \in Nat /\ q \in Seq(Nat) /\ S = {q[i] : i \in 1 .. Len(q)}
      /\ (\A i, j \in 1 .. Len(q) : i < j => q[i] < q[j]) /\ \A i \in 1 .. Len(q) : q[i] \in Nat
  BY DEF Sorts
<1> DEFINE B == {i \in 1 .. Len(q) + 1 : i = Len(q) + 1 \/ q[i] \notin E}
<1>2. PICK m \in B : \A k \in B : m <= k
  <2>1. B \in SUBSET Nat /\ Len(q) + 1 \in B
    BY <1>1
  <2> HIDE DEF B
  <2> QED BY <2>1, Least
<1>3. PICK n \in 0 .. Len(q) : m = n + 1 /\ n \in Nat /\ n <= Len(q)
  BY <1>1
<1>4. ASSUME NEW i \in 1 .. Len(q) PROVE q[i] \in E <=> i <= n
  <2>1. CASE i <= n
    <3>1. i \in Nat /\ ~ (n + 1 <= i)
      BY <1>3, <2>1
    <3>2. i \notin B
      BY <1>2, <1>3, <3>1
    <3>3. i \in 1 .. Len(q) + 1
      BY <1>1
    <3> QED BY <2>1, <3>2, <3>3
  <2>2. CASE i = n + 1
    BY <1>1, <1>3, <2>2
  <2>3. CASE i > n + 1
    <3>1. n + 1 \in 1 .. Len(q) /\ q[n + 1] \notin E /\ q[n + 1] \in S /\ q[n + 1] < q[i]
      BY <1>1, <1>3, <2>3
    <3>2. q[i] \in Nat /\ q[n + 1] \in Nat
      BY <1>1, <3>1
    <3> QED BY <2>3, <3>1, <3>2
  <2> QED BY <2>1, <2>2, <2>3
<1>5. PICK p, r : p = Promise!First(q, n) /\ r = Promise!Without(q, n)
  OBVIOUS
<1>6. /\ p \in Seq(Nat) /\ Len(p) = n /\ \A i \in 1 .. n : p[i] = q[i]
      /\ r \in Seq(Nat) /\ Len(r) = Len(q) - n /\ \A i \in 1 .. Len(q) - n : r[i] = q[n + i]
  <2>1. 1 \in Int /\ n \in Int /\ \A i \in 1 .. n : q[i] \in Nat
    BY <1>1, <1>3
  <2>2. /\ SubSeq(q, 1, n) \in Seq(Nat) /\ Len(SubSeq(q, 1, n)) = IF 1 <= n THEN n - 1 + 1 ELSE 0
        /\ \A i \in 1 .. n - 1 + 1 : SubSeq(q, 1, n)[i] = q[1 + i - 1]
    BY <2>1, SubSeqProperties
  <2>3. p \in Seq(Nat) /\ Len(p) = n /\ \A i \in 1 .. n : p[i] = q[i]
    <3>1. p = SubSeq(q, 1, n)
      BY <1>5 DEF Promise!First
    <3>2. \A i \in 1 .. n : i \in 1 .. n - 1 + 1 /\ 1 + i - 1 = i
      BY <1>3
    <3> QED BY <1>3, <2>2, <3>1, <3>2
  <2>4. n + 1 \in Int /\ Len(q) \in Int /\ \A i \in n + 1 .. Len(q) : q[i] \in Nat
    BY <1>1, <1>3
  <2>5. /\ SubSeq(q, n + 1, Len(q)) \in Seq(Nat)
        /\ Len(SubSeq(q, n + 1, Len(q))) = IF n + 1 <= Len(q) THEN Len(q) - (n + 1) + 1 ELSE 0
        /\ \A i \in 1 .. Len(q) - (n + 1) + 1 : SubSeq(q, n + 1, Len(q))[i] = q[(n + 1) + i - 1]
    BY <2>4, SubSeqProperties
  <2>6. r \in Seq(Nat) /\ Len(r) = Len(q) - n /\ \A i \in 1 .. Len(q) - n : r[i] = q[n + i]
    <3>1. r = SubSeq(q, n + 1, Len(q))
      BY <1>5 DEF Promise!Without
    <3>2. \A i \in 1 .. Len(q) - n : i \in 1 .. Len(q) - (n + 1) + 1 /\ (n + 1) + i - 1 = n + i
      BY <1>1, <1>3
    <3>3. Len(SubSeq(q, n + 1, Len(q))) = Len(q) - n
      BY <1>1, <1>3, <2>5
    <3> QED BY <2>5, <3>1, <3>2, <3>3
  <2> QED BY <2>3, <2>6
<1>7. Sorts(p, E)
  <2>0. \A i \in 1 .. n : i \in 1 .. Len(q) /\ i <= n
    BY <1>1, <1>3
  <2>1. \A i, j \in 1 .. n : i < j => p[i] < p[j]
    BY <1>1, <1>6, <2>0
  <2>2. ASSUME NEW e \in E PROVE \E i \in 1 .. n : e = p[i]
    <3>1. PICK i \in 1 .. Len(q) : e = q[i] /\ i <= n
      BY <1>1, <1>4
    <3>2. i \in 1 .. n
      BY <1>3, <3>1
    <3> QED BY <1>6, <3>1, <3>2
  <2>3. ASSUME NEW i \in 1 .. n PROVE p[i] \in E
    <3>1. q[i] \in E
      BY <1>4, <2>0
    <3> QED BY <1>6, <3>1
  <2>4. E = {p[i] : i \in 1 .. n}
    BY <2>2, <2>3
  <2> QED BY <1>6, <2>1, <2>4 DEF Sorts
<1>8. Sorts(r, S \ E)
  <2> DEFINE D == 1 .. Len(q) - n
  <2>1. \A i \in D : n + i \in 1 .. Len(q) /\ ~ (n + i <= n) /\ i \in Nat
    BY <1>1, <1>3
  <2>2. ASSUME NEW i \in D, NEW j \in D, i < j PROVE r[i] < r[j]
    <3>1. n + i < n + j
      BY <1>3, <2>1, <2>2
    <3> QED BY <1>1, <1>6, <2>1, <3>1
  <2>3. ASSUME NEW x \in S \ E PROVE \E i \in D : x = r[i]
    <3>1. PICK i \in 1 .. Len(q) : x = q[i] /\ ~ (i <= n)
      BY <1>1, <1>4
    <3>2. i - n \in D /\ n + (i - n) = i
      BY <1>1, <1>3, <3>1
    <3> QED BY <1>6, <3>1, <3>2
  <2>4. \A i \in D : r[i] \in S \ E
    BY ZenonT(40), <1>1, <1>4, <1>6, <2>1
  <2> QED BY <1>6, <2>2, <2>3, <2>4, ZenonT(40) DEF Sorts
<1> QED BY <1>5, <1>6, <1>7, <1>8

\* A younger capture goes behind the others.
LEMMA SortsMore ==
  ASSUME NEW q, NEW S \in SUBSET Nat, Sorts(q, S), NEW c \in Nat, \A x \in S : x < c
  PROVE  Sorts(Append(q, c), S \cup {c})
<1>1. Len(q) \in Nat /\ q \in Seq(Nat) /\ S = {q[i] : i \in 1 .. Len(q)}
      /\ (\A i, j \in 1 .. Len(q) : i < j => q[i] < q[j])
  BY DEF Sorts
<1>2. PICK r : r = Append(q, c)
  OBVIOUS
<1>3. /\ r \in Seq(Nat) /\ Len(r) = Len(q) + 1 /\ r[Len(q) + 1] = c
      /\ \A i \in 1 .. Len(q) : r[i] = q[i]
  BY <1>1, <1>2
<1>4. \A i \in 1 .. Len(r) : i \in 1 .. Len(q) \/ i = Len(q) + 1
  BY <1>1, <1>3
<1>5. ASSUME NEW i \in 1 .. Len(r), NEW j \in 1 .. Len(r), i < j PROVE r[i] < r[j]
  <2>1. i \in 1 .. Len(q)
    BY <1>1, <1>3, <1>5
  <2>2. q[i] \in S
    BY <1>1, <2>1
  <2> QED BY <1>1, <1>3, <1>4, <1>5, <2>1, <2>2
<1>6. ASSUME NEW x \in S \cup {c} PROVE \E i \in 1 .. Len(r) : x = r[i]
  <2>1. CASE x = c
    <3>1. Len(q) + 1 \in 1 .. Len(r)
      BY <1>1, <1>3
    <3> QED BY <1>3, <2>1, <3>1
  <2>2. CASE x \in S
    <3>1. PICK i \in 1 .. Len(q) : x = q[i]
      BY <1>1, <2>2
    <3>2. i \in 1 .. Len(r)
      BY <1>1, <1>3
    <3> QED BY <1>3, <3>1, <3>2
  <2> QED BY <2>1, <2>2
<1>7. \A i \in 1 .. Len(r) : r[i] \in S \cup {c}
  BY <1>1, <1>3, <1>4
<1> QED BY <1>2, <1>3, <1>5, <1>6, <1>7 DEF Sorts

LEMMA SortsBoth ==
  ASSUME NEW p, NEW A \in SUBSET Nat, Sorts(p, A), NEW q, NEW B \in SUBSET Nat, Sorts(q, B),
         \A a \in A, b \in B : a < b
  PROVE  Sorts(p \o q, A \cup B)
<1>1. /\ Len(p) \in Nat /\ p \in Seq(Nat) /\ A = {p[i] : i \in 1 .. Len(p)}
      /\ \A i, j \in 1 .. Len(p) : i < j => p[i] < p[j]
      /\ Len(q) \in Nat /\ q \in Seq(Nat) /\ B = {q[i] : i \in 1 .. Len(q)}
      /\ \A i, j \in 1 .. Len(q) : i < j => q[i] < q[j]
  <2>1. /\ Len(p) \in Nat /\ p \in Seq(Nat) /\ A = {p[i] : i \in 1 .. Len(p)}
        /\ \A i, j \in 1 .. Len(p) : i < j => p[i] < p[j]
    BY DEF Sorts
  <2>2. /\ Len(q) \in Nat /\ q \in Seq(Nat) /\ B = {q[i] : i \in 1 .. Len(q)}
        /\ \A i, j \in 1 .. Len(q) : i < j => q[i] < q[j]
    BY DEF Sorts
  <2> QED BY <2>1, <2>2
<1>2. PICK r, m : r = p \o q /\ m = Len(p)
  OBVIOUS
<1>3. /\ r \in Seq(Nat) /\ Len(r) = m + Len(q)
      /\ \A i \in 1 .. m : r[i] = p[i]
      /\ \A i \in 1 .. Len(q) : r[m + i] = q[i]
  BY <1>1, <1>2
<1>4. ASSUME NEW i \in 1 .. Len(r), i \notin 1 .. m
      PROVE  \E k \in 1 .. Len(q) : i = m + k
  <2>1. i - m \in 1 .. Len(q) /\ i = m + (i - m)
    BY <1>1, <1>2, <1>3, <1>4
  <2> QED BY <2>1
<1>5. ASSUME NEW i \in 1 .. Len(r), NEW j \in 1 .. Len(r), i < j PROVE r[i] < r[j]
  <2>1. CASE j \in 1 .. m
    <3>1. i \in 1 .. m
      BY <1>1, <1>2, <1>5, <2>1
    <3> QED BY <1>1, <1>2, <1>3, <1>5, <2>1, <3>1
  <2>2. CASE j \notin 1 .. m
    <3>1. PICK k \in 1 .. Len(q) : j = m + k
      BY <1>4, <2>2
    <3>2. CASE i \in 1 .. m
      <4>1. p[i] \in A /\ q[k] \in B /\ r[i] = p[i] /\ r[j] = q[k]
        BY <1>1, <1>2, <1>3, <3>1, <3>2
      <4> QED BY <4>1
    <3>3. CASE i \notin 1 .. m
      <4>1. PICK l \in 1 .. Len(q) : i = m + l
        BY <1>4, <3>3
      <4>2. l < k
        BY <1>1, <1>2, <1>5, <3>1, <4>1
      <4> QED BY <1>1, <1>3, <3>1, <4>1, <4>2
    <3> QED BY <3>2, <3>3
  <2> QED BY <2>1, <2>2
<1>6. ASSUME NEW x \in A \cup B PROVE \E i \in 1 .. Len(r) : x = r[i]
  <2>1. CASE x \in A
    <3>1. PICK i \in 1 .. m : x = p[i]
      BY <1>1, <1>2, <2>1
    <3>2. i \in 1 .. Len(r)
      BY <1>1, <1>2, <1>3
    <3> QED BY <1>3, <3>1, <3>2
  <2>2. CASE x \in B
    <3>1. PICK i \in 1 .. Len(q) : x = q[i]
      BY <1>1, <2>2
    <3>2. m + i \in 1 .. Len(r)
      BY <1>1, <1>2, <1>3
    <3> QED BY <1>3, <3>1, <3>2
  <2> QED BY <2>1, <2>2
<1>7. ASSUME NEW i \in 1 .. Len(r) PROVE r[i] \in A \cup B
  <2>1. CASE i \in 1 .. m
    BY <1>1, <1>2, <1>3, <2>1
  <2>2. CASE i \notin 1 .. m
    <3>1. PICK k \in 1 .. Len(q) : i = m + k
      BY <1>4, <2>2
    <3>2. r[i] = q[k] /\ q[k] \in B
      BY <1>1, <1>3, <3>1
    <3> QED BY <3>2
  <2> QED BY <2>1, <2>2
<1>8. A \cup B = {r[i] : i \in 1 .. Len(r)}
  BY <1>6, <1>7
<1>9. Sorts(r, A \cup B)
  BY <1>3, <1>5, <1>8 DEF Sorts
<1> QED BY <1>2, <1>9

-----------------------------------------------------------------------------
(* The stored captures, in the order they were taken.                       *)

LEMMA StoredSorted ==
  ASSUME LogInv
  PROVE  /\ Stored \in SUBSET Nat /\ IsFiniteSet(Stored)
         /\ \A k \in Stored : k < nextId
         /\ Sorts(StoredInOrder, Stored)
<1>1. ASSUME NEW k \in Stored PROVE k \in Nat /\ k < nextId
  <2>1. PICK s \in Sector, i \in Slot : IsUndrained(s, i) /\ slot[s][i].id = k
    BY StoredIs
  <2>2. slot[s][i].id < nextId
    BY <2>1 DEF LogInv, IdsInOrder, IsUndrained
  <2>3. slot[s][i].id \in Nat
    BY DEF LogInv, FlashTypeOK, Cell
  <2> QED BY <2>1, <2>2, <2>3
<1>2. nextId \in Nat
  BY DEF LogInv, RamTypeOK
<1>3. Stored \in SUBSET (0 .. nextId)
  BY <1>1, <1>2
<1>4. IsFiniteSet(0 .. nextId)
  BY <1>2, FS_Interval
<1>5. IsFiniteSet(Stored) /\ Stored \in SUBSET Nat
  BY <1>1, <1>3, <1>4, FS_Subset
<1>6. StoredInOrder = InOrder(Stored)
  BY DEF StoredInOrder, InOrder, UpTo
<1> QED BY <1>1, <1>5, <1>6, InOrderSorts

LEMMA StoredSortedThen ==
  ASSUME NEW S \in SUBSET Nat, Stored' = S, NEW q, Sorts(q, S)
  PROVE  StoredInOrder' = q
<1>1. StoredInOrder' = InOrder(S)
  BY DEF StoredInOrder, InOrder, UpTo
<1> QED BY <1>1, SortsIs

\* The walk passes the captures in the order they were taken.
LEMMA WalkIds ==
  ASSUME LogInv, ready, NEW x \in Live, NEW y \in Live,
         Before(oldest, At(x[1], x[2]), At(y[1], y[2]))
  PROVE  slot[x[1]][x[2]].id < slot[y[1]][y[2]].id
<1>1. PICK a \in Sector, z \in Sector, w \in Sector :
        IsArc(a, z) /\ z = activeSector /\ w = oldest.sector
  BY ActiveIsNewest DEF LogInv, RamTypeOK, Position
<1>2. PICK s \in Sector, i \in Slot, t \in Sector, j \in Slot :
        s = x[1] /\ i = x[2] /\ t = y[1] /\ j = y[2]
  BY LiveIs
<1>3. IsRecord(s, i) /\ IsRecord(t, j)
  BY <1>2 DEF Live, Und, IsUndrained
<1>4. s \in Occupied /\ t \in Occupied
  BY <1>3 DEF LogInv, RecordsInOrder, Occupied
<1>5. Dist(w, s) <= Dist(w, z) /\ Dist(w, t) <= Dist(w, z)
  BY <1>1, <1>2 DEF LogInv, WalkOK, OnWalk
<1>6. Dist(w, s) < Dist(w, t) \/ (s = t /\ i < j)
  BY <1>1, <1>2 DEF Before, At
<1>7. CASE Dist(w, s) < Dist(w, t)
  <2>1. Dist(s, z) = Dist(w, z) - Dist(w, s) /\ Dist(t, z) = Dist(w, z) - Dist(w, t)
    BY <1>5, DistSplits
  <2>2. Dist(a, s) <= Dist(a, z) /\ Dist(a, t) <= Dist(a, z)
    BY <1>1, <1>4 DEF IsArc
  <2>3. Dist(s, z) = Dist(a, z) - Dist(a, s) /\ Dist(t, z) = Dist(a, z) - Dist(a, t)
    BY <2>2, DistSplits
  <2>4. /\ Dist(w, s) \in Nat /\ Dist(w, t) \in Nat /\ Dist(w, z) \in Nat
        /\ Dist(a, s) \in Nat /\ Dist(a, t) \in Nat /\ Dist(a, z) \in Nat
    BY DistIs, SectorIs
  <2>5. Dist(a, s) < Dist(a, t)
    BY <1>7, <2>1, <2>3, <2>4
  <2>6. gen[s] < gen[t]
    BY <1>1, <1>4, <2>5 DEF IsArc
  <2> QED BY <1>2, <1>3, <2>6 DEF LogInv, IdsInOrder, Precedes
<1>8. CASE s = t /\ i < j
  BY <1>2, <1>3, <1>8 DEF LogInv, IdsInOrder, Precedes
<1> QED BY <1>6, <1>7, <1>8

\* No two counted records hold the same capture.
LEMMA IdsDiffer ==
  ASSUME LogInv, ready, NEW x \in Live, NEW y \in Live, slot[x[1]][x[2]].id = slot[y[1]][y[2]].id
  PROVE  x = y
<1>1. PICK w \in Sector : w = oldest.sector
  BY DEF LogInv, RamTypeOK, Position
<1>2. /\ x[1] \in Sector /\ x[2] \in Slot /\ y[1] \in Sector /\ y[2] \in Slot
      /\ x = <<x[1], x[2]>> /\ y = <<y[1], y[2]>>
  BY LiveIs
<1>3. slot[x[1]][x[2]].id \in Nat
  BY <1>2 DEF LogInv, FlashTypeOK, Cell
<1>4. ~ Before(oldest, At(x[1], x[2]), At(y[1], y[2])) /\ ~ Before(oldest, At(y[1], y[2]), At(x[1], x[2]))
  BY <1>3, WalkIds
<1>5. /\ ~ (Dist(w, x[1]) < Dist(w, y[1])) /\ ~ (Dist(w, y[1]) < Dist(w, x[1]))
      /\ x[1] = y[1] => ~ (x[2] < y[2]) /\ ~ (y[2] < x[2])
  BY <1>1, <1>4 DEF Before, At
<1>6. Dist(w, x[1]) \in Nat /\ Dist(w, y[1]) \in Nat /\ x[2] \in Nat /\ y[2] \in Nat
  BY <1>2, DistIs, SectorIs DEF Slot
<1>7. Dist(w, x[1]) = Dist(w, y[1])
  BY <1>5, <1>6
<1>8. x[1] = y[1]
  BY <1>2, <1>7, DistIs
<1>9. x[2] = y[2]
  BY <1>5, <1>6, <1>8
<1> QED BY <1>2, <1>8, <1>9

LEMMA PendingIsLength ==
  ASSUME LogInv, ready, "append_error" \notin Faults
  PROVE  Len(StoredInOrder) = pendingCount
<1> DEFINE f == [x \in Live |-> slot[x[1]][x[2]].id]
<1>1. ASSUME NEW x \in Live PROVE slot[x[1]][x[2]].id \in Stored
  <2>1. x[1] \in Sector /\ x[2] \in Slot /\ IsUndrained(x[1], x[2])
    BY LiveIs DEF Live, Und
  <2> QED BY <2>1, StoredIs
<1>2. ASSUME NEW k \in Stored PROVE \E x \in Live : slot[x[1]][x[2]].id = k
  <2>1. PICK s \in Sector, i \in Slot : IsUndrained(s, i) /\ slot[s][i].id = k
    BY StoredIs
  <2>2. <<s, i>> \in Live
    BY <2>1, AllCounted
  <2> QED BY <2>1, <2>2
<1>3. f \in Surjection(Live, Stored) /\ f \in Injection(Live, Stored)
  BY <1>1, <1>2, IdsDiffer DEF Injection, Surjection, IsInjective
<1>4. IsFiniteSet(Live)
  BY LiveIs, CellSetIs
<1> HIDE DEF f
<1>5. Cardinality(Stored) = Cardinality(Live)
  BY <1>3, <1>4, FS_Surjection
<1>6. Len(StoredInOrder) = Cardinality(Stored)
  BY StoredSorted, SortsIs
<1> QED BY <1>5, <1>6 DEF LogInv, CountsOK

\* b holds the captures of the n records ps, the first counted ones of the walk.
Holds(b, ps, n) ==
  /\ \A j \in 1 .. n : ps[j] \in Position /\ ps[j].offset \in Slot
  /\ Taken(ps, n)
  /\ b \in Seq(Nat) /\ Len(b) = n
  /\ \A j \in 1 .. n : b[j] = slot[ps[j].sector][ps[j].offset].id

\* A batch the walk took is the front of the queue.
LEMMA FirstOfQueue ==
  ASSUME LogInv, ready, "append_error" \notin Faults, NEW n \in Nat, NEW ps, NEW b, Holds(b, ps, n),
         NEW q, q = StoredInOrder, NEW E, E = Promise!ElementsOf(b)
  PROVE  /\ n \in 0 .. Len(q) /\ Promise!First(q, n) = b
         /\ E \in SUBSET Stored /\ Sorts(Promise!Without(q, n), Stored \ E)
<1>0. /\ \A j \in 1 .. n : ps[j] \in Position /\ ps[j].offset \in Slot
      /\ Taken(ps, n)
      /\ b \in Seq(Nat) /\ Len(b) = n
      /\ \A j \in 1 .. n : b[j] = slot[ps[j].sector][ps[j].offset].id
  BY DEF Holds
<1>20. E = {b[j] : j \in 1 .. n}
  BY <1>0 DEF Promise!ElementsOf
<1>1. ASSUME NEW j \in 1 .. n
      PROVE  /\ <<ps[j].sector, ps[j].offset>> \in Live /\ ps[j].sector \in Sector
             /\ ps[j] = At(ps[j].sector, ps[j].offset) /\ b[j] \in Nat /\ b[j] \in Stored
  <2>1. ps[j].sector \in Sector /\ ps[j].offset \in Slot /\ ps[j] = At(ps[j].sector, ps[j].offset)
    BY <1>0 DEF Position, At
  <2>2. <<ps[j].sector, ps[j].offset>> \in Live /\ b[j] = slot[ps[j].sector][ps[j].offset].id
    BY <1>0 DEF Taken
  <2>3. IsUndrained(ps[j].sector, ps[j].offset)
    BY <2>2 DEF Live, Und
  <2>4. b[j] \in Stored
    BY <2>1, <2>2, <2>3, StoredIs
  <2> QED BY <1>0, <2>1, <2>2, <2>4
<1>2. ASSUME NEW i \in 1 .. n, NEW j \in 1 .. n, i < j PROVE b[i] < b[j]
  <2>1. PICK x \in Live, y \in Live : x = <<ps[i].sector, ps[i].offset>> /\ y = <<ps[j].sector, ps[j].offset>>
    BY <1>1
  <2>2. Before(oldest, ps[i], ps[j])
    BY <1>0, <1>2 DEF Taken
  <2>3. Before(oldest, At(x[1], x[2]), At(y[1], y[2]))
    BY <1>1, <2>1, <2>2
  <2>4. slot[x[1]][x[2]].id < slot[y[1]][y[2]].id
    BY <2>3, WalkIds
  <2> QED BY <1>0, <2>1, <2>4
<1>3. Sorts(b, E)
  BY <1>0, <1>2, <1>20 DEF Sorts
<1>4. E \in SUBSET Stored
  BY <1>1, <1>20
<1>5. ASSUME NEW e \in E, NEW k \in Stored \ E PROVE e < k
  <2>1. PICK i \in 1 .. n : e = b[i]
    BY <1>20
  <2>2. PICK s \in Sector, o \in Slot : IsUndrained(s, o) /\ slot[s][o].id = k
    BY StoredIs
  <2>3. PICK y \in Live : y = <<s, o>>
    BY <2>2, AllCounted
  <2>4. \A j \in 1 .. n : ps[j] # At(s, o)
    <3> SUFFICES ASSUME NEW j \in 1 .. n, ps[j] = At(s, o) PROVE FALSE
      OBVIOUS
    <3>1. ps[j].sector = s /\ ps[j].offset = o
      BY DEF At
    <3>2. b[j] = k
      BY <1>0, <2>2, <3>1
    <3> QED BY <1>20, <3>2
  <2>5. Before(oldest, ps[i], At(y[1], y[2]))
    BY <1>0, <2>3, <2>4 DEF Taken
  <2>6. PICK x \in Live : x = <<ps[i].sector, ps[i].offset>> /\ At(x[1], x[2]) = ps[i]
    BY <1>1
  <2>7. slot[x[1]][x[2]].id < slot[y[1]][y[2]].id
    BY <2>5, <2>6, WalkIds
  <2> QED BY <1>0, <2>1, <2>2, <2>3, <2>6, <2>7
<1>6. Stored \in SUBSET Nat /\ Sorts(q, Stored)
  BY StoredSorted
<1>7. PICK m \in 0 .. Len(q) :
        /\ Sorts(Promise!First(q, m), E) /\ Len(Promise!First(q, m)) = m
        /\ Sorts(Promise!Without(q, m), Stored \ E)
  BY <1>4, <1>5, <1>6, Splits
<1>8. E \in SUBSET Nat
  BY <1>4, <1>6
<1>9. Promise!First(q, m) = b
  <2>1. PICK p : p = Promise!First(q, m)
    OBVIOUS
  <2>2. b = InOrder(E) /\ p = InOrder(E)
    BY <1>3, <1>7, <1>8, <2>1, SortsIs
  <2> QED BY <2>1, <2>2
<1>10. m = n
  BY <1>0, <1>7, <1>9
<1> QED BY <1>4, <1>7, <1>9, <1>10

-----------------------------------------------------------------------------
(* Appends.                                                                 *)

\* The captures that a roll gives up.
GivenBy(rolls) == IF Evicts(rolls) THEN UndrainedIdsIn(RollTarget) ELSE {}

LEMMA GivenIs ==
  ASSUME LogInv, ready, Faults = {}, NEW rolls \in BOOLEAN, MayEvict(rolls),
         NEW E, E = GivenBy(rolls)
  PROVE  /\ E \in SUBSET Stored /\ EvictedAfterRoll(rolls) = evicted \cup E
         /\ \A e \in E, k \in Stored \ E : e < k
         /\ E # {} => batch = << >>
         /\ \A s \in Sector, i \in Slot : IsUndrained(s, i) =>
              (slot[s][i].id \in E <=> rolls /\ s = RollTarget)
<1>1. PICK T \in Sector : T = RollTarget
  BY RollTargetIs
<1>2. "append_error" \notin Faults /\ "evict_in_flight" \notin Faults
  OBVIOUS
<1>3. \A s \in Sector, i \in Slot : slot[s][i].id \in Nat
  BY DEF LogInv, FlashTypeOK, Cell
<1>4. CASE Evicts(rolls)
  <2>1. rolls = TRUE /\ Evicts(TRUE) /\ E = UndrainedIdsIn(T)
    BY <1>1, <1>4 DEF Evicts, GivenBy
  <2>2. E \in SUBSET Stored
    <3> SUFFICES ASSUME NEW e \in E PROVE e \in Stored
      OBVIOUS
    <3>1. PICK i \in Slot : IsUndrained(T, i) /\ slot[T][i].id = e
      BY <2>1 DEF UndrainedIdsIn
    <3> QED BY <3>1, StoredIs
  <2>3. EvictedAfterRoll(rolls) = evicted \cup E
    BY <1>1, <1>4, <2>1 DEF EvictedAfterRoll
  <2>4. ASSUME NEW e \in E, NEW s \in Sector, s # T, NEW j \in Slot, IsUndrained(s, j)
        PROVE  e < slot[s][j].id
    <3>1. PICK i \in Slot : IsUndrained(T, i) /\ slot[T][i].id = e
      BY <2>1 DEF UndrainedIdsIn
    <3>2. IsRecord(s, j)
      BY <2>4 DEF IsUndrained
    <3> QED BY <1>1, <2>1, <2>4, <3>1, <3>2, EvictedAreOldest
  <2>5. \A i \in Slot : IsUndrained(T, i) => slot[T][i].id \in E
    BY <2>1 DEF UndrainedIdsIn
  <2>6. ASSUME NEW e \in E, NEW k \in Stored \ E PROVE e < k
    <3>1. PICK s \in Sector, j \in Slot : IsUndrained(s, j) /\ slot[s][j].id = k
      BY StoredIs
    <3>2. s # T
      BY <2>5, <3>1
    <3> QED BY <2>4, <3>1, <3>2
  <2>7. ASSUME NEW s \in Sector, NEW i \in Slot, IsUndrained(s, i), s # T PROVE slot[s][i].id \notin E
    <3>1. slot[s][i].id \in E => slot[s][i].id < slot[s][i].id
      BY <2>4, <2>7
    <3> QED BY <1>3, <3>1
  <2>8. batch = << >>
    <3>1. peeked = << >>
      BY <1>2, <1>4 DEF MayEvict
    <3>2. batch \in Seq(Nat) /\ Len(batch) = 0
      BY <3>1 DEF LogInv, PeekOK, RamTypeOK
    <3> QED BY <3>2
  <2> QED BY <1>1, <2>1, <2>2, <2>3, <2>5, <2>6, <2>7, <2>8
<1>5. CASE ~ Evicts(rolls)
  <2>1. E = {} /\ EvictedAfterRoll(rolls) = evicted
    BY <1>5 DEF GivenBy, EvictedAfterRoll
  <2>2. ASSUME NEW i \in Slot, rolls PROVE ~ IsUndrained(T, i)
    <3>1. ~ Evicts(TRUE)
      BY <1>5, <2>2 DEF Evicts
    <3>2. undrainedInSector[T] = 0
      BY <1>1, <3>1, QuietRoll
    <3>3. Cardinality(Und(T)) = 0
      BY <1>2, <3>2, AllCounted
    <3>4. Und(T) = {}
      BY <3>3, LiveIs, SlotSetIs
    <3> QED BY <3>4 DEF Und
  <2> QED BY <1>1, <2>1, <2>2
<1> QED BY <1>4, <1>5

LEMMA GivesUpFront ==
  ASSUME LogInv, ready, Faults = {}, NEW rolls \in BOOLEAN, MayEvict(rolls),
         NEW E, E = GivenBy(rolls), NEW q, q = StoredInOrder
  PROVE  \E n \in 0 .. Len(q) :
           /\ n > 0 => batch = << >>
           /\ Promise!ElementsOf(Promise!First(q, n)) = E
           /\ Sorts(Promise!First(q, n), E) /\ Len(Promise!First(q, n)) = n
           /\ Sorts(Promise!Without(q, n), Stored \ E)
<1>1. E \in SUBSET Stored /\ (\A e \in E, k \in Stored \ E : e < k) /\ (E # {} => batch = << >>)
  BY GivenIs
<1>2. Stored \in SUBSET Nat /\ Sorts(q, Stored)
  BY StoredSorted
<1>3. PICK n \in 0 .. Len(q) :
        /\ Sorts(Promise!First(q, n), E) /\ Len(Promise!First(q, n)) = n
        /\ Sorts(Promise!Without(q, n), Stored \ E)
  BY <1>1, <1>2, Splits
<1>4. PICK p : p = Promise!First(q, n)
  OBVIOUS
<1>5. E = {p[i] : i \in 1 .. Len(p)} /\ Len(p) = n
  BY <1>3, <1>4 DEF Sorts
<1>6. Promise!ElementsOf(p) = E
  BY <1>5 DEF Promise!ElementsOf
<1>7. n > 0 => E # {}
  <2>1. n > 0 => 1 \in 1 .. Len(p)
    BY <1>3, <1>5
  <2> QED BY <1>5, <2>1
<1> QED BY <1>1, <1>3, <1>4, <1>6, <1>7

LEMMA AppendAfter ==
  ASSUME LogInv, LogInv', ready, Faults = {}, NEW rolls \in BOOLEAN, RollChoice(rolls), MayEvict(rolls),
         NEW h \in {"blank", "torn", "valid"}, NEW g \in Nat, NEW b \in {"blank", "torn", "record"},
         AppendOnFlash(rolls, h, g, b), NEW E, E = GivenBy(rolls)
  PROVE  Stored' = (Stored \ E) \cup (IF b = "record" THEN {nextId} ELSE {})
<1>1. PICK T, o : T = TargetSector(rolls) /\ o = TargetOffset(rolls)
  OBVIOUS
<1>2. Wrote(T, o, rolls, h, g, b)
  BY <1>1, AppendWrites
<1>3. /\ \A s \in Sector, i \in Slot :
              IsUndrained(s, i)' <=> IF s = T /\ (i = o \/ rolls) THEN i = o /\ b = "record"
                                     ELSE IsUndrained(s, i)
      /\ \A s \in Sector, i \in Slot :
              slot'[s][i].id = IF s = T /\ i = o /\ b = "record" THEN nextId
                               ELSE IF s = T /\ (i = o \/ rolls) THEN 0 ELSE slot[s][i].id
      /\ ~ rolls => ~ IsRecord(T, o)
  BY <1>1, <1>2, WrittenRecords
<1>4. T \in Sector /\ o \in Slot /\ (rolls => T = RollTarget)
  BY <1>1, TargetIs
<1>5. \A s \in Sector, i \in Slot : IsUndrained(s, i) =>
         (slot[s][i].id \in E <=> rolls /\ s = RollTarget)
  BY GivenIs
<1>6. ASSUME NEW s \in Sector, NEW i \in Slot
      PROVE  /\ IsUndrained(s, i)' => slot'[s][i].id \in (Stored \ E) \cup (IF b = "record" THEN {nextId} ELSE {})
             /\ IsUndrained(s, i) /\ slot[s][i].id \notin E =>
                  IsUndrained(s, i)' /\ slot'[s][i].id = slot[s][i].id
  <2>1. IsUndrained(s, i) /\ slot[s][i].id \notin E => ~ (s = T /\ rolls) /\ ~ (s = T /\ i = o)
    BY <1>3, <1>4, <1>5 DEF IsUndrained
  <2>2. CASE s = T /\ (i = o \/ rolls)
    BY <1>3, <2>1, <2>2
  <2>3. CASE ~ (s = T /\ (i = o \/ rolls))
    <3>1. (IsUndrained(s, i)' <=> IsUndrained(s, i)) /\ slot'[s][i].id = slot[s][i].id
      BY <1>3, <2>3
    <3>2. IsUndrained(s, i) => ~ (rolls /\ s = RollTarget)
      BY <1>4, <2>3
    <3>3. IsUndrained(s, i) => slot[s][i].id \in Stored
      BY StoredIs
    <3>4. IsUndrained(s, i) => slot[s][i].id \notin E
      BY <1>5, <3>2
    <3> QED BY <3>1, <3>3, <3>4
  <2> QED BY <2>2, <2>3
<1>7. ASSUME NEW k \in Stored' PROVE k \in (Stored \ E) \cup (IF b = "record" THEN {nextId} ELSE {})
  <2>1. PICK s \in Sector, i \in Slot : IsUndrained(s, i)' /\ slot'[s][i].id = k
    BY DEF Stored, UndrainedIdsIn
  <2> QED BY <1>6, <2>1
<1>8. ASSUME NEW k \in Stored \ E PROVE k \in Stored'
  <2>1. PICK s \in Sector, i \in Slot : IsUndrained(s, i) /\ slot[s][i].id = k
    BY StoredIs
  <2>2. IsUndrained(s, i)' /\ slot'[s][i].id = k
    BY <1>6, <2>1
  <2> QED BY <2>2, StoredIsThen
<1>9. ASSUME b = "record" PROVE nextId \in Stored'
  <2>1. IsUndrained(T, o)' /\ slot'[T][o].id = nextId
    BY <1>3, <1>4, <1>9
  <2> QED BY <1>4, <2>1, StoredIsThen
<1> QED BY <1>7, <1>8, <1>9

\* What an append that got as far as flash state h, g, b makes of the queue.
LEMMA AppendQueue ==
  ASSUME LogInv, LogInv', ready, Faults = {}, NEW rolls \in BOOLEAN, RollChoice(rolls), MayEvict(rolls),
         NEW h \in {"blank", "torn", "valid"}, NEW g \in Nat, NEW b \in {"blank", "torn", "record"},
         AppendOnFlash(rolls, h, g, b), evicted' = EvictedAfterRoll(rolls),
         nextId <= MaxAppends, NEW q, q = StoredInOrder
  PROVE  /\ nextId \in 1 .. MaxAppends /\ \A i \in 1 .. Len(q) : q[i] < nextId
         /\ \E n \in 0 .. Len(q) :
              /\ n > 0 => batch = << >>
              /\ evicted' = evicted \cup Promise!ElementsOf(Promise!First(q, n))
              /\ StoredInOrder' = IF b = "record" THEN Promise!Stored(n, nextId)
                                                  ELSE Promise!Without(q, n)
<1>1. PICK E : E = GivenBy(rolls)
  OBVIOUS
<1>2. PICK n \in 0 .. Len(q) :
        /\ n > 0 => batch = << >>
        /\ Promise!ElementsOf(Promise!First(q, n)) = E
        /\ Sorts(Promise!Without(q, n), Stored \ E)
  BY <1>1, GivesUpFront
<1>3. Stored' = (Stored \ E) \cup (IF b = "record" THEN {nextId} ELSE {})
  BY <1>1, AppendAfter
<1>4. evicted' = evicted \cup E
  BY <1>1, GivenIs
<1>5. /\ Stored \in SUBSET Nat /\ (\A k \in Stored : k < nextId) /\ Sorts(q, Stored)
      /\ nextId \in 1 .. MaxAppends /\ nextId \in Nat
  BY StoredSorted, LogAssumption, SMTT(20) DEF LogInv, RamTypeOK
<1>6. \A i \in 1 .. Len(q) : q[i] < nextId
  BY <1>5 DEF Sorts
<1>7. StoredInOrder' = IF b = "record" THEN Promise!Stored(n, nextId) ELSE Promise!Without(q, n)
  <2>1. PICK r, S : r = Promise!Without(q, n) /\ S = Stored \ E
    OBVIOUS
  <2>2. S \in SUBSET Nat /\ Sorts(r, S) /\ \A k \in S : k < nextId
    BY <1>2, <1>5, <2>1
  <2>3. CASE b = "record"
    <3>0. PICK c \in Nat : c = nextId
      BY <1>5
    <3>1. PICK A : c = nextId /\ A = S \cup {c}
      BY <3>0
    <3>2. Sorts(Append(r, c), A)
      BY <2>2, <3>1, SortsMore
    <3>3. Stored' = A /\ A \in SUBSET Nat
      BY <1>3, <2>1, <2>2, <2>3, <3>1
    <3>4. StoredInOrder' = Append(r, c)
      BY <3>2, <3>3, StoredSortedThen
    <3>5. Promise!Stored(n, nextId) = Append(r, c)
      BY <2>1, <3>1 DEF Promise!Stored
    <3> QED BY <2>3, <3>4, <3>5
  <2>4. CASE b # "record"
    <3>1. Stored' = S
      BY <1>3, <2>1, <2>4
    <3>2. StoredInOrder' = r
      BY <2>2, <3>1, StoredSortedThen
    <3> QED BY <2>1, <2>4, <3>2
  <2> QED BY <2>3, <2>4
<1> QED BY <1>2, <1>4, <1>5, <1>6, <1>7

LEMMA StoreStep ==
  ASSUME LogInv, LogInv', Faults = {}, LogAppend
  PROVE  Promise!Store
<1>1. PICK rolls \in BOOLEAN, h \in {"blank", "torn", "valid"}, b \in {"blank", "torn", "record"} :
        /\ RollChoice(rolls) /\ MayEvict(rolls) /\ AppendOnFlash(rolls, h, nextGeneration, b)
        /\ evicted' = EvictedAfterRoll(rolls) /\ b = "record"
  BY DEF LogAppend
<1>2. /\ ready /\ nextGeneration \in Nat /\ nextId <= MaxAppends /\ batch' = batch /\ drained' = drained
  BY DEF LogAppend, LogInv, RamTypeOK
<1>3. PICK q : q = StoredInOrder
  OBVIOUS
<1>4. /\ nextId \in 1 .. MaxAppends /\ \A i \in 1 .. Len(q) : q[i] < nextId
      /\ \E n \in 0 .. Len(q) :
           /\ n > 0 => batch = << >>
           /\ evicted' = evicted \cup Promise!ElementsOf(Promise!First(q, n))
           /\ StoredInOrder' = IF b = "record" THEN Promise!Stored(n, nextId)
                                               ELSE Promise!Without(q, n)
  BY <1>1, <1>2, <1>3, AppendQueue
<1>5. PICK n \in 0 .. Len(q) :
        /\ n > 0 => batch = << >>
        /\ evicted' = evicted \cup Promise!ElementsOf(Promise!First(q, n))
        /\ StoredInOrder' = Promise!Stored(n, nextId)
  BY <1>1, <1>4
<1> QED BY <1>2, <1>3, <1>4, <1>5 DEF Promise!Store

\* An erase that was cut leaves the first of the captures that were given up.
LEMMA EraseQueue ==
  ASSUME LogInv, LogInv', ready, Faults = {}, MayEvict(TRUE), NEW k \in Offset, EraseCut(k),
         evicted' = EvictedAfterRoll(TRUE), NEW q, q = StoredInOrder
  PROVE  \E n \in 0 .. Len(q) :
           /\ n > 0 => batch = << >>
           /\ evicted' = evicted \cup Promise!ElementsOf(Promise!First(q, n))
           /\ \E m \in 0 .. n : StoredInOrder' = Promise!First(q, m) \o Promise!Without(q, n)
<1>1. PICK T \in Sector : T = RollTarget
  BY RollTargetIs
<1>2. PICK rolls \in BOOLEAN : rolls = TRUE
  OBVIOUS
<1>3. PICK E : E = GivenBy(rolls)
  OBVIOUS
<1>4. /\ E \in SUBSET Stored /\ EvictedAfterRoll(rolls) = evicted \cup E
      /\ \A e \in E, x \in Stored \ E : e < x
      /\ \A s \in Sector, i \in Slot : IsUndrained(s, i) =>
           (slot[s][i].id \in E <=> rolls /\ s = RollTarget)
  BY ZenonT(40), <1>2, <1>3, GivenIs
<1>5. PICK n \in 0 .. Len(q) :
        /\ n > 0 => batch = << >>
        /\ Promise!ElementsOf(Promise!First(q, n)) = E
        /\ Sorts(Promise!First(q, n), E) /\ Len(Promise!First(q, n)) = n
        /\ Sorts(Promise!Without(q, n), Stored \ E)
  BY <1>2, <1>3, GivesUpFront
<1>6. /\ \A s \in Sector : s # T => slot'[s] = slot[s]
      /\ \A i \in Slot : slot'[T][i] = IF i < k THEN slot[T][i] ELSE TornCell
  BY <1>1, EraseCutIs
<1> DEFINE K == {slot[T][i].id : i \in {j \in Slot : j < k /\ IsUndrained(T, j)}}
<1>7. \A s \in Sector, i \in Slot :
        /\ IsUndrained(s, i)' <=> IsUndrained(s, i) /\ (s = T => i < k)
        /\ IsUndrained(s, i)' => slot'[s][i].id = slot[s][i].id
  <2>1. TornCell.body # "record"
    BY DEF TornCell
  <2> QED BY <1>6, <2>1 DEF IsUndrained, IsRecord
<1>8. \A i \in Slot : IsUndrained(T, i) => slot[T][i].id \in E
  BY <1>1, <1>2, <1>4
<1>9. K \in SUBSET E
  BY <1>8
<1>10. ASSUME NEW e \in K, NEW x \in Stored \ K PROVE e < x
  <2>1. PICK i \in Slot : i < k /\ IsUndrained(T, i) /\ e = slot[T][i].id
    OBVIOUS
  <2>2. PICK s \in Sector, j \in Slot : IsUndrained(s, j) /\ slot[s][j].id = x
    BY StoredIs
  <2>3. CASE s = T
    <3>1. ~ (j < k)
      BY <2>2, <2>3
    <3>2. i < j
      BY <2>1, <3>1, SectorIs DEF Slot, Offset
    <3> QED BY <2>1, <2>2, <2>3, <3>2 DEF LogInv, IdsInOrder, Precedes, IsUndrained
  <2>4. CASE s # T
    BY <1>1, <1>4, <1>9, <2>2, <2>4
  <2> QED BY <2>3, <2>4
<1>11. Stored' = K \cup (Stored \ E)
  <2>1. ASSUME NEW x \in Stored' PROVE x \in K \cup (Stored \ E)
    <3>1. PICK s \in Sector, i \in Slot : IsUndrained(s, i)' /\ slot'[s][i].id = x
      BY DEF Stored, UndrainedIdsIn
    <3>2. IsUndrained(s, i) /\ slot[s][i].id = x /\ (s = T => i < k)
      BY <1>7, <3>1
    <3>3. x \in Stored
      BY <3>2, StoredIs
    <3> QED BY <1>1, <1>4, <3>2, <3>3
  <2>2. ASSUME NEW x \in K PROVE x \in Stored'
    <3>1. PICK i \in Slot : i < k /\ IsUndrained(T, i) /\ x = slot[T][i].id
      OBVIOUS
    <3>2. IsUndrained(T, i)' /\ slot'[T][i].id = x
      BY <1>7, <3>1
    <3> QED BY <3>2, StoredIsThen
  <2>3. ASSUME NEW x \in Stored \ E PROVE x \in Stored'
    <3>1. PICK s \in Sector, i \in Slot : IsUndrained(s, i) /\ slot[s][i].id = x
      BY StoredIs
    <3>2. s # T
      BY <1>8, <3>1
    <3>3. IsUndrained(s, i)' /\ slot'[s][i].id = x
      BY <1>7, <3>1, <3>2
    <3> QED BY <3>3, StoredIsThen
  <2> QED BY <2>1, <2>2, <2>3
<1> HIDE DEF K
<1>12. Stored \in SUBSET Nat /\ IsFiniteSet(Stored) /\ Sorts(q, Stored)
  BY StoredSorted
<1>13. PICK m \in 0 .. Len(q) : Sorts(Promise!First(q, m), K) /\ Len(Promise!First(q, m)) = m
  <2>1. K \in SUBSET Stored
    BY <1>4, <1>9
  <2> QED BY <1>10, <1>12, <2>1, Splits
<1>14. m <= n
  <2>1. PICK p, r : p = Promise!First(q, m) /\ r = Promise!First(q, n)
    OBVIOUS
  <2>2. Sorts(p, K) /\ Len(p) = m /\ Sorts(r, E) /\ Len(r) = n
    BY <1>5, <1>13, <2>1
  <2>3. K \in SUBSET Nat /\ E \in SUBSET Nat /\ IsFiniteSet(E)
    BY <1>4, <1>9, <1>12, FS_Subset
  <2>4. Cardinality(K) = m /\ Cardinality(E) = n
    BY <2>2, <2>3, SortsIs
  <2> QED BY <1>9, <2>3, <2>4, FS_Subset
<1>15. StoredInOrder' = Promise!First(q, m) \o Promise!Without(q, n)
  <2>1. PICK p, r, S : p = Promise!First(q, m) /\ r = Promise!Without(q, n) /\ S = Stored \ E
    OBVIOUS
  <2>2. Sorts(p, K) /\ Sorts(r, S) /\ K \in SUBSET Nat /\ S \in SUBSET Nat
    BY <1>4, <1>5, <1>9, <1>12, <1>13, <2>1
  <2>3. \A a \in K, x \in S : a < x
    BY <1>4, <1>9, <2>1
  <2>4. Sorts(p \o r, K \cup S)
    BY <2>2, <2>3, SortsBoth
  <2>5. PICK A \in SUBSET Nat : A = K \cup S
    BY <2>2
  <2>6. Stored' = A
    BY <1>11, <2>1, <2>5
  <2>7. StoredInOrder' = p \o r
    BY <2>4, <2>5, <2>6, StoredSortedThen
  <2> QED BY <2>1, <2>7
<1>16. m \in 0 .. n
  BY <1>13, <1>14
<1>17. evicted' = evicted \cup Promise!ElementsOf(Promise!First(q, n))
  BY <1>2, <1>4, <1>5
<1> QED BY <1>5, <1>15, <1>16, <1>17

LEMMA AppendCutStep ==
  ASSUME LogInv, LogInv', Faults = {}, Premises, AppendCut
  PROVE  Promise!PowerLoss
<1>1. ready /\ batch' = << >> /\ drained' = drained /\ nextId <= MaxAppends
  BY AppendCutIs DEF RamAtReset
<1>2. PICK rolls \in BOOLEAN :
        /\ RollChoice(rolls) /\ MayEvict(rolls) /\ evicted' = EvictedAfterRoll(rolls)
        /\ \/ \E h \in {"blank", "torn", "valid"}, g \in Nat, b \in {"blank", "torn", "record"} :
                AppendOnFlash(rolls, h, g, b)
           \/ rolls /\ \E k \in Offset : EraseCut(k)
  BY AppendCutIs
<1>3. PICK q, c : q = StoredInOrder /\ c = nextId
  OBVIOUS
<1>4. c \in 1 .. MaxAppends /\ \A i \in 1 .. Len(q) : q[i] < c
  <2>1. Sorts(q, Stored) /\ (\A k \in Stored : k < nextId) /\ nextId \in 1 .. MaxAppends
    BY <1>1, <1>3, StoredSorted, LogAssumption DEF LogInv, RamTypeOK
  <2> QED BY <1>3, <2>1 DEF Sorts
<1>5. SUFFICES \E n \in 0 .. Len(q) :
                 /\ n > 0 => batch = << >>
                 /\ evicted' = evicted \cup Promise!ElementsOf(Promise!First(q, n))
                 /\ \/ StoredInOrder' \in {Promise!Without(q, n), Promise!Stored(n, c)}
                    \/ \E m \in 0 .. n : StoredInOrder' = Promise!First(q, m) \o Promise!Without(q, n)
  BY <1>1, <1>3, <1>4 DEF Promise!PowerLoss
<1>6. CASE \E h \in {"blank", "torn", "valid"}, g \in Nat, b \in {"blank", "torn", "record"} :
             AppendOnFlash(rolls, h, g, b)
  <2>1. PICK h \in {"blank", "torn", "valid"}, g \in Nat, b \in {"blank", "torn", "record"} :
          AppendOnFlash(rolls, h, g, b)
    BY <1>6
  <2>2. PICK n \in 0 .. Len(q) :
          /\ n > 0 => batch = << >>
          /\ evicted' = evicted \cup Promise!ElementsOf(Promise!First(q, n))
          /\ StoredInOrder' = IF b = "record" THEN Promise!Stored(n, nextId)
                                              ELSE Promise!Without(q, n)
    BY <1>1, <1>2, <1>3, <2>1, AppendQueue
  <2> QED BY <1>3, <2>2
<1>7. CASE rolls /\ \E k \in Offset : EraseCut(k)
  <2>1. PICK k \in Offset : EraseCut(k)
    BY <1>7
  <2>2. MayEvict(TRUE) /\ evicted' = EvictedAfterRoll(TRUE)
    BY <1>2, <1>7
  <2>3. PICK n \in 0 .. Len(q) :
          /\ n > 0 => batch = << >>
          /\ evicted' = evicted \cup Promise!ElementsOf(Promise!First(q, n))
          /\ \E m \in 0 .. n : StoredInOrder' = Promise!First(q, m) \o Promise!Without(q, n)
    BY <1>1, <1>3, <2>1, <2>2, EraseQueue
  <2> QED BY <2>3
<1> QED BY <1>2, <1>6, <1>7

-----------------------------------------------------------------------------
(* Batches.                                                                 *)

LEMMA PeekStep ==
  ASSUME LogInv, Faults = {}, PeekPending
  PROVE  Promise!Peek
<1>1. /\ ready /\ UNCHANGED flash /\ drained' = drained /\ evicted' = evicted
      /\ "append_error" \notin Faults
  BY DEF PeekPending
<1>2. PICK n \in Nat : n = PeekLimit
  BY PeekPendingIs
<1>3. PICK at \in [1 .. n -> Position] :
        /\ \A j \in 1 .. n : at[j].offset \in Slot
        /\ Taken(at, n)
        /\ batch' = [i \in 1 .. n |-> slot[at[i].sector][at[i].offset].id]
  BY <1>2, PeekPendingIs
<1>4. PICK b, q : b = batch' /\ q = StoredInOrder
  OBVIOUS
<1>5. b \in Seq(Nat) /\ Len(b) = n /\ \A j \in 1 .. n : b[j] = slot[at[j].sector][at[j].offset].id
  <2>1. \A i \in 1 .. n : slot[at[i].sector][at[i].offset].id \in Nat
    BY <1>3 DEF LogInv, FlashTypeOK, Cell, Position
  <2> QED BY <1>3, <1>4, <2>1
<1>6. Promise!First(q, n) = b
  <2>1. Holds(b, at, n)
    BY <1>3, <1>5 DEF Holds
  <2>2. PICK E : E = Promise!ElementsOf(b)
    OBVIOUS
  <2> QED BY <1>1, <1>4, <2>1, <2>2, FirstOfQueue
<1>7. n = IF Len(q) < MaxBatch THEN Len(q) ELSE MaxBatch
  BY <1>1, <1>2, <1>4, PendingIsLength DEF PeekLimit
<1>8. StoredInOrder' = StoredInOrder
  <2>1. Stored' = Stored
    BY <1>1 DEF flash, Stored, UndrainedIdsIn, IsUndrained, IsRecord
  <2> QED BY <2>1 DEF StoredInOrder
<1> QED BY <1>1, <1>4, <1>6, <1>7, <1>8 DEF Promise!Peek

\* Any number of the records handed out are the front of the queue.
LEMMA BatchIsFront ==
  ASSUME LogInv, ready, "append_error" \notin Faults, NEW n \in 0 .. Len(peeked),
         NEW q, q = StoredInOrder, NEW E, E = Promise!ElementsOf(Promise!First(batch, n))
  PROVE  /\ n \in 0 .. Len(batch) /\ n \in 0 .. Len(q) /\ Promise!First(q, n) = Promise!First(batch, n)
         /\ E = {batch[j] : j \in 1 .. n}
         /\ E \in SUBSET Stored /\ Sorts(Promise!Without(q, n), Stored \ E)
<1>1. /\ peeked \in Seq(Position) /\ batch \in Seq(Nat) /\ Len(batch) = Len(peeked)
      /\ Len(peeked) \in Nat /\ oldest.sector \in Sector
  BY DEF LogInv, RamTypeOK, PeekOK, Position
<1>2. n \in Nat /\ n <= Len(peeked) /\ \A j \in 1 .. n : j \in 1 .. Len(peeked)
  BY <1>1
<1>3. \A j \in 1 .. n : /\ peeked[j] \in Position /\ peeked[j].offset \in Slot
                        /\ <<peeked[j].sector, peeked[j].offset>> \in Live
                        /\ batch[j] = slot[peeked[j].sector][peeked[j].offset].id
  BY <1>2, PeekedIs DEF LogInv, PeekOK
<1>4. Taken(peeked, n)
  <2>1. \A i, j \in 1 .. n : i < j => Before(oldest, peeked[i], peeked[j])
    BY <1>2 DEF LogInv, PeekOK
  <2>2. ASSUME NEW x \in Live
        PROVE  \/ \E j \in 1 .. n : peeked[j] = At(x[1], x[2])
               \/ \A j \in 1 .. n : Before(oldest, peeked[j], At(x[1], x[2]))
    <3>1. CASE \E j \in 1 .. Len(peeked) : peeked[j] = At(x[1], x[2])
      <4>1. PICK j \in 1 .. Len(peeked) : peeked[j] = At(x[1], x[2])
        BY <3>1
      <4>2. CASE j <= n
        <5>1. j \in 1 .. n
          BY <1>2, <4>2
        <5> QED BY <4>1, <5>1
      <4>3. CASE ~ (j <= n)
        <5>1. \A i \in 1 .. n : i \in 1 .. Len(peeked) /\ i < j
          BY <1>1, <1>2, <4>3
        <5>2. \A i \in 1 .. n : Before(oldest, peeked[i], peeked[j])
          BY <5>1 DEF LogInv, PeekOK
        <5> QED BY <4>1, <5>2
      <4> QED BY <4>2, <4>3
    <3>2. CASE ~ \E j \in 1 .. Len(peeked) : peeked[j] = At(x[1], x[2])
      BY <1>2, <3>2 DEF LogInv, PeekOK
    <3> QED BY <3>1, <3>2
  <2> QED BY <1>3, <2>1, <2>2 DEF Taken
<1>5. PICK b : b = Promise!First(batch, n)
  OBVIOUS
<1>6. b \in Seq(Nat) /\ Len(b) = n /\ \A j \in 1 .. n : b[j] = batch[j]
  <2>1. 1 \in Int /\ n \in Int /\ \A i \in 1 .. n : batch[i] \in Nat
    BY <1>1, <1>2
  <2>2. /\ SubSeq(batch, 1, n) \in Seq(Nat) /\ Len(SubSeq(batch, 1, n)) = IF 1 <= n THEN n - 1 + 1 ELSE 0
        /\ \A i \in 1 .. n - 1 + 1 : SubSeq(batch, 1, n)[i] = batch[1 + i - 1]
    BY <2>1, SubSeqProperties
  <2>3. b = SubSeq(batch, 1, n)
    BY <1>5 DEF Promise!First
  <2>4. \A i \in 1 .. n : i \in 1 .. n - 1 + 1 /\ 1 + i - 1 = i
    BY <1>2
  <2> QED BY <1>2, <2>2, <2>3, <2>4
<1>7. E = {b[j] : j \in 1 .. n}
  BY <1>5, <1>6 DEF Promise!ElementsOf
<1>8. E = {batch[j] : j \in 1 .. n}
  BY <1>6, <1>7
<1>9. /\ n \in 0 .. Len(q) /\ Promise!First(q, n) = b
      /\ E \in SUBSET Stored /\ Sorts(Promise!Without(q, n), Stored \ E)
  <2>1. \A j \in 1 .. n : b[j] = slot[peeked[j].sector][peeked[j].offset].id
    BY <1>3, <1>6
  <2>2. \A j \in 1 .. n : peeked[j] \in Position /\ peeked[j].offset \in Slot
    BY <1>3
  <2>3. Holds(b, peeked, n)
    BY <1>4, <1>6, <2>1, <2>2 DEF Holds
  <2>4. E = Promise!ElementsOf(b) /\ n \in Nat
    BY <1>2, <1>5
  <2> QED BY <2>3, <2>4, FirstOfQueue
<1> QED BY <1>1, <1>2, <1>5, <1>8, <1>9

\* Clearing the flags of the first n records of the batch takes them from the queue.
LEMMA MarkQueue ==
  ASSUME LogInv, LogInv', ready, "append_error" \notin Faults, NEW n \in 0 .. Len(peeked),
         FlagsCleared(1 .. n), head' = head, gen' = gen, NEW q, q = StoredInOrder
  PROVE  StoredInOrder' = Promise!Without(q, n)
<1>1. PICK D : D = CellsOf(1 .. n)
  OBVIOUS
<1>0. PICK E : E = Promise!ElementsOf(Promise!First(batch, n))
  OBVIOUS
<1>10. Sorts(Promise!Without(q, n), Stored \ E) /\ E = {batch[j] : j \in 1 .. n}
  BY <1>0, BatchIsFront
<1>2. Len(peeked) \in Nat /\ 1 .. n \in SUBSET (1 .. Len(peeked))
  BY SMTT(20) DEF LogInv, RamTypeOK
<1>3. \A s \in Sector, i \in Slot :
        /\ slot'[s][i].id = slot[s][i].id
        /\ IsUndrained(s, i)' <=> IsUndrained(s, i) /\ <<s, i>> \notin D
  BY <1>1, <1>2, ClearedIs
<1>4. ASSUME NEW s \in Sector, NEW i \in Slot, IsUndrained(s, i)
      PROVE  <<s, i>> \in D <=> slot[s][i].id \in E
  <2>1. \A j \in 1 .. n : /\ <<peeked[j].sector, peeked[j].offset>> \in Live
                          /\ batch[j] = slot[peeked[j].sector][peeked[j].offset].id
    BY <1>2 DEF LogInv, PeekOK
  <2>2. ASSUME <<s, i>> \in D PROVE slot[s][i].id \in E
    <3>1. PICK j \in 1 .. n : <<s, i>> = <<peeked[j].sector, peeked[j].offset>>
      BY <1>1, <2>2 DEF CellsOf
    <3>2. s = peeked[j].sector /\ i = peeked[j].offset
      BY <3>1
    <3> QED BY <1>10, <2>1, <3>2
  <2>3. ASSUME slot[s][i].id \in E PROVE <<s, i>> \in D
    <3>1. PICK j \in 1 .. n : slot[s][i].id = batch[j]
      BY <1>10, <2>3
    <3>2. PICK x \in Live, y \in Live : x = <<s, i>> /\ y = <<peeked[j].sector, peeked[j].offset>>
      BY <1>4, <2>1, AllCounted
    <3>3. slot[x[1]][x[2]].id = slot[y[1]][y[2]].id
      BY <2>1, <3>1, <3>2
    <3>4. x = y
      BY <3>3, IdsDiffer
    <3> QED BY <1>1, <3>2, <3>4 DEF CellsOf
  <2> QED BY <2>2, <2>3
<1>5. Stored' = Stored \ E
  <2>1. ASSUME NEW k \in Stored' PROVE k \in Stored \ E
    <3>1. PICK s \in Sector, i \in Slot : IsUndrained(s, i)' /\ slot'[s][i].id = k
      BY DEF Stored, UndrainedIdsIn
    <3>2. IsUndrained(s, i) /\ slot[s][i].id = k /\ k \notin E
      BY <1>3, <1>4, <3>1
    <3> QED BY <3>2, StoredIs
  <2>2. ASSUME NEW k \in Stored \ E PROVE k \in Stored'
    <3>1. PICK s \in Sector, i \in Slot : IsUndrained(s, i) /\ slot[s][i].id = k
      BY StoredIs
    <3>2. IsUndrained(s, i)' /\ slot'[s][i].id = k
      BY <1>3, <1>4, <3>1
    <3> QED BY <3>2, StoredIsThen
  <2> QED BY <2>1, <2>2
<1>7. Stored \in SUBSET Nat
  BY StoredSorted
<1>8. PICK r, S : r = Promise!Without(q, n) /\ S = Stored \ E
  OBVIOUS
<1>9. StoredInOrder' = r
  BY <1>5, <1>7, <1>8, <1>10, StoredSortedThen
<1> QED BY <1>8, <1>9

LEMMA DrainStep ==
  ASSUME LogInv, LogInv', Faults = {}, Premises, MarkDrained
  PROVE  Promise!Drain
<1>1. PICK n \in 1 .. Len(peeked) : FlagsCleared(1 .. n) /\ Drains(1 .. n)
  BY MarkDrainedIs
<1>2. ready /\ batch' = << >> /\ head' = head /\ gen' = gen /\ evicted' = evicted
  BY MarkDrainedIs
<1>3. PICK q, E : q = StoredInOrder /\ E = Promise!ElementsOf(Promise!First(batch, n))
  OBVIOUS
<1>4. n \in 0 .. Len(peeked) /\ Len(batch) = Len(peeked) /\ "append_error" \notin Faults
  BY <1>2 DEF LogInv, RamTypeOK, PeekOK
<1>5. /\ Promise!First(q, n) = Promise!First(batch, n)
      /\ E = {batch[j] : j \in 1 .. n}
  BY <1>2, <1>3, <1>4, BatchIsFront
<1>6. StoredInOrder' = Promise!Without(q, n)
  BY <1>1, <1>2, <1>3, <1>4, MarkQueue
<1>7. drained' = drained \cup Promise!ElementsOf(Promise!First(batch, n))
  BY <1>1, <1>3, <1>5 DEF Drains
<1> QED BY <1>2, <1>3, <1>4, <1>5, <1>6, <1>7 DEF Promise!Drain

LEMMA MarkCutStep ==
  ASSUME LogInv, LogInv', Faults = {}, MarkCut
  PROVE  Promise!PowerLoss
<1>1. ready /\ batch' = << >> /\ head' = head /\ gen' = gen /\ evicted' = evicted
  BY DEF MarkCut, RamAtReset
<1>2. Len(peeked) \in Nat /\ Len(batch) = Len(peeked) /\ "append_error" \notin Faults
  BY <1>1 DEF LogInv, RamTypeOK, PeekOK
<1>3. PICK n \in 0 .. Len(peeked) : FlagsCleared(1 .. n) /\ Drains(1 .. n)
  BY <1>2 DEF MarkCut
<1>4. PICK q, E : q = StoredInOrder /\ E = Promise!ElementsOf(Promise!First(batch, n))
  OBVIOUS
<1>5. /\ Promise!First(q, n) = Promise!First(batch, n)
      /\ E = {batch[j] : j \in 1 .. n}
  BY <1>1, <1>2, <1>4, BatchIsFront
<1>6. StoredInOrder' = Promise!Without(q, n)
  BY <1>1, <1>2, <1>3, <1>4, MarkQueue
<1>7. drained' = drained \cup Promise!ElementsOf(Promise!First(batch, n))
  BY <1>3, <1>4, <1>5 DEF Drains
<1>8. CASE n = 0
  <2>1. slot' = slot
    <3>1. \A s \in Sector, o \in Slot : ~ \E i \in 1 .. n : peeked[i] = At(s, o)
      BY <1>8
    <3>2. slot' = [s \in Sector |-> [o \in Slot |-> slot[s][o]]]
      BY <1>3, <3>1 DEF FlagsCleared
    <3> QED BY <3>2 DEF LogInv, FlashTypeOK
  <2>2. Stored' = Stored
    BY <1>1, <2>1 DEF Stored, UndrainedIdsIn, IsUndrained, IsRecord
  <2>3. StoredInOrder' = StoredInOrder
    BY <2>2 DEF StoredInOrder
  <2>4. drained' = drained
    BY <1>3, <1>8 DEF Drains
  <2> QED BY <1>1, <2>3, <2>4 DEF Promise!PowerLoss
<1>9. CASE n # 0
  <2>1. n \in 1 .. Len(batch)
    BY <1>2, <1>9
  <2> QED BY <1>1, <1>4, <1>5, <1>6, <1>7, <2>1 DEF Promise!PowerLoss
<1> QED BY <1>8, <1>9

-----------------------------------------------------------------------------
(* Boots, and the whole.                                                    *)

LEMMA BootStep ==
  ASSUME LogInv, LogInv', BootFresh \/ BootResume \/ BootCut
  PROVE  UNCHANGED Promise!vars
<1>1. UNCHANGED hist
  BY BootLosesNone
<1>2. Stored' = Stored
  <2>1. CASE Occupied = {}
    <3>1. \A s \in Sector, o \in Slot : ~ IsRecord(s, o)
      BY <2>1, EmptyRing
    <3>2. \A s \in Sector, o \in Slot : ~ IsRecord(s, o)'
      <4>1. CASE BootFresh
        <5>1. PICK h \in {"torn", "valid"}, g \in Nat : h = "valid" /\ g = 1
          OBVIOUS
        <5> QED BY <2>1, <4>1, <5>1, BootFormats DEF BootFresh, hist
      <4>2. CASE BootResume
        BY <2>1, <4>2 DEF BootResume
      <4>3. CASE BootCut
        <5>1. \A s \in Sector, o \in Slot : slot'[s][o] = BlankCell \/ slot'[s][o] = slot[s][o]
          <6>1. \A o \in Slot : BlankSector[o] = BlankCell
            BY DEF BlankSector
          <6>2. slot \in [Sector -> [Slot -> Cell]] /\ 0 \in Sector
            BY SectorIs DEF LogInv, FlashTypeOK, Sector
          <6>3. CASE \E T \in SUBSET {s \in Sector : head[s] = "torn"} :
                       slot' = [s \in Sector |-> IF s \in T THEN BlankSector ELSE slot[s]]
            BY <6>1, <6>3
          <6>4. CASE slot' = [SlotAtBoot EXCEPT ![0] = BlankSector]
            BY <6>1, <6>2, <6>4 DEF SlotAtBoot
          <6> QED BY <4>3, <6>3, <6>4 DEF BootCut
        <5>2. BlankCell.body # "record"
          BY DEF BlankCell
        <5> QED BY <3>1, <5>1, <5>2 DEF IsRecord
      <4> QED BY <4>1, <4>2, <4>3
    <3>3. Stored = {} /\ Stored' = {}
      BY <3>1, <3>2 DEF Stored, UndrainedIdsIn, IsUndrained
    <3> QED BY <3>3
  <2>2. CASE Occupied # {}
    <3>1. PICK T \in SUBSET {s \in Sector : head[s] = "torn"} :
            /\ head' = [s \in Sector |-> IF s \in T THEN "blank" ELSE head[s]]
            /\ slot' = [s \in Sector |-> IF s \in T THEN BlankSector ELSE slot[s]]
            /\ gen' = gen
      <4>1. CASE BootResume
        <5>1. PICK T \in SUBSET {s \in Sector : head[s] = "torn"} : T = {s \in Sector : head[s] = "torn"}
          OBVIOUS
        <5>2. /\ head' = [s \in Sector |-> IF s \in T THEN "blank" ELSE head[s]]
              /\ slot' = [s \in Sector |-> IF s \in T THEN BlankSector ELSE slot[s]]
              /\ gen' = gen
          BY <4>1, <5>1 DEF BootResume, HeadAtBoot, SlotAtBoot
        <5> QED BY <5>2
      <4>2. CASE BootCut
        BY <2>2, <4>2 DEF BootCut
      <4> QED BY <2>2, <4>1, <4>2 DEF BootFresh
    <3>2. nextId' = nextId
      BY <1>1 DEF hist
    <3>3. /\ \A s \in Sector : Und(s)' = Und(s) /\ Occupied' = Occupied
          /\ \A s \in Sector, o \in Slot : IsRecord(s, o) => slot'[s][o] = slot[s][o]
      BY <3>1, <3>2, BootErases
    <3>4. \A s \in Sector : {slot'[s][o].id : o \in Und(s)'} = {slot[s][o].id : o \in Und(s)}
      BY <3>3 DEF Und, IsUndrained
    <3>5. \A s \in Sector : UndrainedIdsIn(s) = {slot[s][o].id : o \in Und(s)}
      BY DEF UndrainedIdsIn, Und
    <3>6. \A s \in Sector : UndrainedIdsIn(s)' = {slot'[s][o].id : o \in Und(s)'}
      BY DEF UndrainedIdsIn, Und
    <3>7. \A s \in Sector : UndrainedIdsIn(s)' = UndrainedIdsIn(s)
      BY <3>4, <3>5, <3>6
    <3> QED BY <3>3, <3>7 DEF Stored, Occupied
  <2> QED BY <2>1, <2>2
<1>3. StoredInOrder' = StoredInOrder
  BY <1>2 DEF StoredInOrder
<1> QED BY <1>1, <1>3 DEF Promise!vars, hist

LEMMA QueueStep ==
  ASSUME LogInv, Faults = {}, Premises, [Next]_vars
  PROVE  [Promise!Next]_(Promise!vars)
<1>1. LogInv'
  BY NextKeeps
<1>2. CASE LogAppend
  BY <1>1, <1>2, StoreStep DEF Promise!Next
<1>3. CASE AppendCut
  BY <1>1, <1>3, AppendCutStep DEF Promise!Next
<1>4. CASE PeekPending
  BY <1>4, PeekStep DEF Promise!Next
<1>5. CASE MarkDrained
  BY <1>1, <1>5, DrainStep DEF Promise!Next
<1>6. CASE MarkCut
  BY <1>1, <1>6, MarkCutStep DEF Promise!Next
<1>7. CASE BootFresh \/ BootResume \/ BootCut
  BY <1>1, <1>7, BootStep
<1>8. CASE PowerLoss \/ UNCHANGED vars
  <2>1. UNCHANGED flash /\ drained' = drained /\ evicted' = evicted
    BY <1>8 DEF PowerLoss, vars, hist
  <2>2. Stored' = Stored
    BY <2>1 DEF flash, Stored, UndrainedIdsIn, IsUndrained, IsRecord
  <2>3. StoredInOrder' = StoredInOrder
    BY <2>2 DEF StoredInOrder
  <2>4. CASE PowerLoss
    BY <2>1, <2>3, <2>4 DEF Promise!Next, Promise!PowerLoss, PowerLoss, RamAtReset
  <2>5. CASE UNCHANGED vars
    BY <2>1, <2>3, <2>5 DEF Promise!vars, vars, hist
  <2> QED BY <1>8, <2>4, <2>5
<1>9. ~ RollFails /\ ~ RecordWriteFails
  BY DEF RollFails, RecordWriteFails
<1> QED BY <1>2, <1>3, <1>4, <1>5, <1>6, <1>7, <1>8, <1>9 DEF Next

LEMMA QueueInit ==
  ASSUME Init
  PROVE  Promise!Init
<1>1. Stored = {}
  BY DEF Init, Stored
<1>2. {} \in SUBSET Nat /\ IsFiniteSet({})
  BY FS_EmptySet
<1>3. StoredInOrder = InOrder({})
  BY <1>1 DEF StoredInOrder, InOrder, UpTo
<1>4. StoredInOrder = << >>
  BY <1>2, <1>3, InOrderSorts, SortsNone
<1> QED BY <1>4 DEF Init, Promise!Init

\* IsStoreAndForward: as long as no flash operation fails, the log is a first-in first-out store
\* in which batches are the oldest captures in order, marking a batch removes exactly what was
\* handed out, evictions take the oldest, and a power loss inside any flash operation takes
\* effect in part but in no other way.
THEOREM LogIsStoreAndForward ==
  ASSUME Faults = {}, MaxAppends + 2 < GenMod
  PROVE  Spec => IsStoreAndForward
<1>1. Premises
  BY DEF Premises
<1>2. Init => Promise!Init
  BY QueueInit
<1>3. LogInv /\ [Next]_vars => [Promise!Next]_(Promise!vars)
  BY <1>1, QueueStep
<1>4. Spec => []LogInv
  BY <1>1, LogInvariant
<1> QED BY <1>2, <1>3, <1>4, PTL DEF Spec, IsStoreAndForward, Promise!Spec

-----------------------------------------------------------------------------
(* The collection loop of peek_pending, turn by turn.                       *)

\* f holds the state of the collection loop after every turn.
PeekRun(f, stale) ==
  f = [n \in 0 .. PeekTurns |-> IF n = 0 THEN PeekStart ELSE PeekTurn(f[n - 1], stale)]

\* The turns PeekLoop allows are enough for a visit of every slot.
LEMMA TurnsIs == PeekTurns \in Nat /\ PeekTurns >= NumSectors * (SlotsPerSector + 1) + 1
                 /\ NumSectors * (SlotsPerSector + 1) \in Nat
<1>1. \A a \in Nat, b \in Nat, c \in Nat : (a + 1) * (b + 1) * (c + 1) \in Nat
           /\ (a + 1) * (b + 1) * (c + 1) >= b * (c + 1) /\ b * (c + 1) \in Nat
  <2> SUFFICES ASSUME NEW a \in Nat, NEW b \in Nat, NEW c \in Nat
               PROVE  (a + 1) * (b + 1) * (c + 1) \in Nat
                  /\ (a + 1) * (b + 1) * (c + 1) >= b * (c + 1) /\ b * (c + 1) \in Nat
    OBVIOUS
  <2>1. PICK d \in Nat : d = c + 1
    OBVIOUS
  <2>2. b * d \in Nat /\ (b + 1) * d = b * d + d /\ (b + 1) * d \in Nat
    OBVIOUS
  <2>3. PICK e \in Nat : e = (b + 1) * d
    BY <2>2
  <2>4. (a + 1) * e = a * e + e /\ a * e \in Nat /\ (a + 1) * e \in Nat
    OBVIOUS
  <2>5. (a + 1) * (b + 1) * d = (a + 1) * e
    BY <2>3
  <2> QED BY <2>1, <2>2, <2>3, <2>4, <2>5
<1>2. MaxBatch \in Nat /\ NumSectors \in Nat /\ SlotsPerSector \in Nat
  BY LogAssumption
<1>3. (MaxBatch + 1) * (NumSectors + 1) * (SlotsPerSector + 1) \in Nat
      /\ (MaxBatch + 1) * (NumSectors + 1) * (SlotsPerSector + 1) >= NumSectors * (SlotsPerSector + 1)
      /\ NumSectors * (SlotsPerSector + 1) \in Nat
  BY <1>1, <1>2
<1> QED BY <1>3 DEF PeekTurns

\* The recursive function PeekLoop chooses is there, turn after turn.
LEMMA PeekRunExists == ASSUME NEW stale PROVE \E f : PeekRun(f, stale)
<1> DEFINE To(m, f) == f = [n \in 0 .. m |-> IF n = 0 THEN PeekStart ELSE PeekTurn(f[n - 1], stale)]
           Fails == {m \in 0 .. PeekTurns : ~ \E f : To(m, f)}
<1>1. Fails = {}
  <2> SUFFICES ASSUME Fails # {} PROVE FALSE
    OBVIOUS
  <2>1. Fails \in SUBSET Nat
    BY TurnsIs
  <2>2. \A m \in 0 .. PeekTurns : m \in Fails <=> ~ \E f : To(m, f)
    OBVIOUS
  <2>3. \A m \in Fails : m \in 0 .. PeekTurns
    OBVIOUS
  <2> HIDE DEF Fails
  <2>4. PICK m \in Fails : \A k \in Fails : m <= k
    BY <2>1, Least
  <2>5. m \in 0 .. PeekTurns /\ m \in Nat
    BY <2>1, <2>3, <2>4
  <2>6. CASE m = 0
    <3> DEFINE f == [n \in 0 .. 0 |-> PeekStart]
    <3>1. To(0, f)
      OBVIOUS
    <3> QED BY <2>2, <2>4, <2>5, <2>6, <3>1
  <2>7. CASE m # 0
    <3>1. m - 1 \in 0 .. PeekTurns /\ m - 1 < m /\ m - 1 \in Nat
      BY <2>5, <2>7, TurnsIs
    <3>2. m - 1 \notin Fails
      BY <2>4, <2>5, <3>1
    <3>3. PICK f : To(m - 1, f)
      BY <2>2, <3>1, <3>2
    <3> DEFINE g == [n \in 0 .. m |-> IF n < m THEN f[n] ELSE PeekTurn(f[m - 1], stale)]
    <3>4. ASSUME NEW n \in 0 .. m
          PROVE  g[n] = IF n = 0 THEN PeekStart ELSE PeekTurn(g[n - 1], stale)
      <4>1. CASE n = m
        <5>1. n # 0 /\ n - 1 \in 0 .. m /\ n - 1 < m /\ ~ (n < m)
          BY <2>5, <2>7, <4>1
        <5>2. g[n] = PeekTurn(f[m - 1], stale) /\ g[n - 1] = f[m - 1]
          BY <4>1, <5>1
        <5> QED BY <5>1, <5>2
      <4>2. CASE n < m
        <5>1. n \in 0 .. m - 1
          BY <2>5, <4>2
        <5>2. n # 0 => n - 1 \in 0 .. m /\ n - 1 < m
          BY <2>5, <4>2
        <5>3. g[n] = f[n] /\ (n # 0 => g[n - 1] = f[n - 1])
          BY <4>2, <5>2
        <5>4. f[n] = IF n = 0 THEN PeekStart ELSE PeekTurn(f[n - 1], stale)
          BY <3>3, <5>1
        <5> QED BY <5>3, <5>4
      <4> QED BY <2>5, <4>1, <4>2
    <3>5. To(m, g)
      BY <3>4
    <3> QED BY <2>2, <2>4, <2>5, <3>5
  <2> QED BY <2>6, <2>7
<1>2. PeekTurns \in 0 .. PeekTurns
  BY TurnsIs
<1>3. \E f : To(PeekTurns, f)
  BY <1>1, <1>2
<1> QED BY <1>3 DEF PeekRun

\* The loop's result is the last state of a run of it.
LEMMA PeekLoopIs ==
  ASSUME NEW stale
  PROVE  \E f : PeekRun(f, stale) /\ PeekLoop(stale) = f[PeekTurns]
<1> DEFINE c == CHOOSE f : PeekRun(f, stale)
<1>1. PeekLoop(stale) = c[PeekTurns]
  BY DEF PeekLoop, PeekRun
<1>2. PeekRun(c, stale)
  BY PeekRunExists
<1> QED BY <1>1, <1>2

\* The counted records the walk has neither taken nor discarded yet.
Rest(st) ==
  {x \in Live : /\ At(x[1], x[2]) \notin st.cleared
                /\ \A i \in 1 .. Len(st.out) : st.out[i] # At(x[1], x[2])}

\* The loop guard fails.
Stops(st) == ~ (Len(st.out) < MaxBatch /\ Len(st.out) < st.pending)

\* How far along the walk a cursor is: a sector has a turn more than it has slots.
Passed(c) == Dist(oldest.sector, c.sector) * (SlotsPerSector + 1) + c.offset

\* The state of the loop: cursor, batch, counters, discarded records.
PeekTypes(st) ==
  st \in [at : Position, out : Seq(Position), pending : Nat, cleared : SUBSET Position,
          undrained : [Sector -> Nat], oldest : Position, done : BOOLEAN]

\* What is pending is in the batch or still ahead, and what is not was discarded.
ClearedIn(st, s) == {p \in st.cleared : p.sector = s}
PeekCounts(st) ==
  /\ Len(st.out) + Cardinality(Rest(st)) = st.pending
  /\ IsFiniteSet(st.cleared) /\ st.pending + Cardinality(st.cleared) = pendingCount
  /\ \A p \in st.cleared : p.offset \in Slot /\ <<p.sector, p.offset>> \in Live
  /\ \A s \in Sector :
       st.undrained[s] + Cardinality(ClearedIn(st, s)) = undrainedInSector[s]

\* The batch holds counted records that decode, in the order of the walk and before the rest.
PeekBatch(st, stale) ==
  /\ Len(st.out) <= MaxBatch
  /\ \A i \in 1 .. Len(st.out) :
       /\ st.out[i].offset \in Slot /\ <<st.out[i].sector, st.out[i].offset>> \in Live
       /\ slot[st.out[i].sector][st.out[i].offset].id \notin stale
       /\ \A j \in 1 .. Len(st.out) : i < j => Before(oldest, st.out[i], st.out[j])
       /\ \A x \in Rest(st) : Before(oldest, st.out[i], At(x[1], x[2]))

\* While there is a rest, the cursor is on the walk, before it and behind the batch.
PeekCursor(st) ==
  Rest(st) # {} =>
    /\ Dist(oldest.sector, st.at.sector) <= Dist(oldest.sector, activeSector)
    /\ \A x \in Rest(st) : AtOrAfter(st.at, x)
    /\ \A i \in 1 .. Len(st.out) : Before(oldest, st.out[i], st.at)

\* Turn n: every turn moves the cursor until the guard fails.
LastTurn == NumSectors * (SlotsPerSector + 1)
PeekEnds(st, n) ==
  /\ st.done => Stops(st)
  /\ Stops(st) \/ Passed(st.at) >= n
  /\ n > LastTurn => st.done

\* Where everything decodes nothing is discarded, and the loop stops behind the batch.
PeekIsExact(st, stale) ==
  stale = {} => /\ st.cleared = {}
                /\ Stops(st) => st.at = CursorAfter(st.out, Len(st.out))

\* What holds after n turns of the loop.
PeekInv(st, n, stale) ==
  /\ PeekTypes(st) /\ PeekCounts(st) /\ PeekBatch(st, stale) /\ PeekCursor(st)
  /\ PeekEnds(st, n) /\ PeekIsExact(st, stale)

\* The parts of the state of the loop have their types.
LEMMA TypesOfPeek ==
  ASSUME NEW st, PeekTypes(st)
  PROVE  /\ st.at \in Position /\ st.at.sector \in Sector /\ st.at.offset \in Offset
         /\ st.at = At(st.at.sector, st.at.offset)
         /\ st.out \in Seq(Position) /\ Len(st.out) \in Nat
         /\ \A i \in 1 .. Len(st.out) : st.out[i] \in Position
         /\ st.pending \in Nat /\ st.cleared \in SUBSET Position
         /\ st.undrained \in [Sector -> Nat] /\ st.oldest \in Position /\ st.done \in BOOLEAN
<1>1. st.at \in Position /\ st.out \in Seq(Position)
      /\ st.pending \in Nat /\ st.cleared \in SUBSET Position
      /\ st.undrained \in [Sector -> Nat] /\ st.oldest \in Position /\ st.done \in BOOLEAN
  BY DEF PeekTypes
<1>2. \A p \in Position : p.sector \in Sector /\ p.offset \in Offset /\ p = At(p.sector, p.offset)
  BY DEF Position, At
<1> QED BY <1>1, <1>2

\* What the loop needs to know of the log it walks.
LEMMA LogTypes ==
  ASSUME LogInv, ready
  PROVE  /\ oldest \in Position /\ oldest.sector \in Sector /\ oldest.offset \in Offset
         /\ activeSector \in Sector /\ pendingCount \in Nat
         /\ undrainedInSector \in [Sector -> Nat] /\ pendingCount = Cardinality(Live)
         /\ MaxBatch \in Nat /\ MaxBatch > 0 /\ RecordsInOrder
         /\ \A s \in Sector : Dist(oldest.sector, s) \in 0 .. NumSectors - 1
         /\ \A s, t \in Sector : Dist(oldest.sector, s) = Dist(oldest.sector, t) => s = t
         /\ \A x \in Live : Dist(oldest.sector, x[1]) <= Dist(oldest.sector, activeSector)
<1>1. oldest \in Position /\ oldest.sector \in Sector /\ oldest.offset \in Offset
  BY DEF LogInv, RamTypeOK, Position
<1>2. \A x \in Live : Dist(oldest.sector, x[1]) <= Dist(oldest.sector, activeSector)
  BY DEF LogInv, WalkOK, OnWalk
<1> QED BY <1>1, <1>2, DistIs, LogAssumption DEF LogInv, RamTypeOK, CountsOK

\* A counted record is an undrained record at a position.
LEMMA LiveCell ==
  ASSUME NEW x \in Live
  PROVE  /\ x = <<x[1], x[2]>> /\ x[1] \in Sector /\ x[2] \in Slot /\ x[2] \in Offset /\ x[2] \in Nat
         /\ x[2] < SlotsPerSector
         /\ At(x[1], x[2]) \in Position /\ At(x[1], x[2]).sector = x[1] /\ At(x[1], x[2]).offset = x[2]
         /\ IsRecord(x[1], x[2]) /\ IsUndrained(x[1], x[2])
<1>1. x = <<x[1], x[2]>> /\ x[1] \in Sector /\ x[2] \in Slot /\ x[2] \in Und(x[1])
  BY DEF Live
<1>2. x[2] \in Offset /\ x[2] \in Nat /\ x[2] < SlotsPerSector
  BY <1>1, SectorIs DEF Slot, Offset
<1>3. At(x[1], x[2]) \in Position /\ At(x[1], x[2]).sector = x[1] /\ At(x[1], x[2]).offset = x[2]
  BY <1>1, <1>2 DEF At, Position
<1> QED BY <1>1, <1>2, <1>3 DEF Und, IsUndrained

\* The rest is a finite set of counted records.
LEMMA RestIs ==
  ASSUME NEW st
  PROVE  /\ Rest(st) \subseteq Live /\ IsFiniteSet(Rest(st)) /\ Cardinality(Rest(st)) \in Nat
         /\ Cardinality(Rest(st)) = 0 <=> Rest(st) = {}
<1>1. Rest(st) \subseteq Live
  BY DEF Rest
<1>2. Rest(st) \in SUBSET (Sector \X Slot)
  BY <1>1, LiveIs
<1> QED BY <1>1, <1>2, CellSetIs

\* The loop goes on while there is a rest.
LEMMA RestWhile ==
  ASSUME NEW st, PeekTypes(st), PeekCounts(st)
  PROVE  /\ ~ Stops(st) => Rest(st) # {}
         /\ Rest(st) # {} => st.pending > 0 /\ pendingCount > 0
         /\ Len(st.out) <= st.pending
<1>1. st.pending \in Nat /\ Len(st.out) \in Nat
  BY TypesOfPeek
<1>2. Cardinality(st.cleared) \in Nat
  BY FS_CardinalityType DEF PeekCounts
<1> QED BY <1>1, <1>2, RestIs DEF PeekCounts, Stops

\* A step of the cursor brings it further along a walk that is bounded.
LEMMA PassedIs ==
  ASSUME oldest.sector \in Sector, NEW a \in Position
  PROVE  /\ Passed(a) \in Nat /\ Passed(a) < LastTurn /\ LastTurn \in Nat
         /\ \A b \in Position :
              \/ b.sector = a.sector /\ b.offset = a.offset + 1
              \/ Dist(oldest.sector, b.sector) = Dist(oldest.sector, a.sector) + 1 /\ b.offset = 0
              => Passed(b) >= Passed(a) + 1
<1>1. \A d \in Nat, k \in Nat, m \in Nat :
        /\ (d + 1) * k = d * k + k /\ d * k \in Nat
        /\ d < m => d * k + k <= m * k
  <2> SUFFICES ASSUME NEW d \in Nat, NEW k \in Nat, NEW m \in Nat
               PROVE  /\ (d + 1) * k = d * k + k /\ d * k \in Nat
                      /\ d < m => d * k + k <= m * k
    OBVIOUS
  <2>1. (d + 1) * k = d * k + k /\ d * k \in Nat
    OBVIOUS
  <2>2. ASSUME d < m PROVE d * k + k <= m * k
    <3>1. PICK e \in Nat : m = (d + 1) + e
      BY <2>2
    <3>2. m * k = (d + 1) * k + e * k /\ e * k \in Nat
      BY <3>1
    <3> QED BY <2>1, <3>2
  <2> QED BY <2>1, <2>2
<1>2. PICK d \in Nat : d = Dist(oldest.sector, a.sector) /\ d < NumSectors
  BY DistIs, SectorIs DEF Position
<1>3. PICK k \in Nat : k = SlotsPerSector + 1
  BY SectorIs
<1>4. a.offset \in Nat /\ a.offset < k
  BY <1>3, SectorIs DEF Position, Offset
<1>5. Passed(a) = d * k + a.offset /\ d * k \in Nat /\ d * k + k <= NumSectors * k
  BY <1>1, <1>2, <1>3, SectorIs DEF Passed
<1>6. LastTurn = NumSectors * k /\ LastTurn \in Nat
  BY <1>3, SectorIs DEF LastTurn
<1>7. ASSUME NEW b \in Position,
             \/ b.sector = a.sector /\ b.offset = a.offset + 1
             \/ Dist(oldest.sector, b.sector) = Dist(oldest.sector, a.sector) + 1 /\ b.offset = 0
      PROVE  Passed(b) >= Passed(a) + 1
  <2>1. CASE b.sector = a.sector /\ b.offset = a.offset + 1
    <3>1. Passed(b) = d * k + (a.offset + 1)
      BY <1>2, <1>3, <2>1 DEF Passed
    <3> QED BY <1>4, <1>5, <3>1
  <2>2. CASE Dist(oldest.sector, b.sector) = Dist(oldest.sector, a.sector) + 1 /\ b.offset = 0
    <3>1. Passed(b) = (d + 1) * k + 0
      BY <1>2, <1>3, <2>2 DEF Passed
    <3>2. (d + 1) * k = d * k + k
      BY <1>1
    <3> QED BY <1>4, <1>5, <3>1, <3>2
  <2> QED BY <1>7, <2>1, <2>2
<1> QED BY <1>4, <1>5, <1>6, <1>7

\* The undrained record under the cursor is one of the rest, unless it was discarded.
LEMMA CellAtCursor ==
  ASSUME LogInv, ready, NEW st, PeekTypes(st), PeekCounts(st), PeekCursor(st), Rest(st) # {},
         NEW s, s = st.at.sector, NEW o, o = st.at.offset, o \in Slot
  PROVE  <<s, o>> \in Rest(st) <=> IsUndrained(s, o) /\ st.at \notin st.cleared
<1>1. /\ s \in Sector /\ st.at = At(s, o) /\ o \in Slot
      /\ Dist(oldest.sector, s) <= Dist(oldest.sector, activeSector)
      /\ \A i \in 1 .. Len(st.out) : Before(oldest, st.out[i], st.at)
  BY TypesOfPeek DEF PeekCursor
<1>2. <<s, o>> \in Live <=> IsUndrained(s, o)
  <2>1. Exact(s)
    BY <1>1, RestWhile DEF LogInv, WalkOK, OnWalk
  <2>2. IsUndrained(s, o) => undrainedInSector[s] # 0
    <3>1. IsUndrained(s, o) => o \in Und(s)
      BY <1>1 DEF Und
    <3> QED BY <2>1, <3>1, LiveIs, SlotSetIs DEF Exact
  <2> QED BY <1>1, <2>2 DEF Live, Und
<1>3. \A i \in 1 .. Len(st.out) : st.out[i] # st.at
  <2>1. st.at.sector \in Sector /\ st.at \in Position /\ oldest.sector \in Sector
    BY TypesOfPeek, LogTypes
  <2>2. ~ Before(oldest, st.at, st.at)
    BY <2>1, BeforeIs
  <2> QED BY <1>1, <2>2
<1>4. At(<<s, o>>[1], <<s, o>>[2]) = st.at
  BY <1>1
<1> QED BY <1>1, <1>2, <1>3, <1>4 DEF Rest

\* The cursor moves behind the cell it was at, within the sector or to the next one.
LEMMA CursorSteps ==
  ASSUME LogInv, ready, NEW st, PeekTypes(st), PeekCounts(st), PeekCursor(st),
         NEW R \in SUBSET Rest(st), R # {},
         NEW a, a = st.at, a.offset \in Slot, <<a.sector, a.offset>> \notin R,
         NEW c, c = At(a.sector, a.offset + 1) \/ c = After(a)
  PROVE  /\ c \in Position
         /\ Dist(oldest.sector, c.sector) <= Dist(oldest.sector, activeSector)
         /\ \A x \in R : AtOrAfter(c, x)
         /\ Passed(c) >= Passed(a) + 1
         /\ Before(oldest, a, c) /\ \A i \in 1 .. Len(st.out) : Before(oldest, st.out[i], c)
         /\ \A x \in R : Before(oldest, a, At(x[1], x[2]))
<1>1. /\ a \in Position /\ a.sector \in Sector /\ a.offset \in Offset
      /\ \A i \in 1 .. Len(st.out) : st.out[i] \in Position
  BY TypesOfPeek
<1>2. PICK w \in Sector, z \in Sector : w = oldest.sector /\ z = activeSector
  BY LogTypes
<1>3. \A t \in Sector : Dist(w, t) \in 0 .. NumSectors - 1 /\ (Dist(w, t) = Dist(w, a.sector) => t = a.sector)
  BY <1>1, DistIs
<1>4. PICK k \in Nat : k = SlotsPerSector /\ k >= 1
  BY SectorIs
<1>5. a.offset \in Nat /\ a.offset < k
  BY <1>4 DEF Slot
<1>6. /\ Dist(w, a.sector) <= Dist(w, z)
      /\ \A x \in R : AtOrAfter(a, x)
      /\ \A i \in 1 .. Len(st.out) : Before(oldest, st.out[i], a)
  BY <1>2 DEF PeekCursor
<1>7. ASSUME NEW x \in R
      PROVE  /\ x[1] \in Sector /\ x[2] \in Nat /\ x[2] < k
             /\ Dist(w, a.sector) <= Dist(w, x[1]) /\ Dist(w, x[1]) <= Dist(w, z)
             /\ x[1] = a.sector => a.offset < x[2]
             /\ At(x[1], x[2]).sector = x[1] /\ At(x[1], x[2]).offset = x[2]
  <2>1. x \in Live
    BY RestIs
  <2>2. x = <<x[1], x[2]>> /\ x[1] \in Sector /\ x[2] \in Nat /\ x[2] < k
    BY <1>4, <2>1, LiveCell
  <2>3. Dist(w, x[1]) <= Dist(w, z)
    BY <1>2, <2>1, LogTypes
  <2>4. Dist(w, a.sector) <= Dist(w, x[1]) /\ (x[1] = a.sector => a.offset <= x[2])
    BY <1>2, <1>6 DEF AtOrAfter
  <2>5. x[1] = a.sector => a.offset # x[2]
    BY <2>2
  <2> QED BY <1>5, <2>1, <2>2, <2>3, <2>4, <2>5, LiveCell
<1>8. CASE c = At(a.sector, a.offset + 1)
  <2>1. c.sector = a.sector /\ c.offset = a.offset + 1 /\ c \in Position
    BY <1>1, <1>4, <1>5, <1>8 DEF At, Position, Offset
  <2>2. \A x \in R : AtOrAfter(c, x) /\ Before(oldest, a, At(x[1], x[2]))
    <3> SUFFICES ASSUME NEW x \in R PROVE AtOrAfter(c, x) /\ Before(oldest, a, At(x[1], x[2]))
      OBVIOUS
    <3>1. /\ x[1] \in Sector /\ x[2] \in Nat /\ Dist(w, a.sector) <= Dist(w, x[1])
          /\ x[1] = a.sector => a.offset < x[2]
          /\ At(x[1], x[2]).sector = x[1] /\ At(x[1], x[2]).offset = x[2]
      BY <1>7
    <3>2. AtOrAfter(c, x)
      BY <1>2, <1>5, <2>1, <3>1 DEF AtOrAfter
    <3>3. Dist(w, a.sector) < Dist(w, x[1]) \/ x[1] = a.sector
      BY <1>1, <1>3, <3>1
    <3>4. Before(oldest, a, At(x[1], x[2]))
      BY <1>2, <3>1, <3>3 DEF Before
    <3> QED BY <3>2, <3>4
  <2>3. Before(oldest, a, c)
    BY <1>5, <2>1 DEF Before
  <2>4. Passed(c) >= Passed(a) + 1
    BY <1>1, <1>2, <2>1, PassedIs
  <2>5. \A i \in 1 .. Len(st.out) : Before(oldest, st.out[i], c)
    BY <1>1, <1>2, <1>6, <2>1, <2>3, BeforeIs
  <2> QED BY <1>2, <1>6, <2>1, <2>2, <2>3, <2>4, <2>5
<1>9. CASE c = After(a) /\ c # At(a.sector, a.offset + 1)
  <2>1. a.offset = k - 1 /\ c = At(NextSector(a.sector), 0)
    BY <1>4, <1>9 DEF After
  <2>2. c.sector = NextSector(a.sector) /\ c.offset = 0 /\ c \in Position
    BY <1>1, <1>4, <2>1, NextIs DEF At, Position, Offset
  <2>3. \A x \in R : Dist(w, a.sector) < Dist(w, x[1])
    BY <1>1, <1>3, <1>5, <1>7, <2>1
  <2>4. Dist(w, a.sector) < NumSectors - 1 /\ Dist(w, a.sector) < Dist(w, z)
    <3>1. PICK x \in R : TRUE
      OBVIOUS
    <3> QED BY <1>1, <1>3, <1>7, <2>3, <3>1, SectorIs
  <2>5. Dist(w, c.sector) = Dist(w, a.sector) + 1
    <3>1. Dist(w, NextSector(a.sector)) = IF NextSector(a.sector) = w THEN 0 ELSE Dist(w, a.sector) + 1
      BY <1>1, NextIs
    <3>2. NextSector(a.sector) = w <=> Dist(w, a.sector) = NumSectors - 1
      BY <1>1, NextIs
    <3>3. Dist(w, a.sector) \in Nat /\ NumSectors \in Nat
      BY <1>1, <1>3, SectorIs
    <3>4. NextSector(a.sector) # w
      BY <2>4, <3>2, <3>3
    <3> QED BY <2>2, <3>1, <3>4
  <2>6. \A x \in R : AtOrAfter(c, x) /\ Before(oldest, a, At(x[1], x[2]))
    <3> SUFFICES ASSUME NEW x \in R PROVE AtOrAfter(c, x) /\ Before(oldest, a, At(x[1], x[2]))
      OBVIOUS
    <3>1. /\ x[1] \in Sector /\ x[2] \in Nat /\ Dist(w, a.sector) < Dist(w, x[1])
          /\ At(x[1], x[2]).sector = x[1]
      BY <1>7, <2>3
    <3> QED BY <1>1, <1>2, <1>3, <2>2, <2>5, <3>1 DEF AtOrAfter, Before
  <2>7. Before(oldest, a, c)
    BY <1>1, <1>2, <1>3, <2>5 DEF Before
  <2>8. Passed(c) >= Passed(a) + 1
    BY <1>1, <1>2, <2>2, <2>5, PassedIs
  <2>9. \A i \in 1 .. Len(st.out) : Before(oldest, st.out[i], c)
    BY <1>1, <1>2, <1>6, <2>2, <2>7, BeforeIs
  <2> QED BY <1>1, <1>2, <1>3, <2>2, <2>4, <2>5, <2>6, <2>7, <2>8, <2>9
<1> QED BY <1>8, <1>9

\* The valid data of the cursor's sector is exhausted: what is left lies in later sectors.
LEMMA SectorLeft ==
  ASSUME LogInv, ready, NEW st, PeekTypes(st), PeekCounts(st), PeekCursor(st), Rest(st) # {},
         NEW a, a = st.at, a.offset < SlotsPerSector => ~ IsRecord(a.sector, a.offset),
         NEW c, c = At(NextSector(a.sector), 0)
  PROVE  /\ a.sector # activeSector /\ c \in Position
         /\ Dist(oldest.sector, c.sector) <= Dist(oldest.sector, activeSector)
         /\ \A x \in Rest(st) : AtOrAfter(c, x)
         /\ Passed(c) >= Passed(a) + 1
         /\ \A i \in 1 .. Len(st.out) : Before(oldest, st.out[i], c)
<1>1. /\ a \in Position /\ a.sector \in Sector /\ a.offset \in Offset
      /\ \A i \in 1 .. Len(st.out) : st.out[i] \in Position
  BY TypesOfPeek
<1>2. PICK w \in Sector, z \in Sector : w = oldest.sector /\ z = activeSector
  BY LogTypes
<1>3. \A t \in Sector : Dist(w, t) \in 0 .. NumSectors - 1 /\ (Dist(w, t) = Dist(w, a.sector) => t = a.sector)
  BY <1>1, DistIs
<1>4. /\ Dist(w, a.sector) <= Dist(w, z)
      /\ \A x \in Rest(st) : AtOrAfter(a, x)
      /\ \A i \in 1 .. Len(st.out) : Before(oldest, st.out[i], a)
  BY <1>2 DEF PeekCursor
<1>5. ASSUME NEW x \in Rest(st)
      PROVE  /\ x[1] \in Sector /\ x[2] \in Nat
             /\ Dist(w, a.sector) < Dist(w, x[1]) /\ Dist(w, x[1]) <= Dist(w, z)
  <2>1. x \in Live
    BY RestIs
  <2>2. x[1] \in Sector /\ x[2] \in Slot /\ x[2] \in Nat /\ IsRecord(x[1], x[2]) /\ x[2] < SlotsPerSector
    BY <2>1, LiveCell
  <2>3. Dist(w, x[1]) <= Dist(w, z)
    BY <1>2, <2>1, LogTypes
  <2>4. Dist(w, a.sector) <= Dist(w, x[1]) /\ (x[1] = a.sector => a.offset <= x[2])
    BY <1>2, <1>4 DEF AtOrAfter
  <2>5. x[1] # a.sector
    <3> SUFFICES ASSUME x[1] = a.sector PROVE FALSE
      OBVIOUS
    <3>1. a.offset \in Nat /\ a.offset <= x[2]
      BY <1>1, <2>4, SectorIs DEF Offset
    <3>2. a.offset \in 0 .. x[2] /\ a.offset < SlotsPerSector
      BY <2>2, <3>1, SectorIs
    <3>3. IsRecord(a.sector, a.offset)
      BY <2>2, <3>2 DEF LogInv, RecordsInOrder
    <3> QED BY <3>2, <3>3
  <2> QED BY <1>1, <1>3, <2>2, <2>3, <2>4, <2>5
<1>6. PICK x \in Rest(st) : TRUE
  OBVIOUS
<1>7. Dist(w, a.sector) < Dist(w, z) /\ Dist(w, a.sector) < NumSectors - 1
  BY <1>1, <1>3, <1>5, <1>6, SectorIs
<1>8. c.sector = NextSector(a.sector) /\ c.offset = 0 /\ c \in Position
  BY <1>1, NextIs, SectorIs DEF At, Position, Offset
<1>9. Dist(w, c.sector) = Dist(w, a.sector) + 1
  <2>1. Dist(w, NextSector(a.sector)) = IF NextSector(a.sector) = w THEN 0 ELSE Dist(w, a.sector) + 1
    BY <1>1, NextIs
  <2>2. NextSector(a.sector) = w <=> Dist(w, a.sector) = NumSectors - 1
    BY <1>1, NextIs
  <2>3. Dist(w, a.sector) \in Nat /\ NumSectors \in Nat
    BY <1>1, <1>3, SectorIs
  <2>4. NextSector(a.sector) # w
    BY <1>7, <2>2, <2>3
  <2> QED BY <1>8, <2>1, <2>4
<1>10. \A y \in Rest(st) : AtOrAfter(c, y)
  <2> SUFFICES ASSUME NEW y \in Rest(st) PROVE AtOrAfter(c, y)
    OBVIOUS
  <2>1. y[1] \in Sector /\ y[2] \in Nat /\ Dist(w, a.sector) < Dist(w, y[1])
    BY <1>5
  <2> QED BY <1>1, <1>2, <1>3, <1>8, <1>9, <2>1 DEF AtOrAfter
<1>11. Passed(c) >= Passed(a) + 1
  BY <1>1, <1>2, <1>8, <1>9, PassedIs
<1>12. Before(oldest, a, c)
  BY <1>1, <1>2, <1>3, <1>9 DEF Before
<1>13. \A i \in 1 .. Len(st.out) : Before(oldest, st.out[i], c)
  BY <1>1, <1>2, <1>4, <1>8, <1>12, BeforeIs
<1>14. Dist(w, c.sector) <= Dist(w, z)
  BY <1>1, <1>2, <1>3, <1>7, <1>9
<1>15. a.sector # z
  BY <1>1, <1>3, <1>7
<1> QED BY <1>2, <1>8, <1>10, <1>11, <1>13, <1>14, <1>15

\* The loop begins at the oldest position with everything ahead.
LEMMA PeekBegins ==
  ASSUME LogInv, ready, NEW stale
  PROVE  PeekInv(PeekStart, 0, stale)
<1> DEFINE st == PeekStart
<1>1. /\ st.at = oldest /\ st.out = << >> /\ st.pending = pendingCount /\ st.cleared = {}
      /\ st.undrained = undrainedInSector /\ st.done = FALSE
  BY DEF PeekStart
<1>2. PeekTypes(st)
  <2>1. << >> \in Seq(Position) /\ {} \in SUBSET Position /\ FALSE \in BOOLEAN
    OBVIOUS
  <2>2. oldest \in Position /\ pendingCount \in Nat /\ undrainedInSector \in [Sector -> Nat]
    BY LogTypes
  <2> QED BY <2>1, <2>2 DEF PeekTypes, PeekStart
<1>3. Len(st.out) = 0 /\ 1 .. Len(st.out) = {}
  BY <1>1
<1>4. Rest(st) = Live
  BY <1>1, <1>3 DEF Rest
<1> HIDE DEF st
<1>5. PeekCounts(st)
  <2>1. IsFiniteSet({}) /\ Cardinality({}) = 0
    BY FS_EmptySet
  <2>2. \A s \in Sector : ClearedIn(st, s) = {}
    BY <1>1 DEF ClearedIn
  <2>3. \A s \in Sector : st.undrained[s] \in Nat
    BY <1>1, LogTypes
  <2>4. ASSUME NEW s \in Sector
        PROVE  st.undrained[s] + Cardinality(ClearedIn(st, s)) = undrainedInSector[s]
    <3>1. PICK k \in Nat : k = st.undrained[s] /\ k = undrainedInSector[s]
      BY <1>1, <2>3
    <3>2. Cardinality(ClearedIn(st, s)) = 0
      BY <2>1, <2>2
    <3> QED BY <3>1, <3>2
  <2>5. st.pending \in Nat /\ st.pending = Cardinality(Live)
    BY <1>1, LogTypes
  <2> QED BY <1>1, <1>3, <1>4, <2>1, <2>4, <2>5 DEF PeekCounts
<1>6. PeekBatch(st, stale)
  BY <1>3, LogTypes DEF PeekBatch
<1>7. PeekCursor(st)
  <2>1. Dist(oldest.sector, oldest.sector) = 0 /\ 0 <= Dist(oldest.sector, activeSector)
    BY LogTypes, DistIs
  <2>2. \A x \in Live : Dist(oldest.sector, x[1]) >= 0 /\ (x[1] = oldest.sector => oldest.offset <= x[2])
    BY LiveCell, LogTypes DEF LogInv, WalkOK
  <2>3. \A x \in Live : AtOrAfter(oldest, x)
    BY <2>1, <2>2, LiveCell, LogTypes DEF AtOrAfter
  <2> QED BY <1>1, <1>3, <1>4, <2>1, <2>3 DEF PeekCursor
<1>8. PeekEnds(st, 0)
  BY <1>1, PassedIs, LogTypes DEF PeekEnds
<1>9. PeekIsExact(st, stale)
  BY <1>1, <1>3 DEF PeekIsExact, CursorAfter
<1> QED BY <1>2, <1>5, <1>6, <1>7, <1>8, <1>9 DEF PeekInv, st

\* The guard failed.
LEMMA StopKeeps ==
  ASSUME LogInv, ready, NEW n \in Nat, NEW stale, NEW st, PeekInv(st, n, stale), Stops(st),
         NEW t, t = [st EXCEPT !.done = TRUE]
  PROVE  PeekInv(t, n + 1, stale)
<1>1. /\ PeekTypes(st) /\ PeekCounts(st) /\ PeekBatch(st, stale) /\ PeekCursor(st)
      /\ PeekEnds(st, n) /\ PeekIsExact(st, stale)
  BY DEF PeekInv
<1>2. /\ t.at = st.at /\ t.out = st.out /\ t.pending = st.pending /\ t.cleared = st.cleared
      /\ t.undrained = st.undrained /\ t.done = TRUE
  BY <1>1 DEF PeekTypes
<1>3. PeekTypes(t)
  BY <1>1, Zenon DEF PeekTypes
<1>4. Rest(t) = Rest(st) /\ (Stops(t) <=> Stops(st)) /\ \A s : ClearedIn(t, s) = ClearedIn(st, s)
  BY <1>2 DEF Rest, Stops, ClearedIn
<1>5. PeekCounts(t)
  BY <1>1, <1>2, <1>4 DEF PeekCounts
<1>6. PeekBatch(t, stale)
  BY <1>1, <1>2, <1>4 DEF PeekBatch
<1>7. PeekCursor(t)
  BY <1>1, <1>2, <1>4 DEF PeekCursor
<1>8. PeekEnds(t, n + 1)
  BY <1>2, <1>4 DEF PeekEnds
<1>9. PeekIsExact(t, stale)
  BY <1>1, <1>2, <1>4 DEF PeekIsExact
<1> QED BY <1>3, <1>5, <1>6, <1>7, <1>8, <1>9 DEF PeekInv

\* The cursor moved, and nothing was taken or discarded.
LEMMA MoveKeeps ==
  ASSUME LogInv, ready, NEW n \in Nat, NEW stale, NEW st, PeekInv(st, n, stale), ~ Stops(st),
         NEW c \in Position,
         Dist(oldest.sector, c.sector) <= Dist(oldest.sector, activeSector),
         \A x \in Rest(st) : AtOrAfter(c, x), Passed(c) >= Passed(st.at) + 1,
         \A i \in 1 .. Len(st.out) : Before(oldest, st.out[i], c),
         NEW t, t = [st EXCEPT !.at = c]
  PROVE  PeekInv(t, n + 1, stale)
<1>1. /\ PeekTypes(st) /\ PeekCounts(st) /\ PeekBatch(st, stale) /\ PeekCursor(st)
      /\ PeekEnds(st, n) /\ PeekIsExact(st, stale)
  BY DEF PeekInv
<1>2. /\ t.at = c /\ t.out = st.out /\ t.pending = st.pending /\ t.cleared = st.cleared
      /\ t.undrained = st.undrained /\ t.done = st.done
  BY <1>1 DEF PeekTypes
<1>3. PeekTypes(t)
  BY <1>1, Zenon DEF PeekTypes
<1>4. Rest(t) = Rest(st) /\ (Stops(t) <=> Stops(st)) /\ \A s : ClearedIn(t, s) = ClearedIn(st, s)
  BY <1>2 DEF Rest, Stops, ClearedIn
<1>5. PeekCounts(t)
  BY <1>1, <1>2, <1>4 DEF PeekCounts
<1>6. PeekBatch(t, stale)
  BY <1>1, <1>2, <1>4 DEF PeekBatch
<1>7. PeekCursor(t)
  BY <1>2, <1>4 DEF PeekCursor
<1>8. PeekEnds(t, n + 1)
  <2>1. st.at \in Position /\ oldest.sector \in Sector
    BY <1>1, TypesOfPeek, LogTypes
  <2>2. Passed(st.at) \in Nat /\ Passed(st.at) < LastTurn /\ LastTurn \in Nat /\ Passed(c) \in Nat
    BY <2>1, PassedIs
  <2>3. Passed(st.at) >= n /\ ~ st.done
    BY <1>1 DEF PeekEnds
  <2> QED BY <1>2, <1>4, <2>2, <2>3 DEF PeekEnds
<1>9. PeekIsExact(t, stale)
  BY <1>1, <1>2, <1>4 DEF PeekIsExact
<1> QED BY <1>3, <1>5, <1>6, <1>7, <1>8, <1>9 DEF PeekInv

\* A record is taken.
LEMMA TakeKeeps ==
  ASSUME LogInv, ready, NEW n \in Nat, NEW stale, NEW st, PeekInv(st, n, stale), ~ Stops(st),
         NEW a, a = st.at, a.offset \in Slot, <<a.sector, a.offset>> \in Rest(st),
         slot[a.sector][a.offset].id \notin stale,
         NEW t, t = [st EXCEPT !.out = Append(@, a), !.at = After(a)]
  PROVE  PeekInv(t, n + 1, stale)
<1>1. /\ PeekTypes(st) /\ PeekCounts(st) /\ PeekBatch(st, stale) /\ PeekCursor(st)
      /\ PeekEnds(st, n) /\ PeekIsExact(st, stale)
  BY DEF PeekInv
<1>2. /\ a \in Position /\ a = At(a.sector, a.offset) /\ st.out \in Seq(Position) /\ Len(st.out) \in Nat
      /\ st.pending \in Nat /\ a.sector \in Sector
      /\ \A i \in 1 .. Len(st.out) : st.out[i] \in Position
  BY <1>1, TypesOfPeek
<1>3. PICK out \in Seq(Position) : out = Append(st.out, a)
  <2>1. PICK q \in Seq(Position) : q = st.out
    BY <1>2
  <2>2. Append(q, a) \in Seq(Position)
    BY <1>2, <2>1
  <2> QED BY <2>1, <2>2
<1>4. /\ Len(out) = Len(st.out) + 1 /\ \A i \in 1 .. Len(st.out) : out[i] = st.out[i]
      /\ out[Len(st.out) + 1] = a
  BY <1>2, <1>3
<1>5. After(a) \in Position
  BY <1>2, AfterType
<1>6. /\ t.at = After(a) /\ t.out = out /\ t.pending = st.pending /\ t.cleared = st.cleared
      /\ t.undrained = st.undrained /\ t.done = st.done
  BY <1>1, <1>3 DEF PeekTypes
<1>7. PeekTypes(t)
  <2>1. t = [st EXCEPT !.out = out, !.at = After(a)]
    BY <1>3
  <2> QED BY <1>1, <1>3, <1>5, <2>1, Zenon DEF PeekTypes
<1>8. PICK m \in Nat : m = Len(st.out)
  BY <1>2
<1>9. \A i \in 1 .. m + 1 : i \in 1 .. m \/ i = m + 1
  OBVIOUS
<1>10. PICK x : x = <<a.sector, a.offset>> /\ x \in Rest(st) /\ x \in Live
  BY RestIs
<1>11. Rest(t) = Rest(st) \ {x}
  <2>1. \A y \in Live : a = At(y[1], y[2]) <=> y = x
    <3> SUFFICES ASSUME NEW y \in Live PROVE a = At(y[1], y[2]) <=> y = x
      OBVIOUS
    <3>1. y = <<y[1], y[2]>> /\ At(y[1], y[2]).sector = y[1] /\ At(y[1], y[2]).offset = y[2]
      BY LiveCell
    <3> QED BY <1>2, <1>10, <3>1
  <2>2. ASSUME NEW y \in Live
        PROVE  y \in Rest(t) <=> y \in Rest(st) /\ y # x
    <3>1. (\A i \in 1 .. m + 1 : out[i] # At(y[1], y[2]))
            <=> (\A i \in 1 .. m : st.out[i] # At(y[1], y[2])) /\ a # At(y[1], y[2])
      BY <1>4, <1>8, <1>9
    <3> QED BY <1>4, <1>6, <1>8, <2>1, <3>1 DEF Rest
  <2> QED BY <2>2, RestIs
<1>12. Cardinality(Rest(st)) = Cardinality(Rest(t)) + 1 /\ Cardinality(Rest(t)) \in Nat
  <2>1. PICK S : S = Rest(st) /\ IsFiniteSet(S) /\ x \in S
    BY <1>10, RestIs
  <2>2. Cardinality(S \ {x}) = Cardinality(S) - 1
    BY <2>1, FS_RemoveElement
  <2>3. Cardinality(Rest(t)) = Cardinality(Rest(st)) - 1
    BY <1>11, <2>1, <2>2
  <2>4. Cardinality(Rest(st)) \in Nat /\ Cardinality(Rest(t)) \in Nat
    BY RestIs
  <2> QED BY <2>3, <2>4
<1>13. \A s : ClearedIn(t, s) = ClearedIn(st, s)
  BY <1>6 DEF ClearedIn
<1>14. PeekCounts(t)
  <2>1. Len(out) + Cardinality(Rest(t)) = st.pending
    <3>1. Len(st.out) + Cardinality(Rest(st)) = st.pending
      BY <1>1 DEF PeekCounts
    <3>2. PICK r \in Nat : r = Cardinality(Rest(t)) /\ Cardinality(Rest(st)) = r + 1
      BY <1>12
    <3>3. PICK k \in Nat : k = Len(st.out) /\ Len(out) = k + 1
      BY <1>2, <1>4
    <3>4. k + (r + 1) = st.pending
      BY <3>1, <3>2, <3>3
    <3>5. (k + 1) + r = st.pending
      BY <3>4
    <3> QED BY ONLY <3>2, <3>3, <3>5, Zenon
  <2> QED BY <1>1, <1>6, <1>13, <2>1 DEF PeekCounts
<1>15. Rest(t) # {} =>
         /\ Dist(oldest.sector, After(a).sector) <= Dist(oldest.sector, activeSector)
         /\ \A y \in Rest(t) : AtOrAfter(After(a), y)
         /\ Passed(After(a)) >= Passed(a) + 1
         /\ Before(oldest, a, After(a)) /\ \A i \in 1 .. m : Before(oldest, st.out[i], After(a))
         /\ \A y \in Rest(t) : Before(oldest, a, At(y[1], y[2]))
  <2> SUFFICES ASSUME Rest(t) # {}
               PROVE  /\ Dist(oldest.sector, After(a).sector) <= Dist(oldest.sector, activeSector)
                      /\ \A y \in Rest(t) : AtOrAfter(After(a), y)
                      /\ Passed(After(a)) >= Passed(a) + 1
                      /\ Before(oldest, a, After(a)) /\ \A i \in 1 .. m : Before(oldest, st.out[i], After(a))
                      /\ \A y \in Rest(t) : Before(oldest, a, At(y[1], y[2]))
    OBVIOUS
  <2>1. PICK R \in SUBSET Rest(st) : R = Rest(t) /\ <<a.sector, a.offset>> \notin R /\ R # {}
    BY <1>10, <1>11
  <2>2. PICK c : c = After(a)
    OBVIOUS
  <2> QED BY <1>1, <1>8, <2>1, <2>2, CursorSteps
<1>16. PeekBatch(t, stale)
  <2>1. m + 1 <= MaxBatch
    BY <1>8, LogTypes DEF Stops
  <2>2. ASSUME NEW i \in 1 .. m + 1
        PROVE  /\ out[i].offset \in Slot /\ <<out[i].sector, out[i].offset>> \in Live
               /\ slot[out[i].sector][out[i].offset].id \notin stale
               /\ \A j \in 1 .. m + 1 : i < j => Before(oldest, out[i], out[j])
               /\ \A y \in Rest(t) : Before(oldest, out[i], At(y[1], y[2]))
    <3>1. CASE i \in 1 .. m
      <4>1. out[i] = st.out[i]
        BY <1>4, <1>8, <3>1
      <4>2. /\ st.out[i].offset \in Slot /\ <<st.out[i].sector, st.out[i].offset>> \in Live
            /\ slot[st.out[i].sector][st.out[i].offset].id \notin stale
            /\ \A j \in 1 .. m : i < j => Before(oldest, st.out[i], st.out[j])
            /\ \A y \in Rest(st) : Before(oldest, st.out[i], At(y[1], y[2]))
        BY <1>1, <1>8, <3>1 DEF PeekBatch
      <4>3. Before(oldest, st.out[i], At(x[1], x[2])) /\ At(x[1], x[2]) = a
        BY <1>2, <1>10, <4>2
      <4>4. \A j \in 1 .. m + 1 : i < j => Before(oldest, out[i], out[j])
        BY <1>4, <1>8, <1>9, <4>1, <4>2, <4>3
      <4> QED BY <1>11, <4>1, <4>2, <4>4
    <3>2. CASE i = m + 1
      <4>1. out[i] = a
        BY <1>4, <1>8, <3>2
      <4>2. \A j \in 1 .. m + 1 : ~ (i < j)
        BY <3>2
      <4> QED BY <1>10, <1>15, <4>1, <4>2
    <3> QED BY <1>9, <3>1, <3>2
  <2> QED BY <1>4, <1>6, <1>8, <2>1, <2>2 DEF PeekBatch
<1>17. PeekCursor(t)
  <2> SUFFICES ASSUME Rest(t) # {}
               PROVE  /\ Dist(oldest.sector, After(a).sector) <= Dist(oldest.sector, activeSector)
                      /\ \A y \in Rest(t) : AtOrAfter(After(a), y)
                      /\ \A i \in 1 .. m + 1 : Before(oldest, out[i], After(a))
    BY <1>4, <1>6, <1>8 DEF PeekCursor
  <2>1. \A i \in 1 .. m + 1 : Before(oldest, out[i], After(a))
    BY <1>4, <1>8, <1>9, <1>15
  <2> QED BY <1>15, <2>1
<1>18. PeekEnds(t, n + 1)
  <2>1. a \in Position /\ oldest.sector \in Sector
    BY <1>2, LogTypes
  <2>2. /\ Passed(a) \in Nat /\ Passed(a) < LastTurn /\ LastTurn \in Nat /\ Passed(After(a)) \in Nat
    BY <1>5, <2>1, PassedIs
  <2>3. Passed(a) >= n /\ ~ st.done
    BY <1>1 DEF PeekEnds
  <2>4. Stops(t) \/ Rest(t) # {}
    BY <1>7, <1>14, RestWhile
  <2>5. Stops(t) \/ Passed(After(a)) >= n + 1
    BY <1>15, <2>2, <2>3, <2>4
  <2> QED BY <1>6, <2>2, <2>3, <2>5 DEF PeekEnds
<1>19. PeekIsExact(t, stale)
  <2>1. CursorAfter(out, m + 1) = After(a)
    BY <1>4, <1>8 DEF CursorAfter
  <2> QED BY <1>1, <1>4, <1>6, <1>8, <2>1 DEF PeekIsExact
<1> QED BY <1>7, <1>14, <1>16, <1>17, <1>18, <1>19 DEF PeekInv

\* The records of a sector that were discarded are undrained ones of it.
LEMMA ClearedFits ==
  ASSUME LogInv, ready, NEW st, PeekTypes(st), PeekCounts(st), NEW a \in Position, a.offset \in Slot,
         <<a.sector, a.offset>> \in Live, a \notin st.cleared
  PROVE  /\ st.undrained[a.sector] > 0
         /\ IsFiniteSet(ClearedIn(st, a.sector)) /\ Cardinality(ClearedIn(st, a.sector)) \in Nat
<1>1. PICK s \in Sector : s = a.sector
  BY DEF Position
<1> DEFINE C == ClearedIn(st, s) \cup {a}
           f == [p \in C |-> p.offset]
<1>2. Exact(s)
  <2>1. OnWalk(<<a.sector, a.offset>>[1])
    BY DEF LogInv, WalkOK
  <2>2. pendingCount > 0
    BY LogTypes, LiveIs, CellSetIs
  <2> QED BY <1>1, <2>1, <2>2 DEF LogInv, WalkOK
<1>3. IsFiniteSet(ClearedIn(st, s)) /\ Cardinality(ClearedIn(st, s)) \in Nat
  <2>1. ClearedIn(st, s) \in SUBSET st.cleared /\ IsFiniteSet(st.cleared)
    BY DEF ClearedIn, PeekCounts
  <2> QED BY <2>1, FS_Subset, FS_CardinalityType
<1>4. a \notin ClearedIn(st, s)
  BY DEF ClearedIn
<1>5. IsFiniteSet(C) /\ Cardinality(C) = Cardinality(ClearedIn(st, s)) + 1
  BY <1>3, <1>4, FS_AddElement
<1>6. \A p \in C : p \in Position /\ p.sector = s /\ p.offset \in Und(s)
  <2>1. \A p \in C : p \in Position /\ p.sector = s /\ <<p.sector, p.offset>> \in Live
    BY <1>1, TypesOfPeek DEF ClearedIn, PeekCounts
  <2>2. \A p \in C : <<s, p.offset>> \in Live
    BY <2>1
  <2> QED BY <2>1, <2>2 DEF Live
<1>7. \A p, q \in C : p.offset = q.offset => p = q
  BY <1>6 DEF Position
<1>8. f \in [C -> Und(s)] /\ \A p, q \in C : f[p] = f[q] => p = q
  BY <1>6, <1>7
<1>9. IsFiniteSet(Und(s)) /\ Cardinality(Und(s)) \in Nat
  BY LiveIs, SlotSetIs
<1> HIDE DEF f, C
<1>10. f \in Injection(C, Und(s))
  BY <1>8 DEF Injection, IsInjective
<1>11. Cardinality(C) <= Cardinality(Und(s))
  BY <1>9, <1>10, FS_Injection
<1>12. PICK u \in Nat : u = st.undrained[s]
  BY TypesOfPeek
<1>13. u + Cardinality(ClearedIn(st, s)) = Cardinality(Und(s))
  BY <1>2, <1>12 DEF PeekCounts, Exact
<1>14. u > 0
  BY <1>3, <1>5, <1>9, <1>11, <1>12, <1>13
<1> QED BY <1>1, <1>3, <1>12, <1>14

\* A record is discarded.
LEMMA DiscardKeeps ==
  ASSUME LogInv, ready, NEW n \in Nat, NEW stale, NEW st, PeekInv(st, n, stale), ~ Stops(st),
         NEW a, a = st.at, a.offset \in Slot, <<a.sector, a.offset>> \in Rest(st), stale # {},
         NEW t, t = Discard([st EXCEPT !.at = At(a.sector, a.offset + 1)], a)
  PROVE  PeekInv(t, n + 1, stale)
<1>1. /\ PeekTypes(st) /\ PeekCounts(st) /\ PeekBatch(st, stale) /\ PeekCursor(st)
      /\ PeekEnds(st, n) /\ PeekIsExact(st, stale)
  BY DEF PeekInv
<1>2. /\ a \in Position /\ a = At(a.sector, a.offset) /\ st.out \in Seq(Position) /\ Len(st.out) \in Nat
      /\ st.pending \in Nat /\ a.sector \in Sector /\ st.cleared \in SUBSET Position
      /\ st.undrained \in [Sector -> Nat] /\ st.oldest \in Position
      /\ \A i \in 1 .. Len(st.out) : st.out[i] \in Position
  BY <1>1, TypesOfPeek
<1>3. PICK c \in Position : c = At(a.sector, a.offset + 1)
  <2>1. PICK o \in Offset : o = a.offset + 1
    BY SectorIs DEF Slot, Offset
  <2>2. At(a.sector, o) \in Position
    BY <1>2 DEF At, Position
  <2> QED BY <2>1, <2>2
<1>4. PICK x : x = <<a.sector, a.offset>> /\ x \in Rest(st) /\ x \in Live
  BY RestIs
<1>5. a \notin st.cleared
  <2>1. At(x[1], x[2]) = a
    BY <1>2, <1>4
  <2> QED BY <1>4, <2>1 DEF Rest
<1>6. st.pending > 0 /\ st.undrained[a.sector] > 0
  BY <1>1, <1>2, <1>4, <1>5, RestWhile, ClearedFits
<1>7. PICK u \in [Sector -> Nat] :
        /\ u = [st.undrained EXCEPT ![a.sector] = SatMinus(@, 1)]
        /\ st.undrained[a.sector] = u[a.sector] + 1
        /\ \A s \in Sector : s # a.sector => u[s] = st.undrained[s]
  <2>1. PICK v \in [Sector -> Nat] : v = st.undrained
    BY <1>2
  <2>2. PICK k \in Nat : k = v[a.sector] /\ k > 0
    BY <1>2, <1>6, <2>1
  <2>3. SatMinus(k, 1) = k - 1 /\ k - 1 \in Nat
    BY <2>2 DEF SatMinus
  <2>4. PICK j \in Nat : j = SatMinus(k, 1) /\ k = j + 1
    BY <2>2, <2>3
  <2>5. PICK u : u = [v EXCEPT ![a.sector] = j]
    OBVIOUS
  <2>6. u \in [Sector -> Nat] /\ u[a.sector] = j /\ \A s \in Sector : s # a.sector => u[s] = v[s]
    BY <1>2, <2>1, <2>5
  <2>7. u = [st.undrained EXCEPT ![a.sector] = SatMinus(@, 1)]
    BY <2>1, <2>2, <2>4, <2>5
  <2> QED BY <2>1, <2>2, <2>4, <2>6, <2>7
<1>8. PICK q \in Nat : q = SatMinus(st.pending, 1) /\ st.pending = q + 1
  BY <1>2, <1>6 DEF SatMinus
<1>9. PICK old \in Position : old = IF st.oldest = a THEN After(a) ELSE st.oldest
  BY <1>2, AfterType
<1>10. t = [st EXCEPT !.at = c, !.undrained = u, !.pending = q, !.cleared = st.cleared \cup {a},
                      !.oldest = old]
  BY <1>1, <1>3, <1>7, <1>8, <1>9 DEF Discard, PeekTypes
<1>11. /\ t.at = c /\ t.out = st.out /\ t.pending = q /\ t.cleared = st.cleared \cup {a}
       /\ t.undrained = u /\ t.done = st.done
  BY <1>1, <1>10 DEF PeekTypes
<1>12. PeekTypes(t)
  <2>1. PICK cl \in SUBSET Position : cl = st.cleared \cup {a}
    BY <1>2
  <2> QED BY <1>1, <1>3, <1>7, <1>8, <1>9, <1>10, <2>1, Zenon DEF PeekTypes
<1>13. Rest(t) = Rest(st) \ {x}
  <2>1. \A y \in Live : a = At(y[1], y[2]) <=> y = x
    <3> SUFFICES ASSUME NEW y \in Live PROVE a = At(y[1], y[2]) <=> y = x
      OBVIOUS
    <3>1. y = <<y[1], y[2]>> /\ At(y[1], y[2]).sector = y[1] /\ At(y[1], y[2]).offset = y[2]
      BY LiveCell
    <3> QED BY <1>2, <1>4, <3>1
  <2>2. ASSUME NEW y \in Live
        PROVE  y \in Rest(t) <=> y \in Rest(st) /\ y # x
    BY <1>11, <2>1 DEF Rest
  <2> QED BY <2>2, RestIs
<1>14. PICK r \in Nat : Cardinality(Rest(t)) = r /\ Cardinality(Rest(st)) = r + 1
  <2>1. PICK S : S = Rest(st) /\ IsFiniteSet(S) /\ x \in S
    BY <1>4, RestIs
  <2>2. Cardinality(S \ {x}) = Cardinality(S) - 1
    BY <2>1, FS_RemoveElement
  <2>3. Cardinality(Rest(t)) = Cardinality(Rest(st)) - 1
    BY <1>13, <2>1, <2>2
  <2>4. Cardinality(Rest(st)) \in Nat /\ Cardinality(Rest(t)) \in Nat
    BY RestIs
  <2> QED BY <2>3, <2>4
<1>15. PeekCounts(t)
  <2>1. Len(t.out) + Cardinality(Rest(t)) = t.pending
    <3>1. Len(st.out) + Cardinality(Rest(st)) = st.pending
      BY <1>1 DEF PeekCounts
    <3>2. PICK k \in Nat : k = Len(st.out)
      BY <1>2
    <3>3. k + (r + 1) = q + 1
      BY <1>8, <1>14, <3>1, <3>2
    <3>4. k + r = q
      BY <3>3
    <3> QED BY <1>11, <1>14, <3>2, <3>4
  <2>2. /\ IsFiniteSet(t.cleared) /\ t.pending + Cardinality(t.cleared) = pendingCount
    <3>1. IsFiniteSet(st.cleared) /\ st.pending + Cardinality(st.cleared) = pendingCount
      BY <1>1 DEF PeekCounts
    <3>2. PICK k \in Nat : k = Cardinality(st.cleared)
      BY <3>1, FS_CardinalityType
    <3>3. IsFiniteSet(t.cleared) /\ Cardinality(t.cleared) = k + 1
      BY <1>5, <1>11, <3>1, <3>2, FS_AddElement
    <3>4. q + (k + 1) = pendingCount
      BY <1>8, <3>1, <3>2
    <3> QED BY <1>11, <3>3, <3>4
  <2>3. \A p \in t.cleared : p.offset \in Slot /\ <<p.sector, p.offset>> \in Live
    BY <1>1, <1>4, <1>11 DEF PeekCounts
  <2>4. ASSUME NEW s \in Sector
        PROVE  t.undrained[s] + Cardinality(ClearedIn(t, s)) = undrainedInSector[s]
    <3>1. st.undrained[s] + Cardinality(ClearedIn(st, s)) = undrainedInSector[s]
      BY <1>1 DEF PeekCounts
    <3>2. CASE s # a.sector
      <4>1. ClearedIn(t, s) = ClearedIn(st, s)
        BY <1>11, <3>2 DEF ClearedIn
      <4> QED BY <1>7, <1>11, <3>1, <3>2, <4>1
    <3>3. CASE s = a.sector
      <4>1. PICK C : C = ClearedIn(st, s) /\ IsFiniteSet(C) /\ Cardinality(C) \in Nat
        BY <1>1, <1>2, <1>4, <1>5, <3>3, ClearedFits
      <4>2. ClearedIn(t, s) = C \cup {a} /\ a \notin C
        BY <1>5, <1>11, <3>3, <4>1 DEF ClearedIn
      <4>3. PICK k \in Nat : k = Cardinality(C)
        BY <4>1
      <4>4. Cardinality(ClearedIn(t, s)) = k + 1
        BY <4>1, <4>2, <4>3, FS_AddElement
      <4>5. PICK v \in Nat : v = u[s] /\ st.undrained[s] = v + 1
        BY <1>7, <3>3
      <4>6. v + (k + 1) = undrainedInSector[s]
        BY <3>1, <4>1, <4>3, <4>5
      <4> QED BY <1>11, <4>4, <4>5, <4>6
    <3> QED BY <3>2, <3>3
  <2> QED BY <2>1, <2>2, <2>3, <2>4 DEF PeekCounts
<1>16. Rest(t) # {} =>
         /\ Dist(oldest.sector, c.sector) <= Dist(oldest.sector, activeSector)
         /\ \A y \in Rest(t) : AtOrAfter(c, y)
         /\ Passed(c) >= Passed(a) + 1
         /\ \A i \in 1 .. Len(st.out) : Before(oldest, st.out[i], c)
  <2> SUFFICES ASSUME Rest(t) # {}
               PROVE  /\ Dist(oldest.sector, c.sector) <= Dist(oldest.sector, activeSector)
                      /\ \A y \in Rest(t) : AtOrAfter(c, y)
                      /\ Passed(c) >= Passed(a) + 1
                      /\ \A i \in 1 .. Len(st.out) : Before(oldest, st.out[i], c)
    OBVIOUS
  <2>1. PICK R \in SUBSET Rest(st) : R = Rest(t) /\ <<a.sector, a.offset>> \notin R /\ R # {}
    BY <1>4, <1>13
  <2> QED BY <1>1, <1>3, <2>1, CursorSteps
<1>17. PeekBatch(t, stale)
  <2>1. PICK R \in SUBSET Rest(st) : R = Rest(t)
    BY <1>13
  <2>2. t.out = st.out
    BY <1>11
  <2>3. /\ Len(st.out) <= MaxBatch
        /\ \A i \in 1 .. Len(st.out) :
             /\ st.out[i].offset \in Slot /\ <<st.out[i].sector, st.out[i].offset>> \in Live
             /\ slot[st.out[i].sector][st.out[i].offset].id \notin stale
             /\ \A j \in 1 .. Len(st.out) : i < j => Before(oldest, st.out[i], st.out[j])
    BY <1>1, Zenon DEF PeekBatch
  <2>4. \A i \in 1 .. Len(st.out) : \A y \in R : Before(oldest, st.out[i], At(y[1], y[2]))
    <3>1. \A i \in 1 .. Len(st.out) : \A y \in Rest(st) : Before(oldest, st.out[i], At(y[1], y[2]))
      BY <1>1, Zenon DEF PeekBatch
    <3> QED BY <2>1, <3>1, Zenon
  <2> QED BY <2>1, <2>2, <2>3, <2>4, Zenon DEF PeekBatch
<1>18. PeekCursor(t)
  BY <1>11, <1>16 DEF PeekCursor
<1>19. PeekEnds(t, n + 1)
  <2>1. a \in Position /\ oldest.sector \in Sector
    BY <1>2, LogTypes
  <2>2. /\ Passed(a) \in Nat /\ Passed(a) < LastTurn /\ LastTurn \in Nat /\ Passed(c) \in Nat
    BY <2>1, PassedIs
  <2>3. Passed(a) >= n /\ ~ st.done
    BY <1>1 DEF PeekEnds
  <2>4. Stops(t) \/ Rest(t) # {}
    BY <1>12, <1>15, RestWhile
  <2>5. Stops(t) \/ Passed(c) >= n + 1
    BY <1>16, <2>2, <2>3, <2>4, SMTT(20)
  <2> QED BY <1>11, <2>2, <2>3, <2>5 DEF PeekEnds
<1>20. PeekIsExact(t, stale)
  BY DEF PeekIsExact
<1> QED BY <1>12, <1>15, <1>17, <1>18, <1>19, <1>20 DEF PeekInv

\* One turn of the loop.
LEMMA TurnKeeps ==
  ASSUME LogInv, ready, NEW n \in Nat, NEW stale, NEW st, PeekInv(st, n, stale)
  PROVE  PeekInv(PeekTurn(st, stale), n + 1, stale)
<1>1. /\ PeekTypes(st) /\ PeekCounts(st) /\ PeekBatch(st, stale) /\ PeekCursor(st)
      /\ PeekEnds(st, n) /\ PeekIsExact(st, stale)
  BY DEF PeekInv
<1>2. PICK a : a = st.at
  OBVIOUS
<1>3. a \in Position /\ a.sector \in Sector /\ a.offset \in Offset /\ a = At(a.sector, a.offset)
  BY <1>1, <1>2, TypesOfPeek
<1>4. a.offset < SlotsPerSector <=> a.offset \in Slot
  BY <1>3, SectorIs DEF Offset, Slot
<1>5. PICK readable \in BOOLEAN : readable <=> a.offset < SlotsPerSector /\ IsRecord(a.sector, a.offset)
  OBVIOUS
<1>6. PICK step : step = [st EXCEPT !.at = At(a.sector, a.offset + 1)]
  OBVIOUS
<1>7. PeekTurn(st, stale) =
        IF st.done \/ Stops(st) THEN [st EXCEPT !.done = TRUE]
        ELSE IF ~ readable THEN LeaveSector(st)
        ELSE IF ~ slot[a.sector][a.offset].undrained \/ a \in st.cleared THEN step
        ELSE IF slot[a.sector][a.offset].id \in stale THEN Discard(step, a)
        ELSE [st EXCEPT !.out = Append(@, a), !.at = After(a)]
  BY <1>2, <1>3, <1>5, <1>6 DEF PeekTurn, Stops
<1>8. CASE st.done \/ Stops(st)
  <2>1. Stops(st)
    BY <1>1, <1>8 DEF PeekEnds
  <2>2. PICK t : t = [st EXCEPT !.done = TRUE]
    OBVIOUS
  <2>3. PeekInv(t, n + 1, stale)
    BY <2>1, <2>2, StopKeeps
  <2> QED BY <1>7, <1>8, <2>2, <2>3
<1>9. CASE ~ (st.done \/ Stops(st)) /\ ~ readable
  <2>1. Rest(st) # {}
    BY <1>1, <1>9, RestWhile
  <2>2. PICK c : c = At(NextSector(a.sector), 0)
    OBVIOUS
  <2>3. /\ a.sector # activeSector /\ c \in Position
        /\ Dist(oldest.sector, c.sector) <= Dist(oldest.sector, activeSector)
        /\ \A x \in Rest(st) : AtOrAfter(c, x)
        /\ Passed(c) >= Passed(a) + 1
        /\ \A i \in 1 .. Len(st.out) : Before(oldest, st.out[i], c)
    BY <1>1, <1>2, <1>5, <1>9, <2>1, <2>2, SectorLeft
  <2>4. PICK t : t = [st EXCEPT !.at = c]
    OBVIOUS
  <2>5. PeekInv(t, n + 1, stale)
    BY <1>2, <1>9, <2>3, <2>4, MoveKeeps
  <2>6. LeaveSector(st) = t
    BY <1>2, <2>2, <2>3, <2>4 DEF LeaveSector
  <2> QED BY <1>7, <1>9, <2>5, <2>6
<1>10. CASE ~ (st.done \/ Stops(st)) /\ readable
  <2>1. Rest(st) # {}
    BY <1>1, <1>10, RestWhile
  <2>2. a.offset \in Slot /\ IsRecord(a.sector, a.offset)
    BY <1>4, <1>5, <1>10
  <2>3. <<a.sector, a.offset>> \in Rest(st)
          <=> slot[a.sector][a.offset].undrained /\ a \notin st.cleared
    BY <1>1, <1>2, <2>1, <2>2, CellAtCursor DEF IsUndrained
  <2>4. CASE <<a.sector, a.offset>> \notin Rest(st)
    <3>1. PICK c : c = At(a.sector, a.offset + 1)
      OBVIOUS
    <3>2. PICK R \in SUBSET Rest(st) : R = Rest(st)
      OBVIOUS
    <3>3. /\ c \in Position
          /\ Dist(oldest.sector, c.sector) <= Dist(oldest.sector, activeSector)
          /\ \A x \in R : AtOrAfter(c, x)
          /\ Passed(c) >= Passed(a) + 1
          /\ \A i \in 1 .. Len(st.out) : Before(oldest, st.out[i], c)
      BY <1>1, <1>2, <2>1, <2>2, <2>4, <3>1, <3>2, CursorSteps
    <3>4. PeekInv(step, n + 1, stale)
      BY <1>2, <1>6, <1>10, <3>1, <3>2, <3>3, MoveKeeps
    <3> QED BY <1>7, <1>10, <2>3, <2>4, <3>4
  <2>5. CASE <<a.sector, a.offset>> \in Rest(st) /\ slot[a.sector][a.offset].id \in stale
    <3>1. PICK t : t = Discard([st EXCEPT !.at = At(a.sector, a.offset + 1)], a)
      OBVIOUS
    <3>2. PeekInv(t, n + 1, stale)
      BY <1>2, <1>10, <2>2, <2>5, <3>1, DiscardKeeps
    <3> QED BY <1>6, <1>7, <1>10, <2>3, <2>5, <3>1, <3>2
  <2>6. CASE <<a.sector, a.offset>> \in Rest(st) /\ slot[a.sector][a.offset].id \notin stale
    <3>1. PICK t : t = [st EXCEPT !.out = Append(@, a), !.at = After(a)]
      OBVIOUS
    <3>2. PeekInv(t, n + 1, stale)
      BY <1>2, <1>10, <2>2, <2>6, <3>1, TakeKeeps
    <3> QED BY <1>7, <1>10, <2>3, <2>6, <3>1, <3>2
  <2> QED BY <2>4, <2>5, <2>6
<1> QED BY <1>8, <1>9, <1>10

\* The loop has ended, and its counts, its batch and its cursor are right.
LEMMA PeekResult ==
  ASSUME LogInv, ready, NEW stale
  PROVE  /\ PeekInv(PeekLoop(stale), PeekTurns, stale)
         /\ PeekLoop(stale).done
<1>1. PICK f : PeekRun(f, stale) /\ PeekLoop(stale) = f[PeekTurns]
  BY PeekLoopIs
<1>2. PeekTurns \in Nat /\ PeekTurns > LastTurn /\ LastTurn \in Nat
  BY TurnsIs DEF LastTurn
<1> DEFINE Fails == {m \in 0 .. PeekTurns : ~ PeekInv(f[m], m, stale)}
<1>3. Fails = {}
  <2> SUFFICES ASSUME Fails # {} PROVE FALSE
    OBVIOUS
  <2>1. Fails \in SUBSET Nat
    BY <1>2
  <2>2. \A m \in 0 .. PeekTurns : m \in Fails <=> ~ PeekInv(f[m], m, stale)
    OBVIOUS
  <2>3. \A m \in Fails : m \in 0 .. PeekTurns
    OBVIOUS
  <2> HIDE DEF Fails
  <2>4. PICK m \in Fails : \A k \in Fails : m <= k
    BY <2>1, Least
  <2>5. m \in 0 .. PeekTurns /\ m \in Nat
    BY <2>1, <2>3, <2>4
  <2>6. f[m] = IF m = 0 THEN PeekStart ELSE PeekTurn(f[m - 1], stale)
    BY <1>1, <2>5 DEF PeekRun
  <2>7. CASE m = 0
    BY <2>2, <2>4, <2>5, <2>6, <2>7, PeekBegins
  <2>8. CASE m # 0
    <3>1. PICK k \in Nat : k = m - 1 /\ m = k + 1 /\ k \in 0 .. PeekTurns
      BY <1>2, <2>5, <2>8
    <3>2. k \notin Fails
      BY <2>4, <2>5, <3>1
    <3>3. PICK st : st = f[k]
      OBVIOUS
    <3>4. PeekInv(st, k, stale)
      BY <2>2, <3>1, <3>2, <3>3
    <3>5. PeekInv(PeekTurn(st, stale), k + 1, stale)
      BY <3>4, TurnKeeps
    <3> QED BY <2>2, <2>4, <2>5, <2>6, <2>8, <3>1, <3>3, <3>5
  <2> QED BY <2>7, <2>8
<1>4. PeekInv(f[PeekTurns], PeekTurns, stale)
  BY <1>2, <1>3
<1>5. PeekEnds(f[PeekTurns], PeekTurns)
  BY <1>4 DEF PeekInv
<1>6. f[PeekTurns].done
  BY <1>2, <1>5 DEF PeekEnds
<1> QED BY <1>1, <1>4, <1>6

\* PeekDiscardsCleanly: the discards of a batch leave every counter right, also after appends
\* that failed.
LEMMA PeekDiscardsCleanlyHere ==
  ASSUME LogInv
  PROVE  PeekDiscardsCleanly
<1> SUFFICES ASSUME ready, NEW stale \in SUBSET Stored
             PROVE  LET r == PeekLoop(stale)
                    IN /\ r.done
                       /\ r.pending = pendingCount - Cardinality(r.cleared)
                       /\ \A s \in Sector : r.undrained[s] =
                            undrainedInSector[s] - Cardinality({p \in r.cleared : p.sector = s})
                       /\ \A i \in 1 .. Len(r.out) :
                            slot[r.out[i].sector][r.out[i].offset].id \notin stale
                       /\ Len(r.out) < MaxBatch => Len(r.out) = r.pending
  BY DEF PeekDiscardsCleanly
<1>1. PICK r : r = PeekLoop(stale) /\ PeekInv(r, PeekTurns, stale) /\ r.done
  BY PeekResult
<1>2. /\ PeekTypes(r) /\ PeekCounts(r) /\ PeekBatch(r, stale) /\ PeekEnds(r, PeekTurns)
  BY <1>1 DEF PeekInv
<1>3. /\ r.pending \in Nat /\ r.undrained \in [Sector -> Nat] /\ Len(r.out) \in Nat
  BY <1>2, TypesOfPeek
<1>4. IsFiniteSet(r.cleared) /\ Cardinality(r.cleared) \in Nat
      /\ r.pending + Cardinality(r.cleared) = pendingCount
  BY <1>2, FS_CardinalityType DEF PeekCounts
<1>5. r.pending = pendingCount - Cardinality(r.cleared)
  BY <1>3, <1>4
<1>6. ASSUME NEW s \in Sector
      PROVE  r.undrained[s] = undrainedInSector[s] - Cardinality({p \in r.cleared : p.sector = s})
  <2>1. PICK C \in SUBSET r.cleared : C = {p \in r.cleared : p.sector = s}
    OBVIOUS
  <2>2. Cardinality(C) \in Nat
    BY <1>4, FS_Subset, FS_CardinalityType
  <2>3. PICK u \in Nat : u = r.undrained[s]
    BY <1>3
  <2>4. u + Cardinality(C) = undrainedInSector[s]
    BY <1>2, <2>1, <2>3 DEF PeekCounts, ClearedIn
  <2>5. u = undrainedInSector[s] - Cardinality(C)
    BY <2>2, <2>4
  <2> QED BY <2>1, <2>3, <2>5
<1>7. \A i \in 1 .. Len(r.out) : slot[r.out[i].sector][r.out[i].offset].id \notin stale
  BY <1>2 DEF PeekBatch
<1>8. Len(r.out) < MaxBatch => Len(r.out) = r.pending
  <2>1. Stops(r) /\ Len(r.out) <= r.pending
    BY <1>1, <1>2, RestWhile DEF PeekEnds
  <2> QED BY <1>3, <2>1 DEF Stops
<1> QED BY <1>1, <1>5, <1>6, <1>7, <1>8

\* The first records of the walk, as many as a batch may hold, are what IsPeek asks for.
LEMMA TakenIsPeek ==
  ASSUME LogInv, ready, NEW n \in Nat, n = PeekLimit, NEW ps \in [1 .. n -> Position], Len(ps) = n,
         \A j \in 1 .. n : ps[j].offset \in Slot, Taken(ps, n)
  PROVE  IsPeek(ps)
<1>1. n <= pendingCount /\ pendingCount \in Nat
  BY LogTypes DEF PeekLimit
<1>2. PICK w \in Sector, z \in Sector : w = oldest.sector /\ z = activeSector
  BY LogTypes
<1>3. ASSUME NEW i \in 1 .. n
      PROVE  IsNext(CursorAfter(ps, i - 1), ps[i])
  <2>1. PICK k \in 0 .. n : k = i - 1 /\ i = k + 1 /\ k < pendingCount
    BY <1>1
  <2>2. \A j \in 1 .. k : j \in 1 .. n /\ j < i
    BY <2>1
  <2>3. Taken(ps, k)
    <3>1. ASSUME NEW x \in Live
          PROVE  \/ \E j \in 1 .. k : ps[j] = At(x[1], x[2])
                 \/ \A j \in 1 .. k : Before(oldest, ps[j], At(x[1], x[2]))
      <4>1. CASE \E j \in 1 .. n : ps[j] = At(x[1], x[2])
        <5>1. PICK j \in 1 .. n : ps[j] = At(x[1], x[2])
          BY <4>1
        <5>2. j \in 1 .. k \/ \A h \in 1 .. k : h < j
          BY <2>1
        <5> QED BY <2>2, <5>1, <5>2 DEF Taken
      <4>2. CASE \A j \in 1 .. n : Before(oldest, ps[j], At(x[1], x[2]))
        BY <2>2, <4>2
      <4> QED BY <4>1, <4>2 DEF Taken
    <3> QED BY <2>2, <3>1 DEF Taken
  <2>4. PICK c : c = CursorAfter(ps, k)
    OBVIOUS
  <2>5. /\ c \in Position /\ Dist(oldest.sector, c.sector) <= Dist(oldest.sector, activeSector)
        /\ \A p \in Position : p \in Visible(c) <=>
             <<p.sector, p.offset>> \in Live /\ \A j \in 1 .. k : Before(oldest, ps[j], p)
    BY <2>1, <2>3, <2>4, WalkGoesOn
  <2>6. PICK p \in Position : p = ps[i]
    OBVIOUS
  <2>7. p \in Visible(c)
    <3>1. <<p.sector, p.offset>> \in Live /\ \A j \in 1 .. k : Before(oldest, ps[j], p)
      BY <2>2, <2>6 DEF Taken
    <3> QED BY <2>5, <3>1
  <2>8. ASSUME NEW q \in Visible(c) \ {p}
        PROVE  Before(c, p, q)
    <3>1. q \in Position /\ <<q.sector, q.offset>> \in Live /\ \A j \in 1 .. k : Before(oldest, ps[j], q)
      <4>1. q \in Position
        BY DEF Visible
      <4> QED BY <2>5, <4>1
    <3>2. q.sector \in Sector /\ q.offset \in Offset /\ q = At(q.sector, q.offset) /\ p.sector \in Sector
      BY <3>1 DEF Position, At
    <3>3. PICK x \in Live : At(x[1], x[2]) = q
      BY <3>1, <3>2
    <3>4. Before(oldest, p, q)
      <4>1. CASE \E j \in 1 .. n : ps[j] = q
        <5>1. PICK j \in 1 .. n : ps[j] = q
          BY <4>1
        <5>2. j # i
          BY <2>6, <5>1
        <5>3. j \notin 1 .. k
          <6>1. ~ Before(oldest, q, q)
            BY <1>2, <3>1, BeforeIs
          <6> QED BY <3>1, <5>1, <6>1
        <5>4. i < j
          BY <2>1, <5>2, <5>3
        <5> QED BY <2>6, <5>1, <5>4 DEF Taken
      <4>2. CASE \A j \in 1 .. n : Before(oldest, ps[j], q)
        BY <2>6, <4>2
      <4> QED BY <3>3, <4>1, <4>2 DEF Taken
    <3>5. c.sector \in Sector /\ Dist(w, c.sector) <= Dist(w, z)
      BY <1>2, <2>5 DEF Position
    <3>6. \A v \in Visible(c) : Dist(c.sector, v.sector) <= Dist(c.sector, z)
      BY <1>2 DEF Visible
    <3>7. /\ Dist(c.sector, p.sector) = Dist(w, p.sector) - Dist(w, c.sector)
          /\ Dist(c.sector, q.sector) = Dist(w, q.sector) - Dist(w, c.sector)
      BY <2>7, <3>2, <3>5, <3>6, RestOfWalk
    <3>8. Dist(w, p.sector) \in Nat /\ Dist(w, q.sector) \in Nat /\ Dist(w, c.sector) \in Nat
      <4>1. \A s \in Sector : Dist(w, s) \in Nat
        BY DistIs, SectorIs
      <4> QED BY <3>2, <3>5, <4>1
    <3> QED BY <1>2, <3>4, <3>7, <3>8 DEF Before
  <2>9. IsNext(c, p)
    BY <2>7, <2>8 DEF IsNext
  <2> QED BY <2>1, <2>4, <2>6, <2>9
<1>4. ~ (Len(ps) < PeekLimit)
  OBVIOUS
<1> QED BY <1>3, <1>4 DEF IsPeek

\* PeekAgrees: whatever was appended, evicted and marked before, the collection loop takes the
\* batch PeekPending describes and ends where it says.
LEMMA PeekAgreesHere ==
  ASSUME LogInv
  PROVE  PeekAgrees
<1> SUFFICES ASSUME ready
             PROVE  LET r == PeekLoop({})
                        end == CursorAfter(r.out, Len(r.out))
                    IN /\ r.done
                       /\ IsPeek(r.out)
                       /\ r.at = IF Len(r.out) = PeekLimit THEN end ELSE Frontier(end)
  BY DEF PeekAgrees
<1>1. PICK r : r = PeekLoop({}) /\ PeekInv(r, PeekTurns, {}) /\ r.done
  BY PeekResult
<1>2. /\ PeekTypes(r) /\ PeekCounts(r) /\ PeekBatch(r, {}) /\ PeekEnds(r, PeekTurns)
      /\ PeekIsExact(r, {})
  BY <1>1 DEF PeekInv
<1>3. PICK ps \in Seq(Position) : ps = r.out
  BY <1>2, TypesOfPeek
<1>4. PICK n \in Nat : n = Len(ps) /\ ps \in [1 .. n -> Position]
  BY <1>3
<1>5. Stops(r) /\ r.cleared = {} /\ r.at = CursorAfter(ps, n)
  BY <1>1, <1>2, <1>3, <1>4 DEF PeekEnds, PeekIsExact
<1>6. r.pending = pendingCount
  <2>1. Cardinality({}) = 0 /\ r.pending \in Nat
    BY <1>2, TypesOfPeek, FS_EmptySet
  <2>2. r.pending + Cardinality({}) = pendingCount
    BY <1>2, <1>5 DEF PeekCounts
  <2> QED BY <2>1, <2>2
<1>7. n = PeekLimit
  <2>1. n <= MaxBatch /\ n <= pendingCount
    BY <1>2, <1>3, <1>4, <1>6, RestWhile DEF PeekBatch
  <2>2. n >= MaxBatch \/ n >= pendingCount
    BY <1>3, <1>4, <1>5, <1>6, LogTypes DEF Stops
  <2> QED BY <2>1, <2>2, LogTypes DEF PeekLimit
<1>8. Taken(ps, n)
  <2>1. \A j \in 1 .. n : <<ps[j].sector, ps[j].offset>> \in Live
    BY <1>2, <1>3, <1>4 DEF PeekBatch
  <2>2. \A i, j \in 1 .. n : i < j => Before(oldest, ps[i], ps[j])
    BY <1>2, <1>3, <1>4 DEF PeekBatch
  <2>3. \A x \in Live : x \in Rest(r) \/ \E j \in 1 .. n : ps[j] = At(x[1], x[2])
    BY <1>3, <1>4, <1>5 DEF Rest
  <2>4. \A x \in Rest(r), j \in 1 .. n : Before(oldest, ps[j], At(x[1], x[2]))
    BY <1>2, <1>3, <1>4 DEF PeekBatch
  <2> QED BY <2>1, <2>2, <2>3, <2>4 DEF Taken
<1>9. \A j \in 1 .. n : ps[j].offset \in Slot
  BY <1>2, <1>3, <1>4 DEF PeekBatch
<1>10. IsPeek(ps)
  BY <1>4, <1>7, <1>8, <1>9, TakenIsPeek
<1> QED BY <1>1, <1>3, <1>4, <1>5, <1>7, <1>10

-----------------------------------------------------------------------------
(* The boot scan, slot by slot.                                             *)

\* Quotient and remainder.
LEMMA DivMod ==
  ASSUME NEW m \in Nat, NEW S \in Nat, S > 0
  PROVE  /\ m \div S \in Nat /\ m % S \in 0 .. S - 1
         /\ m = (m \div S) * S + (m % S)
OBVIOUS

\* One turn around the ring.
LEMMA Wraps ==
  ASSUME NEW m \in Nat, NEW S \in Nat, S > 0, m < 2 * S
  PROVE  m % S = IF m < S THEN m ELSE m - S
OBVIOUS

\* The boot scan visits the slots of the occupied sectors one by one, from the oldest sector on.
ScanTotal == Cardinality(Occupied) * SlotsPerSector
Visit(n) == At((OldestOccupied + ((n - 1) \div SlotsPerSector)) % NumSectors,
               (n - 1) % SlotsPerSector)
Place(p) == Dist(OldestOccupied, p.sector) * SlotsPerSector + p.offset

\* f holds the state of the boot scan after every visit.
ScanRun(f, stale) ==
  f = [n \in 0 .. ScanTotal |-> IF n = 0 THEN ScanStart ELSE ScanSlot(f[n - 1], Visit(n), stale)]

\* The scan walks the occupied sectors.
LEMMA ScanIs ==
  ASSUME LogInv, ~ ready, Occupied # {}
  PROVE  /\ OldestOccupied \in Sector /\ Walked = Occupied
         /\ IsFiniteSet(Occupied) /\ Cardinality(Occupied) \in 0 .. NumSectors
         /\ ScanTotal \in Nat
<1>1. PICK a \in Sector, z \in Sector : IsArc(a, z)
  BY DEF LogInv, RingOK
<1>2. OldestOccupied = a /\ Walked = Occupied
  BY <1>1, ArcIs
<1>3. IsFiniteSet(Occupied) /\ Cardinality(Occupied) \in 0 .. NumSectors
  <2>1. IsFiniteSet(Sector) /\ Occupied \in SUBSET Sector
    BY SectorIs, FS_Interval DEF Sector, Occupied
  <2>2. Cardinality(Sector) = NumSectors
    <3>1. Cardinality(0 .. NumSectors - 1) =
            IF 0 > NumSectors - 1 THEN 0 ELSE (NumSectors - 1) - 0 + 1
      BY SectorIs, FS_Interval
    <3> QED BY <3>1, SectorIs DEF Sector
  <2> QED BY <2>1, <2>2, FS_Subset, FS_CardinalityType, SectorIs
<1> QED BY <1>1, <1>2, <1>3, SectorIs DEF ScanTotal

\* Sectors first, offsets second.
LEMMA Lexical ==
  ASSUME NEW S \in Nat, NEW d \in Nat, NEW e \in Nat, NEW o \in Nat, o < S, NEW r \in Nat, r < S
  PROVE  d < e => d * S + o < e * S + r
<1> SUFFICES ASSUME d < e PROVE d * S + o < e * S + r
  OBVIOUS
<1>1. PICK k \in Nat : e = (d + 1) + k
  OBVIOUS
<1>2. e * S = (d * S + S) + k * S /\ k * S \in Nat /\ d * S \in Nat
  BY <1>1
<1> QED BY <1>2

\* The place of a slot in the scan tells it from all others and orders them as the walk does.
LEMMA PlaceIs ==
  ASSUME OldestOccupied \in Sector, NEW p \in Position, p.offset \in Slot,
         NEW q \in Position, q.offset \in Slot
  PROVE  /\ Place(p) \in Nat
         /\ Place(p) = Place(q) => p = q
         /\ Place(p) < Place(q) => Before(At(OldestOccupied, 0), p, q)
<1>1. PICK S \in Nat : S = SlotsPerSector /\ S > 0
  BY SectorIs
<1>2. PICK o \in Nat, r \in Nat : o = p.offset /\ r = q.offset /\ o < S /\ r < S
  BY <1>1, SectorIs DEF Slot
<1>3. PICK d \in Nat, e \in Nat :
        d = Dist(OldestOccupied, p.sector) /\ e = Dist(OldestOccupied, q.sector)
  BY DistIs, SectorIs DEF Position
<1>4. d = e => p.sector = q.sector
  BY <1>3, DistIs DEF Position
<1>5. Place(p) = d * S + o /\ Place(q) = e * S + r /\ d * S \in Nat /\ e * S \in Nat
  BY <1>1, <1>2, <1>3 DEF Place
<1>6. (d < e => d * S + o < e * S + r) /\ (e < d => e * S + r < d * S + o)
  BY <1>2, Lexical
<1>7. Place(p) = Place(q) => p = q
  <2> SUFFICES ASSUME Place(p) = Place(q) PROVE p = q
    OBVIOUS
  <2>1. PICK x \in Nat, y \in Nat : x = d * S /\ y = e * S
    BY <1>5
  <2>2. x + o = y + r
    BY <1>5, <2>1
  <2>3. (d < e => x + o < y + r) /\ (e < d => y + r < x + o)
    BY <1>6, <2>1
  <2>4. d = e
    BY <2>2, <2>3
  <2>5. o = r
    BY <2>1, <2>2, <2>4
  <2>6. p = At(p.sector, p.offset) /\ q = At(q.sector, q.offset)
    BY DEF At, Position
  <2> QED BY <1>2, <1>4, <2>4, <2>5, <2>6
<1>8. Place(p) < Place(q) => Before(At(OldestOccupied, 0), p, q)
  <2> SUFFICES ASSUME Place(p) < Place(q) PROVE Before(At(OldestOccupied, 0), p, q)
    OBVIOUS
  <2>1. At(OldestOccupied, 0).sector = OldestOccupied
    BY DEF At
  <2>2. d < e \/ (d = e /\ o < r)
    BY <1>5, <1>6
  <2> QED BY <1>2, <1>3, <1>4, <2>1, <2>2 DEF Before
<1> QED BY <1>5, <1>7, <1>8

\* Visit n is to the n-th place, of an occupied sector; the one before it to the slot before.
LEMMA VisitIs ==
  ASSUME LogInv, ~ ready, Occupied # {}, NEW n \in 1 .. ScanTotal
  PROVE  /\ Visit(n) \in Position /\ Visit(n).sector \in Sector /\ Visit(n).offset \in Slot
         /\ Visit(n).sector \in Occupied
         /\ Place(Visit(n)) = n - 1
         /\ Visit(n).offset > 0 =>
              n - 1 \in 1 .. ScanTotal /\ Visit(n - 1) = At(Visit(n).sector, Visit(n).offset - 1)
<1>1. PICK S \in Nat : S = SlotsPerSector /\ S > 0
  BY SectorIs
<1>2. PICK a \in Sector : a = OldestOccupied
  BY ScanIs
<1>3. PICK c \in 0 .. NumSectors : c = Cardinality(Occupied)
  BY ScanIs
<1> DEFINE Good(m) == /\ Visit(m) \in Position /\ Visit(m).sector \in Sector /\ Visit(m).offset \in Slot
                      /\ Visit(m).sector \in Occupied /\ Place(Visit(m)) = m - 1
<1>4. ASSUME NEW m \in 1 .. ScanTotal PROVE Good(m)
  <2>1. PICK k \in Nat, o \in 0 .. S - 1 :
          k = (m - 1) \div SlotsPerSector /\ o = (m - 1) % SlotsPerSector /\ m - 1 = k * S + o
    <3>1. PICK j \in Nat : j = m - 1
      OBVIOUS
    <3> QED BY <1>1, <3>1, DivMod
  <2>2. k < c
    <3>1. k * S + o < c * S
      BY <1>1, <1>3, <2>1, ScanIs DEF ScanTotal
    <3>2. k * S \in Nat /\ c * S \in Nat /\ c \in Nat
      BY <1>3, SectorIs
    <3>3. c <= k => c * S <= k * S
      <4> SUFFICES ASSUME c <= k PROVE c * S <= k * S
        OBVIOUS
      <4>1. PICK i \in Nat : k = c + i
        BY <3>2
      <4>2. k * S = c * S + i * S /\ i * S \in Nat
        BY <3>2, <4>1
      <4> QED BY <3>2, <4>2
    <3> QED BY <2>1, <3>1, <3>2, <3>3
  <2>3. a \in Nat /\ a < NumSectors /\ k < NumSectors /\ NumSectors \in Nat
    BY <1>3, <2>2, SectorIs DEF Sector
  <2>4. PICK s : s = (a + k) % NumSectors
    OBVIOUS
  <2>5. s = IF a + k < NumSectors THEN a + k ELSE a + k - NumSectors
    <3>1. PICK b \in Nat : b = a + k /\ b < 2 * NumSectors
      BY <2>3
    <3>2. PICK N \in Nat : N = NumSectors /\ N > 0
      BY SectorIs
    <3>3. b % N = IF b < N THEN b ELSE b - N
      BY <3>1, <3>2, Wraps
    <3>4. s = b % N
      BY <2>4, <3>1, <3>2, Zenon
    <3>5. s = IF b < N THEN b ELSE b - N
      BY <3>3, <3>4, Zenon
    <3> QED BY <2>3, <3>1, <3>2, <3>5
  <2>6. s \in Sector /\ Dist(a, s) = k
    BY <2>3, <2>5, SectorIs DEF Sector, Dist
  <2>7. Visit(m) = At(s, o)
    BY <1>2, <2>1, <2>4 DEF Visit
  <2>8. o \in Slot /\ o \in Offset /\ o \in Nat
    BY <1>1, SectorIs DEF Slot, Offset
  <2>9. /\ Visit(m).sector = s /\ Visit(m).offset = o /\ Visit(m) \in Position
    BY <2>6, <2>7, <2>8 DEF At, Position
  <2>10. s \in Occupied
    <3>1. s \in Walked
      BY <1>2, <1>3, <2>2, <2>6 DEF Walked
    <3> QED BY <3>1, ScanIs
  <2>11. Place(Visit(m)) = m - 1
    BY <1>1, <1>2, <2>1, <2>6, <2>9 DEF Place
  <2> QED BY <2>6, <2>8, <2>9, <2>10, <2>11
<1>5. Visit(n).offset > 0 =>
        n - 1 \in 1 .. ScanTotal /\ Visit(n - 1) = At(Visit(n).sector, Visit(n).offset - 1)
  <2> SUFFICES ASSUME Visit(n).offset > 0
               PROVE  n - 1 \in 1 .. ScanTotal /\ Visit(n - 1) = At(Visit(n).sector, Visit(n).offset - 1)
    OBVIOUS
  <2>0. Good(n)
    BY <1>4
  <2>1. PICK s \in Sector, o \in Slot : s = Visit(n).sector /\ o = Visit(n).offset /\ o > 0
    BY <2>0
  <2>2. PICK d \in Nat : d = Dist(a, s)
    BY DistIs, SectorIs
  <2>3. n - 1 = d * S + o /\ d * S \in Nat /\ o \in Nat
    BY <1>1, <1>2, <2>0, <2>1, <2>2, SectorIs DEF Place, Slot
  <2>4. n - 1 \in 1 .. ScanTotal /\ ScanTotal \in Nat
    BY <2>1, <2>3, ScanIs
  <2>5. PICK p : p = At(s, o - 1)
    OBVIOUS
  <2>6. p \in Position /\ p.sector = s /\ p.offset = o - 1 /\ p.offset \in Slot
    <3>1. o - 1 \in Slot /\ o - 1 \in Offset
      BY <2>1, SectorIs DEF Slot, Offset
    <3> QED BY <2>5, <3>1 DEF At, Position
  <2>7. Place(p) = d * S + (o - 1)
    BY <1>1, <1>2, <2>2, <2>6 DEF Place
  <2>8. PICK m \in 1 .. ScanTotal : m = n - 1
    BY <2>4
  <2>9. Good(m)
    BY <1>4
  <2>10. Place(Visit(m)) = Place(p)
    BY <2>3, <2>7, <2>8, <2>9
  <2>11. Visit(m) = p
    BY <1>2, <2>6, <2>9, <2>10, PlaceIs
  <2> QED BY <2>1, <2>4, <2>5, <2>8, <2>11
<1> QED BY <1>4, <1>5

\* The records the first n visits met.
Met(n) == {p \in Found : Place(p) < n}
MetIn(n, s) == {p \in Met(n) : p.sector = s}

\* What holds after n visits: the counters count what was met.
ScanInv(st, n) ==
  /\ st \in [undrained : [Sector -> Nat], pending : Nat, cleared : SUBSET Position,
             oldest : Position, found : BOOLEAN, broken : BOOLEAN]
  /\ st.pending = Cardinality(Met(n))
  /\ \A s \in Sector : st.undrained[s] = Cardinality(MetIn(n, s))
  /\ st.found <=> Met(n) # {}
  /\ st.found => /\ st.oldest \in Found
                 /\ \A q \in Found \ {st.oldest} : Place(st.oldest) < Place(q)
  /\ n > 0 /\ st.broken => ~ IsRecord(Visit(n).sector, Visit(n).offset)

\* What there is to find are the undrained records of occupied sectors, within the visits.
LEMMA FoundCells ==
  ASSUME LogInv, ~ ready, Occupied # {}
  PROVE  /\ \A p \in Found : /\ p \in Position /\ p.sector \in Sector /\ p.offset \in Slot
                             /\ p.sector \in Occupied /\ Place(p) \in Nat /\ Place(p) < ScanTotal
         /\ IsFiniteSet(Found)
         /\ \A p \in Position : p.offset \in Slot /\ p.sector \in Occupied =>
              (p \in Found <=> IsUndrained(p.sector, p.offset))
         /\ \A s \in Sector :
              Cardinality({p \in Found : p.sector = s}) = IF s \in Walked THEN Cardinality(FoundIn(s)) ELSE 0
<1>1. /\ OldestOccupied \in Sector /\ Walked = Occupied
      /\ Cardinality(Occupied) \in 0 .. NumSectors /\ ScanTotal \in Nat
  BY ScanIs
<1>2. /\ \A s \in Sector : FoundIn(s) = Und(s) /\ (s \notin Occupied => Und(s) = {})
      /\ Found \in SUBSET Position
      /\ \A p \in Position : p \in Found <=> p.sector \in Occupied /\ p.offset \in Und(p.sector)
  BY <1>1, FoundIs
<1>3. ASSUME NEW p \in Found
      PROVE  /\ p \in Position /\ p.sector \in Sector /\ p.offset \in Slot /\ p.sector \in Occupied
             /\ p.offset \in Und(p.sector)
             /\ Place(p) \in Nat /\ Place(p) < ScanTotal
  <2>1. p \in Position /\ p.sector \in Sector /\ p.offset \in Slot /\ p.sector \in Occupied
        /\ p.offset \in Und(p.sector)
    BY <1>2, LiveIs DEF Position
  <2>2. Place(p) \in Nat
    BY <1>1, <2>1, PlaceIs
  <2>3. Dist(OldestOccupied, p.sector) < Cardinality(Occupied)
    BY <1>1, <2>1 DEF Walked
  <2>4. PICK d \in Nat, c \in Nat, S \in Nat, o \in Nat :
          /\ d = Dist(OldestOccupied, p.sector) /\ c = Cardinality(Occupied) /\ S = SlotsPerSector
          /\ o = p.offset /\ o < S
    <3>1. p.offset \in Nat /\ p.offset < SlotsPerSector /\ SlotsPerSector \in Nat
      BY <2>1, SectorIs DEF Slot
    <3>2. Dist(OldestOccupied, p.sector) \in Nat /\ Cardinality(Occupied) \in Nat
      BY <1>1, <2>1, DistIs, SectorIs
    <3> QED BY <3>1, <3>2
  <2>5. d * S + o < c * S + 0
    BY <2>3, <2>4, Lexical
  <2>6. c * S \in Nat
    OBVIOUS
  <2>7. Place(p) < ScanTotal
    BY <2>4, <2>5, <2>6 DEF Place, ScanTotal
  <2> QED BY <2>1, <2>2, <2>7
<1>4. IsFiniteSet(Found)
  <2> DEFINE f == [p \in Found |-> Place(p)]
             T == 0 .. ScanTotal
  <2>1. f \in [Found -> T]
    BY <1>1, <1>3
  <2>2. \A p, q \in Found : f[p] = f[q] => p = q
    BY <1>1, <1>3, PlaceIs
  <2>3. IsFiniteSet(T)
    BY <1>1, FS_Interval
  <2> HIDE DEF f, T
  <2>4. f \in Injection(Found, T)
    BY <2>1, <2>2 DEF Injection, IsInjective
  <2> QED BY <2>3, <2>4, FS_Injection
<1>5. \A p \in Position : p.offset \in Slot /\ p.sector \in Occupied =>
        (p \in Found <=> IsUndrained(p.sector, p.offset))
  BY <1>2 DEF Und
<1>6. ASSUME NEW s \in Sector
      PROVE  Cardinality({p \in Found : p.sector = s}) = IF s \in Walked THEN Cardinality(FoundIn(s)) ELSE 0
  <2> DEFINE F == {p \in Found : p.sector = s}
  <2>1. CASE s \notin Walked
    <3>1. F = {}
      BY <1>1, <1>3, <2>1
    <3>2. Cardinality(F) = 0
      BY <3>1, FS_EmptySet
    <3> QED BY <2>1, <3>2
  <2>2. CASE s \in Walked
    <3> DEFINE f == [p \in F |-> p.offset]
    <3>1. f \in [F -> Und(s)]
      BY <1>3
    <3>2. ASSUME NEW o \in Und(s) PROVE \E p \in F : f[p] = o
      <4>1. o \in Slot /\ o \in Offset
        BY LiveIs, SectorIs DEF Slot, Offset
      <4>2. At(s, o) \in Position /\ At(s, o).sector = s /\ At(s, o).offset = o
        BY <4>1 DEF At, Position
      <4>3. At(s, o) \in F
        BY <1>1, <1>2, <2>2, <4>2
      <4> QED BY <4>2, <4>3
    <3>3. \A p, q \in F : f[p] = f[q] => p = q
      <4>1. \A p \in F : p = At(s, p.offset)
        BY <1>3 DEF At, Position
      <4> QED BY <4>1
    <3> HIDE DEF f
    <3>4. IsFiniteSet(F)
      BY <1>4, FS_Subset
    <3> HIDE DEF F
    <3>5. f \in Surjection(F, Und(s)) /\ f \in Injection(F, Und(s))
      BY <3>1, <3>2, <3>3 DEF Injection, Surjection, IsInjective
    <3>6. Cardinality(F) = Cardinality(Und(s))
      BY <3>4, <3>5, FS_Surjection
    <3> QED BY <1>2, <2>2, <3>6 DEF F
  <2> QED BY <2>1, <2>2
<1> QED BY <1>3, <1>4, <1>5, <1>6

\* What a visit adds to the records met.
LEMMA MetIs ==
  ASSUME LogInv, ~ ready, Occupied # {}, NEW m \in Nat, m + 1 \in 1 .. ScanTotal,
         NEW p, p = Visit(m + 1)
  PROVE  /\ Met(m + 1) = IF IsUndrained(p.sector, p.offset) THEN Met(m) \cup {p} ELSE Met(m)
         /\ p \notin Met(m) /\ (IsUndrained(p.sector, p.offset) <=> p \in Found)
         /\ \A q \in Found \ {p} : q \in Met(m) \/ Place(p) < Place(q)
         /\ IsFiniteSet(Met(m)) /\ Cardinality(Met(m)) \in Nat
<1>1. /\ p \in Position /\ p.sector \in Sector /\ p.offset \in Slot /\ p.sector \in Occupied
      /\ Place(p) = m
  <2>1. PICK n \in 1 .. ScanTotal : n = m + 1 /\ n - 1 = m
    OBVIOUS
  <2> QED BY <2>1, VisitIs
<1>2. OldestOccupied \in Sector
  BY ScanIs
<1>3. /\ \A q \in Found : q \in Position /\ q.offset \in Slot /\ Place(q) \in Nat
      /\ IsFiniteSet(Found) /\ (p \in Found <=> IsUndrained(p.sector, p.offset))
  BY <1>1, FoundCells
<1>4. \A q \in Found : Place(q) = m => q = p
  BY <1>1, <1>2, <1>3, PlaceIs
<1>5. \A q \in Found : Place(q) < m + 1 <=> Place(q) < m \/ Place(q) = m
  BY <1>3
<1>6. Met(m + 1) = IF IsUndrained(p.sector, p.offset) THEN Met(m) \cup {p} ELSE Met(m)
  BY <1>1, <1>3, <1>4, <1>5 DEF Met
<1>7. p \notin Met(m)
  BY <1>1 DEF Met
<1>8. \A q \in Found \ {p} : q \in Met(m) \/ Place(p) < Place(q)
  BY <1>1, <1>3, <1>4 DEF Met
<1>9. IsFiniteSet(Met(m)) /\ Cardinality(Met(m)) \in Nat
  <2>1. Met(m) \in SUBSET Found
    BY DEF Met
  <2> QED BY <1>3, <2>1, FS_Subset, FS_CardinalityType
<1> QED BY <1>3, <1>6, <1>7, <1>8, <1>9

\* Before the first visit nothing was met.
LEMMA ScanBegins ==
  ASSUME LogInv, ~ ready, Occupied # {}
  PROVE  ScanInv(ScanStart, 0)
<1> DEFINE st == ScanStart
<1>1. /\ st.undrained = [s \in Sector |-> 0] /\ st.pending = 0 /\ st.found = FALSE
      /\ st.broken = FALSE
  BY DEF ScanStart
<1>2. At(0, SlotsPerSector) \in Position
  BY SectorIs DEF At, Position, Sector, Offset
<1>3. st \in [undrained : [Sector -> Nat], pending : Nat, cleared : SUBSET Position,
             oldest : Position, found : BOOLEAN, broken : BOOLEAN]
  BY <1>2 DEF ScanStart
<1>4. Met(0) = {}
  <2>1. \A p \in Found : Place(p) \in Nat
    BY FoundCells
  <2> QED BY <2>1 DEF Met
<1>5. \A s \in Sector : MetIn(0, s) = {}
  BY <1>4 DEF MetIn
<1> HIDE DEF st
<1> QED BY <1>1, <1>3, <1>4, <1>5, FS_EmptySet DEF ScanInv, st

\* One visit of the scan.
LEMMA VisitKeeps ==
  ASSUME LogInv, ~ ready, Occupied # {}, NEW m \in Nat, m + 1 \in 1 .. ScanTotal,
         NEW st, ScanInv(st, m)
  PROVE  ScanInv(ScanSlot(st, Visit(m + 1), {}), m + 1)
<1>1. PICK p : p = Visit(m + 1)
  OBVIOUS
<1>2. /\ p \in Position /\ p.sector \in Sector /\ p.offset \in Slot /\ p.sector \in Occupied
      /\ p.offset > 0 => m \in 1 .. ScanTotal /\ Visit(m) = At(p.sector, p.offset - 1)
  <2>1. PICK n \in 1 .. ScanTotal : n = m + 1 /\ n - 1 = m
    OBVIOUS
  <2> QED BY <1>1, <2>1, VisitIs
<1>3. PICK broken \in BOOLEAN : broken <=> st.broken /\ p.offset > 0
  OBVIOUS
<1>4. PICK live : live = [st EXCEPT !.broken = broken]
  OBVIOUS
<1>5. st \in [undrained : [Sector -> Nat], pending : Nat, cleared : SUBSET Position,
              oldest : Position, found : BOOLEAN, broken : BOOLEAN]
  BY DEF ScanInv
<1>6. /\ live \in [undrained : [Sector -> Nat], pending : Nat, cleared : SUBSET Position,
                   oldest : Position, found : BOOLEAN, broken : BOOLEAN]
      /\ live.undrained = st.undrained /\ live.pending = st.pending /\ live.oldest = st.oldest
      /\ live.found = st.found /\ live.broken = broken
  <2>1. live \in [undrained : [Sector -> Nat], pending : Nat, cleared : SUBSET Position,
                  oldest : Position, found : BOOLEAN, broken : BOOLEAN]
    BY <1>4, <1>5, Zenon
  <2> QED BY <1>4, <1>5, <2>1
<1>7. broken => ~ IsRecord(p.sector, p.offset)
  <2> SUFFICES ASSUME broken, IsRecord(p.sector, p.offset) PROVE FALSE
    OBVIOUS
  <2>1. /\ p.offset > 0 /\ m > 0 /\ st.broken
        /\ Visit(m) = At(p.sector, p.offset - 1)
    BY <1>2, <1>3
  <2>2. ~ IsRecord(p.sector, p.offset - 1)
    <3>1. ~ IsRecord(Visit(m).sector, Visit(m).offset)
      BY <2>1 DEF ScanInv
    <3>2. Visit(m).sector = p.sector /\ Visit(m).offset = p.offset - 1
      BY <2>1 DEF At
    <3> QED BY <3>1, <3>2
  <2>3. p.offset - 1 \in 0 .. p.offset
    BY <1>2, <2>1, SectorIs DEF Slot
  <2> QED BY <1>2, <2>2, <2>3 DEF LogInv, RecordsInOrder
<1>8. /\ Met(m + 1) = IF IsUndrained(p.sector, p.offset) THEN Met(m) \cup {p} ELSE Met(m)
      /\ p \notin Met(m) /\ (IsUndrained(p.sector, p.offset) <=> p \in Found)
      /\ \A q \in Found \ {p} : q \in Met(m) \/ Place(p) < Place(q)
      /\ IsFiniteSet(Met(m)) /\ Cardinality(Met(m)) \in Nat
  BY <1>1, MetIs
<1>9. ScanSlot(st, p, {}) =
        IF broken \/ ~ IsRecord(p.sector, p.offset) THEN [live EXCEPT !.broken = TRUE]
        ELSE IF ~ slot[p.sector][p.offset].undrained THEN live
        ELSE CountRecord(live, p)
  <2>1. [st EXCEPT !.broken = st.broken /\ p.offset > 0] = live
    <3>1. (st.broken /\ p.offset > 0) = broken
      BY <1>3, <1>5, Zenon
    <3> QED BY <1>4, <3>1, Zenon
  <2> QED BY <1>6, <2>1, Zenon DEF ScanSlot
<1>10. /\ st.pending = Cardinality(Met(m))
       /\ \A s \in Sector : st.undrained[s] = Cardinality(MetIn(m, s))
       /\ st.found <=> Met(m) # {}
       /\ st.found => /\ st.oldest \in Found
                      /\ \A q \in Found \ {st.oldest} : Place(st.oldest) < Place(q)
  BY DEF ScanInv
<1>11. CASE ~ IsUndrained(p.sector, p.offset)
  <2>1. Met(m + 1) = Met(m) /\ \A s : MetIn(m + 1, s) = MetIn(m, s)
    BY <1>8, <1>11 DEF MetIn
  <2>2. ASSUME NEW t, t = [live EXCEPT !.broken = TRUE], ~ IsRecord(p.sector, p.offset)
        PROVE  ScanInv(t, m + 1)
    <3>1. t \in [undrained : [Sector -> Nat], pending : Nat, cleared : SUBSET Position,
                 oldest : Position, found : BOOLEAN, broken : BOOLEAN]
      BY <1>6, <2>2, Zenon
    <3>2. /\ t.undrained = st.undrained /\ t.pending = st.pending /\ t.oldest = st.oldest
          /\ t.found = st.found
      BY <1>6, <2>2
    <3> QED BY <1>1, <1>10, <2>1, <2>2, <3>1, <3>2 DEF ScanInv
  <2>3. ASSUME ~ broken
        PROVE  ScanInv(live, m + 1)
    BY <1>6, <1>10, <2>1, <2>3 DEF ScanInv
  <2> QED BY <1>1, <1>7, <1>9, <1>11, <2>2, <2>3 DEF IsUndrained
<1>12. CASE IsUndrained(p.sector, p.offset)
  <2>1. PICK t : t = CountRecord(live, p)
    OBVIOUS
  <2>2. ScanSlot(st, p, {}) = t /\ ~ broken
    BY <1>7, <1>9, <1>12, <2>1 DEF IsUndrained
  <2>3. Met(m + 1) = Met(m) \cup {p} /\ p \notin Met(m) /\ p \in Found
    BY <1>8, <1>12
  <2>4. PICK v \in [Sector -> Nat] : v = st.undrained
    BY <1>5
  <2>5. PICK k \in Nat : k = v[p.sector]
    BY <1>2
  <2>6. PICK u \in [Sector -> Nat] :
          /\ u = [v EXCEPT ![p.sector] = k + 1]
          /\ u[p.sector] = k + 1 /\ \A s \in Sector : s # p.sector => u[s] = v[s]
    <3>1. PICK j \in Nat : j = k + 1
      OBVIOUS
    <3>2. PICK u : u = [v EXCEPT ![p.sector] = j]
      OBVIOUS
    <3>3. u \in [Sector -> Nat] /\ u[p.sector] = j /\ \A s \in Sector : s # p.sector => u[s] = v[s]
      BY <1>2, <3>2
    <3> QED BY <3>1, <3>2, <3>3
  <2>7. PICK q \in Nat : q = st.pending
    BY <1>5
  <2>8. PICK old \in Position : old = IF st.found THEN st.oldest ELSE p
    BY <1>2, <1>5
  <2>9. t = [live EXCEPT !.undrained = u, !.pending = q + 1, !.oldest = old, !.found = TRUE]
    <3>1. live.undrained = v /\ live.pending = q /\ live.oldest = st.oldest /\ live.found = st.found
      BY <1>6, <2>4, <2>7
    <3>2. t = [live EXCEPT !.undrained = [live.undrained EXCEPT ![p.sector] = v[p.sector] + 1],
                           !.pending = live.pending + 1,
                           !.oldest = IF st.found THEN live.oldest ELSE p, !.found = TRUE]
      BY <1>4, <1>5, <1>6, <2>1, <3>1 DEF CountRecord
    <3> QED BY <2>5, <2>6, <2>8, <3>1, <3>2
  <2>10. t \in [undrained : [Sector -> Nat], pending : Nat, cleared : SUBSET Position,
                oldest : Position, found : BOOLEAN, broken : BOOLEAN]
    <3>1. PICK r \in Nat : r = q + 1
      OBVIOUS
    <3>2. t = [live EXCEPT !.undrained = u, !.pending = r, !.oldest = old, !.found = TRUE]
      BY <2>9, <3>1
    <3> QED BY <1>6, <3>2, Zenon
  <2>11. /\ t.undrained = u /\ t.pending = q + 1 /\ t.oldest = old /\ t.found = TRUE
         /\ t.broken = broken
    BY <1>6, <2>9
  <2>12. t.pending = Cardinality(Met(m + 1))
    <3>1. Cardinality(Met(m) \cup {p}) = Cardinality(Met(m)) + 1
      BY <1>8, FS_AddElement
    <3> QED BY <1>10, <2>3, <2>7, <2>11, <3>1
  <2>13. ASSUME NEW s \in Sector PROVE t.undrained[s] = Cardinality(MetIn(m + 1, s))
    <3>1. CASE s # p.sector
      <4>1. MetIn(m + 1, s) = MetIn(m, s)
        BY <2>3, <3>1 DEF MetIn
      <4> QED BY <1>10, <2>4, <2>6, <2>11, <3>1, <4>1
    <3>2. CASE s = p.sector
      <4>1. MetIn(m + 1, s) = MetIn(m, s) \cup {p} /\ p \notin MetIn(m, s)
        BY <2>3, <3>2 DEF MetIn
      <4>2. IsFiniteSet(MetIn(m, s))
        <5>1. MetIn(m, s) \in SUBSET Met(m)
          BY DEF MetIn
        <5> QED BY <1>8, <5>1, FS_Subset
      <4>3. Cardinality(MetIn(m, s) \cup {p}) = Cardinality(MetIn(m, s)) + 1
        BY <4>1, <4>2, FS_AddElement
      <4>4. Cardinality(MetIn(m, s)) = k
        BY <1>10, <2>4, <2>5, <3>2
      <4> QED BY <2>6, <2>11, <3>2, <4>1, <4>3, <4>4
    <3> QED BY <3>1, <3>2
  <2>14. old \in Found /\ \A r \in Found \ {old} : Place(old) < Place(r)
    <3>1. CASE st.found
      BY <1>10, <2>8, <3>1
    <3>2. CASE ~ st.found
      <4>1. Met(m) = {} /\ old = p
        BY <1>10, <2>8, <3>2
      <4> QED BY <1>8, <2>3, <4>1
    <3> QED BY <3>1, <3>2
  <2>15. ScanInv(t, m + 1)
    BY <2>2, <2>3, <2>10, <2>11, <2>12, <2>13, <2>14 DEF ScanInv
  <2> QED BY <1>1, <2>2, <2>15
<1> QED BY <1>11, <1>12

\* The recursive function Scan chooses is there, visit after visit.
LEMMA ScanRunExists == ASSUME ScanTotal \in Nat, NEW stale PROVE \E f : ScanRun(f, stale)
<1> DEFINE To(m, f) == f = [n \in 0 .. m |-> IF n = 0 THEN ScanStart ELSE ScanSlot(f[n - 1], Visit(n), stale)]
           Fails == {m \in 0 .. ScanTotal : ~ \E f : To(m, f)}
<1>1. Fails = {}
  <2> SUFFICES ASSUME Fails # {} PROVE FALSE
    OBVIOUS
  <2>1. Fails \in SUBSET Nat
    OBVIOUS
  <2>2. \A m \in 0 .. ScanTotal : m \in Fails <=> ~ \E f : To(m, f)
    OBVIOUS
  <2>3. \A m \in Fails : m \in 0 .. ScanTotal
    OBVIOUS
  <2> HIDE DEF Fails
  <2>4. PICK m \in Fails : \A k \in Fails : m <= k
    BY <2>1, Least
  <2>5. m \in 0 .. ScanTotal /\ m \in Nat
    BY <2>1, <2>3, <2>4
  <2>6. CASE m = 0
    <3> DEFINE f == [n \in 0 .. 0 |-> ScanStart]
    <3>1. To(0, f)
      OBVIOUS
    <3> QED BY <2>2, <2>4, <2>5, <2>6, <3>1
  <2>7. CASE m # 0
    <3>1. m - 1 \in 0 .. ScanTotal /\ m - 1 < m /\ m - 1 \in Nat
      BY <2>5, <2>7
    <3>2. m - 1 \notin Fails
      BY <2>4, <2>5, <3>1
    <3>3. PICK f : To(m - 1, f)
      BY <2>2, <3>1, <3>2
    <3> DEFINE g == [n \in 0 .. m |-> IF n < m THEN f[n] ELSE ScanSlot(f[m - 1], Visit(m), stale)]
    <3>4. ASSUME NEW n \in 0 .. m
          PROVE  g[n] = IF n = 0 THEN ScanStart ELSE ScanSlot(g[n - 1], Visit(n), stale)
      <4>1. CASE n = m
        <5>1. n # 0 /\ n - 1 \in 0 .. m /\ n - 1 < m /\ ~ (n < m)
          BY <2>5, <2>7, <4>1
        <5>2. g[n] = ScanSlot(f[m - 1], Visit(m), stale) /\ g[n - 1] = f[m - 1]
          BY <4>1, <5>1
        <5> QED BY <4>1, <5>1, <5>2
      <4>2. CASE n < m
        <5>1. n \in 0 .. m - 1
          BY <2>5, <4>2
        <5>2. n # 0 => n - 1 \in 0 .. m /\ n - 1 < m
          BY <2>5, <4>2
        <5>3. g[n] = f[n] /\ (n # 0 => g[n - 1] = f[n - 1])
          BY <4>2, <5>2
        <5>4. f[n] = IF n = 0 THEN ScanStart ELSE ScanSlot(f[n - 1], Visit(n), stale)
          BY <3>3, <5>1
        <5> QED BY <5>3, <5>4
      <4> QED BY <2>5, <4>1, <4>2
    <3>5. To(m, g)
      BY <3>4
    <3> QED BY <2>2, <2>4, <2>5, <3>5
  <2> QED BY <2>6, <2>7
<1>2. ScanTotal \in 0 .. ScanTotal
  OBVIOUS
<1>3. \E f : To(ScanTotal, f)
  BY <1>1, <1>2
<1> QED BY <1>3 DEF ScanRun

\* Scan is the state after the last visit.
LEMMA ScanLoopIs ==
  ASSUME ScanTotal \in Nat, NEW stale
  PROVE  \E f : ScanRun(f, stale) /\ Scan(stale) = f[ScanTotal]
<1> DEFINE c == CHOOSE f : ScanRun(f, stale)
<1>1. Scan(stale) = c[ScanTotal]
  BY DEF Scan, ScanRun, ScanTotal, Visit
<1>2. ScanRun(c, stale)
  BY ScanRunExists
<1> QED BY <1>1, <1>2

\* The walk of the boot scan meets the captures in the order of their numbers.
LEMMA WalkIsInOrder ==
  ASSUME LogInv, ~ ready, Occupied # {}, NEW p \in Found, NEW q \in Found,
         Before(At(OldestOccupied, 0), p, q)
  PROVE  Id(p) < Id(q)
<1>1. PICK a, z \in Sector : IsArc(a, z)
  BY DEF LogInv, RingOK
<1>2. OldestOccupied = a
  BY <1>1, ArcIs
<1>3. /\ p.sector \in Sector /\ p.offset \in Slot /\ IsRecord(p.sector, p.offset)
      /\ q.sector \in Sector /\ q.offset \in Slot /\ IsRecord(q.sector, q.offset)
      /\ p.sector \in Occupied /\ q.sector \in Occupied
  BY FoundCells DEF IsUndrained
<1>4. At(OldestOccupied, 0).sector = a
  BY <1>2 DEF At
<1>5. Precedes(p.sector, p.offset, q.sector, q.offset)
  BY <1>1, <1>3, <1>4 DEF Before, IsArc, Precedes
<1> QED BY <1>3, <1>5 DEF LogInv, IdsInOrder, Id

\* ScanAgrees: the boot scan counts what is on flash and begins with its first capture, whatever
\* a power loss left there.
LEMMA ScanAgreesHere ==
  ASSUME LogInv
  PROVE  ScanAgrees
<1> SUFFICES ASSUME ~ ready, Occupied # {}
             PROVE  LET r == Scan({})
                    IN /\ r.pending = Cardinality(OnFlash)
                       /\ \A s \in Sector :
                            r.undrained[s] = Cardinality({p \in OnFlash : p.sector = s})
                       /\ r.found <=> OnFlash # {}
                       /\ r.found => /\ r.oldest \in OnFlash
                                     /\ \A p \in OnFlash \ {r.oldest} : Id(r.oldest) < Id(p)
  BY DEF ScanAgrees
<1>1. ScanTotal \in Nat /\ OldestOccupied \in Sector
  BY ScanIs
<1>2. PICK f : ScanRun(f, {}) /\ Scan({}) = f[ScanTotal]
  BY <1>1, ScanLoopIs
<1> DEFINE Fails == {m \in 0 .. ScanTotal : ~ ScanInv(f[m], m)}
<1>3. Fails = {}
  <2> SUFFICES ASSUME Fails # {} PROVE FALSE
    OBVIOUS
  <2>1. Fails \in SUBSET Nat
    BY <1>1
  <2>2. \A m \in 0 .. ScanTotal : m \in Fails <=> ~ ScanInv(f[m], m)
    OBVIOUS
  <2>3. \A m \in Fails : m \in 0 .. ScanTotal
    OBVIOUS
  <2> HIDE DEF Fails
  <2>4. PICK m \in Fails : \A k \in Fails : m <= k
    BY <2>1, Least
  <2>5. m \in 0 .. ScanTotal /\ m \in Nat
    BY <2>1, <2>3, <2>4
  <2>6. f[m] = IF m = 0 THEN ScanStart ELSE ScanSlot(f[m - 1], Visit(m), {})
    BY <1>2, <2>5 DEF ScanRun
  <2>7. CASE m = 0
    BY <2>2, <2>4, <2>5, <2>6, <2>7, ScanBegins
  <2>8. CASE m # 0
    <3>1. PICK k \in Nat : k = m - 1 /\ m = k + 1 /\ k \in 0 .. ScanTotal /\ k + 1 \in 1 .. ScanTotal
      BY <1>1, <2>5, <2>8
    <3>2. k \notin Fails
      BY <2>4, <2>5, <3>1
    <3>3. PICK st : st = f[k]
      OBVIOUS
    <3>4. ScanInv(st, k)
      BY <2>2, <3>1, <3>2, <3>3
    <3>5. ScanInv(ScanSlot(st, Visit(k + 1), {}), k + 1)
      BY <3>1, <3>4, VisitKeeps
    <3> QED BY <2>2, <2>4, <2>5, <2>6, <2>8, <3>1, <3>3, <3>5
  <2> QED BY <2>7, <2>8
<1>4. PICK r : r = Scan({}) /\ ScanInv(r, ScanTotal)
  BY <1>1, <1>2, <1>3
<1>5. \A p \in Found : /\ p \in Position /\ p.sector \in Sector /\ p.offset \in Slot
                       /\ Place(p) \in Nat /\ Place(p) < ScanTotal
  BY FoundCells
<1>6. Met(ScanTotal) = Found
  BY <1>5 DEF Met
<1>7. \A s : MetIn(ScanTotal, s) = {p \in Found : p.sector = s}
  BY <1>6 DEF MetIn
<1>8. OnFlash = Found
  <2>1. \A p \in Found : p.sector \in Occupied /\ IsUndrained(p.sector, p.offset)
    BY FoundCells
  <2>2. \A p \in Position : p.offset \in Slot /\ p.sector \in Occupied =>
          (p \in Found <=> IsUndrained(p.sector, p.offset))
    BY FoundCells
  <2>3. \A p \in Position : p.sector \in Occupied <=> head[p.sector] = "valid"
    BY DEF Occupied, Position
  <2> QED BY <1>5, <2>1, <2>2, <2>3 DEF OnFlash
<1>9. /\ r.pending = Cardinality(OnFlash)
      /\ \A s \in Sector : r.undrained[s] = Cardinality({p \in OnFlash : p.sector = s})
      /\ r.found <=> OnFlash # {}
  BY <1>4, <1>6, <1>7, <1>8 DEF ScanInv
<1>10. ASSUME r.found
       PROVE  r.oldest \in OnFlash /\ \A p \in OnFlash \ {r.oldest} : Id(r.oldest) < Id(p)
  <2>1. r.oldest \in Found /\ \A p \in Found \ {r.oldest} : Place(r.oldest) < Place(p)
    BY <1>4, <1>10 DEF ScanInv
  <2>2. \A p \in Found \ {r.oldest} : Before(At(OldestOccupied, 0), r.oldest, p)
    BY <1>1, <1>5, <2>1, PlaceIs
  <2> QED BY <1>8, <2>1, <2>2, WalkIsInOrder
<1> QED BY <1>4, <1>9, <1>10

\* LoopsAgree: the record loops of boot and of the batch collection find what is on flash, for
\* every flash image and RAM state that appends, their failures, marks, boots and power losses
\* lead to.
THEOREM LoopsFindWhatIsThere ==
  ASSUME Premises
  PROVE  Spec => []LoopsAgree
<1>1. LogInv => LoopsAgree
  BY ScanAgreesHere, PeekAgreesHere DEF LoopsAgree
<1>2. Spec => []LogInv
  BY LogInvariant
<1> QED BY <1>1, <1>2, PTL

-----------------------------------------------------------------------------
(* The ranges of the variables.                                             *)

\* What TypeOK bounds and LogInv does not: the generation words, also those of sectors that lost
\* their header, the captures of stored records, and the history.
FlashRanges ==
  /\ \A s \in Sector : gen[s] < GenMod
  /\ \A s \in Sector, o \in Slot : IsRecord(s, o) => slot[s][o].id > 0
RamRanges == nextGeneration < GenMod /\ peekEnd \in Position /\ Len(peeked) <= MaxBatch
HistRanges ==
  acked \subseteq 1 .. MaxAppends /\ drained \subseteq 1 .. MaxAppends /\ evicted \subseteq 1 .. MaxAppends
RangesOK == FlashRanges /\ RamRanges /\ HistRanges

\* The constants and what LogInv bounds, as numbers.
LEMMA BoundsAre ==
  ASSUME LogInv
  PROVE  /\ MaxAppends \in Nat /\ GenMod \in Nat /\ GenMod > 1 /\ MaxBatch \in Nat
         /\ nextId \in Nat /\ nextId >= 1 /\ nextId <= MaxAppends + 1 /\ nextGeneration \in Nat
         /\ \A s \in Sector : gen[s] \in Nat
         /\ \A s \in Sector, o \in Slot : slot[s][o] \in Cell /\ slot[s][o].id \in Nat
BY LogAssumption DEF LogInv, RamTypeOK, FlashTypeOK, Cell

\* A stored record holds a capture that was offered.
LEMMA RecordIds ==
  ASSUME LogInv, FlashRanges, NEW s \in Sector, NEW o \in Slot, IsRecord(s, o)
  PROVE  slot[s][o].id \in 1 .. MaxAppends
<1>1. slot[s][o].id < nextId
  BY DEF LogInv, IdsInOrder
<1>2. slot[s][o].id > 0
  BY DEF FlashRanges
<1> QED BY <1>1, <1>2, BoundsAre

\* What a roll evicts was stored.
LEMMA EvictedRange ==
  ASSUME LogInv, ready, RangesOK, NEW rolls \in BOOLEAN
  PROVE  EvictedAfterRoll(rolls) \subseteq 1 .. MaxAppends
<1>1. RollTarget \in Sector
  BY RollTargetIs
<1>2. UndrainedIdsIn(RollTarget) \subseteq 1 .. MaxAppends
  BY <1>1, RecordIds DEF UndrainedIdsIn, IsUndrained, RangesOK
<1> QED BY <1>2 DEF EvictedAfterRoll, RangesOK, HistRanges

\* What an append writes, or part of it, stays in range.
LEMMA WriteRanges ==
  ASSUME LogInv, ready, RangesOK, NEW rolls \in BOOLEAN, RollChoice(rolls),
         NEW h \in {"blank", "torn", "valid"}, NEW g \in {0, nextGeneration},
         NEW b \in {"blank", "torn", "record"}, AppendOnFlash(rolls, h, g, b)
  PROVE  FlashRanges'
<1>1. PICK T, o : T = TargetSector(rolls) /\ o = TargetOffset(rolls)
  OBVIOUS
<1>2. T \in Sector /\ o \in Slot
  BY <1>1, TargetIs
<1>3. g \in Nat /\ g < GenMod
  BY BoundsAre DEF RangesOK, RamRanges
<1>4. Wrote(T, o, rolls, h, g, b)
  BY <1>1, <1>3, AppendWrites
<1>5. ASSUME NEW s \in Sector PROVE gen'[s] < GenMod
  BY <1>2, <1>3, <1>4 DEF Wrote, RangesOK, FlashRanges
<1>6. ASSUME NEW s \in Sector, NEW i \in Slot, IsRecord(s, i)' PROVE slot'[s][i].id > 0
  <2>1. slot'[s][i].body = "record"
    BY <1>6 DEF IsRecord
  <2>2. CASE s # T \/ (~ rolls /\ i # o)
    <3>1. slot'[s][i] = slot[s][i]
      BY <1>2, <1>4, <2>2 DEF Wrote
    <3> QED BY <2>1, <3>1 DEF IsRecord, RangesOK, FlashRanges
  <2>3. CASE s = T /\ i = o
    <3>1. slot'[s][i] = NewCell(b)
      BY <1>2, <1>4, <2>3 DEF Wrote
    <3>2. b = "record" /\ slot'[s][i].id = nextId
      BY <2>1, <3>1 DEF NewCell, BlankCell
    <3> QED BY <3>2, BoundsAre
  <2>4. CASE s = T /\ i # o /\ rolls
    <3>1. slot'[s][i] = BlankCell
      BY <1>2, <1>4, <2>4 DEF Wrote
    <3> QED BY <2>1, <3>1 DEF BlankCell
  <2> QED BY <2>2, <2>3, <2>4
<1> QED BY <1>5, <1>6 DEF FlashRanges

\* An append, whole, failed or cut, writes in range.
LEMMA AppendRanges ==
  ASSUME LogInv, RangesOK, Premises, LogAppend \/ RecordWriteFails \/ RollFails \/ AppendCut
  PROVE  FlashRanges' /\ HistRanges'
<1>1. ready /\ nextId <= MaxAppends
  BY DEF LogAppend, RecordWriteFails, RollFails, AppendCut
<1>2. PICK rolls \in BOOLEAN :
        /\ RollChoice(rolls) /\ evicted' = EvictedAfterRoll(rolls)
        /\ \/ UNCHANGED flash
           \/ \E h \in {"blank", "torn", "valid"}, g \in {0, nextGeneration},
                b \in {"blank", "torn", "record"} : AppendOnFlash(rolls, h, g, b)
           \/ \E k \in Offset : EraseCut(k)
  <2>1. CASE LogAppend
    BY <2>1 DEF LogAppend
  <2>2. CASE RecordWriteFails
    BY <2>2 DEF RecordWriteFails
  <2>3. CASE RollFails
    <3>1. RollChoice(TRUE) /\ evicted' = EvictedAfterRoll(TRUE)
      BY <2>3 DEF RollFails
    <3>2. UNCHANGED flash \/ \E h \in {"blank", "torn"} : AppendOnFlash(TRUE, h, 0, "blank")
      BY <2>3 DEF RollFails
    <3> QED BY <3>1, <3>2
  <2>4. CASE AppendCut
    BY <2>4, PremisesGive DEF AppendCut
  <2> QED BY <2>1, <2>2, <2>3, <2>4
<1>3. FlashRanges'
  <2>1. CASE UNCHANGED flash
    BY <2>1 DEF flash, FlashRanges, RangesOK, IsRecord
  <2>2. CASE \E h \in {"blank", "torn", "valid"}, g \in {0, nextGeneration},
               b \in {"blank", "torn", "record"} : AppendOnFlash(rolls, h, g, b)
    BY <1>1, <1>2, <2>2, WriteRanges
  <2>3. CASE \E k \in Offset : EraseCut(k)
    <3>1. PICK k \in Offset : EraseCut(k)
      BY <2>3
    <3>2. PICK T \in Sector : T = RollTarget
      BY RollTargetIs
    <3>3. /\ gen' = gen
          /\ \A s \in Sector : s # T => slot'[s] = slot[s]
          /\ \A i \in Slot : slot'[T][i] = IF i < k THEN slot[T][i] ELSE TornCell
      BY <3>1, <3>2, EraseCutIs
    <3>4. ASSUME NEW s \in Sector, NEW i \in Slot, IsRecord(s, i)' PROVE slot'[s][i] = slot[s][i]
      BY <3>2, <3>3, <3>4 DEF IsRecord, TornCell
    <3> QED BY <3>3, <3>4 DEF FlashRanges, RangesOK, IsRecord
  <2> QED BY <1>2, <2>1, <2>2, <2>3
<1>4. evicted' \subseteq 1 .. MaxAppends
  BY <1>1, <1>2, EvictedRange
<1>5. acked' \subseteq acked \cup {nextId} /\ drained' = drained
  BY DEF LogAppend, RecordWriteFails, RollFails, AppendCut
<1>6. nextId \in 1 .. MaxAppends
  BY <1>1, BoundsAre
<1> QED BY <1>3, <1>4, <1>5, <1>6 DEF HistRanges, RangesOK

\* What a batch marks drained was stored.
LEMMA MarkRanges ==
  ASSUME LogInv, RangesOK, Premises, MarkDrained \/ MarkCut
  PROVE  FlashRanges' /\ HistRanges'
<1>1. Len(peeked) \in Nat
  BY DEF LogInv, RamTypeOK
<1>2. PICK m \in 0 .. Len(peeked) : FlagsCleared(1 .. m) /\ Drains(1 .. m)
  BY <1>1, MarkDrainedIs DEF MarkCut
<1>3. ready /\ head' = head /\ gen' = gen /\ acked' = acked /\ evicted' = evicted
  BY DEF MarkDrained, MarkCut
<1>4. 1 .. m \in SUBSET (1 .. Len(peeked))
  BY <1>1
<1>5. \A s \in Sector, i \in Slot :
        slot'[s][i].id = slot[s][i].id /\ (IsRecord(s, i)' <=> IsRecord(s, i))
  BY <1>2, <1>3, <1>4, ClearedIs
<1>6. ASSUME NEW j \in 1 .. m PROVE batch[j] \in 1 .. MaxAppends
  <2>1. j \in 1 .. Len(peeked)
    BY <1>4
  <2>2. /\ peeked[j].sector \in Sector /\ peeked[j].offset \in Slot
        /\ <<peeked[j].sector, peeked[j].offset>> \in Live
    BY <1>3, <2>1, PeekedIs
  <2>3. IsRecord(peeked[j].sector, peeked[j].offset)
    BY <2>2 DEF Live, Und, IsUndrained
  <2>4. batch[j] = slot[peeked[j].sector][peeked[j].offset].id
    BY <1>3, <2>1 DEF LogInv, PeekOK
  <2> QED BY <2>2, <2>3, <2>4, RecordIds DEF RangesOK
<1>7. drained' \subseteq 1 .. MaxAppends
  BY <1>2, <1>6 DEF Drains, RangesOK, HistRanges
<1> QED BY <1>3, <1>5, <1>7 DEF RangesOK, FlashRanges, HistRanges

\* A boot erases or formats, and changes no record.
LEMMA BootRanges ==
  ASSUME LogInv, RangesOK, Premises, BootFresh \/ BootResume \/ BootCut
  PROVE  FlashRanges' /\ HistRanges'
<1>1. UNCHANGED hist
  BY DEF BootFresh, BootResume, BootCut
<1>2. CASE \E T \in SUBSET {s \in Sector : head[s] = "torn"} :
             /\ head' = [s \in Sector |-> IF s \in T THEN "blank" ELSE head[s]]
             /\ slot' = [s \in Sector |-> IF s \in T THEN BlankSector ELSE slot[s]]
             /\ gen' = gen
  <2>1. PICK T \in SUBSET {s \in Sector : head[s] = "torn"} :
             /\ head' = [s \in Sector |-> IF s \in T THEN "blank" ELSE head[s]]
             /\ slot' = [s \in Sector |-> IF s \in T THEN BlankSector ELSE slot[s]]
             /\ gen' = gen
    BY <1>2
  <2>2. nextId' = nextId
    BY <1>1 DEF hist
  <2>3. /\ \A s \in Sector, o \in Slot : IsRecord(s, o)' <=> IsRecord(s, o)
        /\ \A s \in Sector, o \in Slot : IsRecord(s, o) => slot'[s][o] = slot[s][o]
    BY <2>1, <2>2, BootErases
  <2>4. FlashRanges'
    BY <2>1, <2>3 DEF RangesOK, FlashRanges
  <2> QED BY <1>1, <2>4 DEF hist, RangesOK, HistRanges
<1>3. CASE BootResume
  <2>1. PICK T \in SUBSET {s \in Sector : head[s] = "torn"} : T = {s \in Sector : head[s] = "torn"}
    OBVIOUS
  <2>2. /\ head' = [s \in Sector |-> IF s \in T THEN "blank" ELSE head[s]]
        /\ slot' = [s \in Sector |-> IF s \in T THEN BlankSector ELSE slot[s]]
        /\ gen' = gen
    BY <1>3, <2>1 DEF BootResume, HeadAtBoot, SlotAtBoot
  <2> QED BY <1>2, <2>2
<1>4. CASE Occupied = {} /\ \E h \in {"torn", "valid"}, g \in {1, gen[0]} :
             /\ head' = [HeadAtBoot EXCEPT ![0] = h] /\ gen' = [gen EXCEPT ![0] = g]
             /\ slot' = [SlotAtBoot EXCEPT ![0] = BlankSector]
  <2>1. PICK h \in {"torn", "valid"}, g \in {1, gen[0]} :
             /\ head' = [HeadAtBoot EXCEPT ![0] = h] /\ gen' = [gen EXCEPT ![0] = g]
             /\ slot' = [SlotAtBoot EXCEPT ![0] = BlankSector]
    BY <1>4
  <2>2. nextId' = nextId
    BY <1>1 DEF hist
  <2>3. 0 \in Sector
    BY SectorIs DEF Sector
  <2>4. g \in Nat /\ g < GenMod
    BY <2>3, BoundsAre DEF RangesOK, FlashRanges
  <2>5. \A s \in Sector, o \in Slot : ~ IsRecord(s, o)'
    BY <1>4, <2>1, <2>2, <2>4, BootFormats
  <2>6. gen \in [Sector -> Nat]
    BY DEF LogInv, FlashTypeOK
  <2>7. \A s \in Sector : gen'[s] < GenMod
    BY <2>1, <2>3, <2>4, <2>6 DEF RangesOK, FlashRanges
  <2> QED BY <1>1, <2>5, <2>7 DEF FlashRanges, hist, RangesOK, HistRanges
<1>5. CASE BootFresh
  BY <1>4, <1>5 DEF BootFresh
<1>6. CASE BootCut
  <2>1. gen = [gen EXCEPT ![0] = gen[0]]
    <3>1. gen \in [Sector -> Nat]
      BY DEF LogInv, FlashTypeOK
    <3> QED BY <3>1
  <2>2. CASE Occupied = {} /\ head' = [HeadAtBoot EXCEPT ![0] = "torn"]
             /\ slot' = [SlotAtBoot EXCEPT ![0] = BlankSector]
    BY <1>4, <1>6, <2>1, <2>2, PremisesGive DEF BootCut
  <2> QED BY <1>2, <1>6, <2>2, PremisesGive DEF BootCut
<1> QED BY <1>3, <1>5, <1>6

\* The RAM: a boot begins with what a reset left, the rest goes on from the invariant.
LEMMA StepRamRanges ==
  ASSUME LogInv, LogInv', RangesOK, Premises, [Next]_vars
  PROVE  RamRanges'
<1>1. nextGeneration' < GenMod
  <2>1. CASE ready'
    <3>1. nextGeneration' <= nextId' + 1
      BY <2>1 DEF LogInv, RingOK
    <3>2. nextId' \in 1 .. MaxAppends + 1 /\ nextGeneration' \in Nat
      BY DEF LogInv, RamTypeOK
    <3>3. MaxAppends + 2 < GenMod /\ MaxAppends \in Nat /\ GenMod \in Nat
      BY BoundsAre DEF Premises
    <3>4. PICK g \in Nat, n \in 1 .. MaxAppends + 1 : g = nextGeneration' /\ n = nextId'
      BY <3>2
    <3>5. g <= n + 1
      BY <3>1, <3>4
    <3>6. g < GenMod
      BY <3>3, <3>5
    <3> QED BY <3>4, <3>6
  <2>2. CASE ~ ready'
    <3>1. ~ (LogAppend \/ RollFails \/ RecordWriteFails \/ MarkDrained \/ BootFresh \/ BootResume)
      <4>1. LogAppend \/ RollFails \/ RecordWriteFails \/ MarkDrained => ready /\ ready' = ready
        BY DEF LogAppend, RollFails, RecordWriteFails, MarkDrained
      <4>2. BootFresh \/ BootResume => ready'
        BY DEF BootFresh, BootResume
      <4> QED BY <2>2, <4>1, <4>2
    <3>2. AppendCut \/ MarkCut \/ PowerLoss => nextGeneration' = 0
      BY DEF AppendCut, MarkCut, PowerLoss, RamAtReset
    <3>3. BootCut \/ PeekPending \/ UNCHANGED vars => nextGeneration' = nextGeneration
      BY DEF BootCut, PeekPending, vars, ram
    <3>4. nextGeneration' = 0 \/ nextGeneration' = nextGeneration
      BY <3>1, <3>2, <3>3 DEF Next
    <3> QED BY <3>4, BoundsAre DEF RangesOK, RamRanges
  <2> QED BY <2>1, <2>2
<1>2. peekEnd' \in Position /\ Len(peeked') <= MaxBatch
  <2>1. CASE PeekPending
    <3>1. PICK at \in [1 .. PeekLimit -> Position] :
              /\ \A j \in 1 .. PeekLimit : at[j].offset \in Slot /\ at[j].sector \in Sector
              /\ at \in Seq(Position) /\ Len(at) = PeekLimit
              /\ peeked' = at /\ peekEnd' = CursorAfter(at, PeekLimit)
      BY <2>1, PeekPendingIs
    <3>2. PeekLimit \in Nat /\ PeekLimit <= MaxBatch
      BY BoundsAre, SMTT(20) DEF PeekLimit, LogInv, RamTypeOK
    <3>3. oldest \in Position
      BY DEF LogInv, RamTypeOK
    <3>4. PeekLimit # 0 => PeekLimit \in 1 .. PeekLimit
      BY <3>2
    <3>5. PeekLimit # 0 => After(at[PeekLimit]) \in Position
      BY <3>1, <3>4, AfterType
    <3> QED BY <3>1, <3>2, <3>3, <3>5 DEF CursorAfter
  <2>2. CASE ~ PeekPending
    <3>1. (peeked' = peeked \/ peeked' = << >>) /\ (peekEnd' = peekEnd \/ peekEnd' = At(0, 0))
      BY <2>2 DEF Next, LogAppend, RollFails, RecordWriteFails, AppendCut, MarkDrained,
                  MarkCut, BootFresh, BootResume, BootCut, PowerLoss, RamAtReset, vars, ram
    <3>2. At(0, 0) \in Position
      BY SectorIs DEF At, Position, Sector, Offset
    <3>3. Len(<< >>) = 0
      OBVIOUS
    <3> QED BY <3>1, <3>2, <3>3, BoundsAre DEF RangesOK, RamRanges
  <2> QED BY <2>1, <2>2
<1> QED BY <1>1, <1>2 DEF RamRanges

\* Every step keeps the ranges.
LEMMA StepRanges ==
  ASSUME LogInv, RangesOK, Premises, [Next]_vars
  PROVE  RangesOK'
<1>1. LogInv'
  BY NextKeeps
<1>2. RamRanges'
  BY <1>1, StepRamRanges
<1>3. FlashRanges' /\ HistRanges'
  <2>1. CASE PeekPending \/ PowerLoss \/ UNCHANGED vars
    <3>1. UNCHANGED flash /\ acked' = acked /\ drained' = drained /\ evicted' = evicted
      BY <2>1 DEF PeekPending, PowerLoss, vars, hist
    <3> QED BY <3>1 DEF flash, RangesOK, FlashRanges, HistRanges, IsRecord
  <2> QED BY <2>1, AppendRanges, MarkRanges, BootRanges DEF Next
<1> QED BY <1>2, <1>3 DEF RangesOK

\* They hold on a blank flash.
LEMMA InitRanges ==
  ASSUME Init
  PROVE  RangesOK
<1>1. LogInv
  BY InitKeeps
<1>2. FlashRanges
  <2>1. \A s \in Sector : gen[s] = 0
    BY DEF Init
  <2>2. \A s \in Sector, o \in Slot : ~ IsRecord(s, o)
    <3>1. \A o \in Slot : BlankSector[o].body = "blank"
      BY DEF BlankSector, BlankCell
    <3> QED BY <3>1 DEF Init, IsRecord
  <2> QED BY <1>1, <2>1, <2>2, BoundsAre DEF FlashRanges
<1>3. RamRanges
  <2>1. At(0, 0) \in Position
    BY SectorIs DEF At, Position, Sector, Offset
  <2>2. nextGeneration = 0 /\ peekEnd = At(0, 0) /\ Len(peeked) = 0
    BY DEF Init
  <2> QED BY <1>1, <2>1, <2>2, BoundsAre DEF RamRanges
<1>4. HistRanges
  BY DEF Init, HistRanges
<1> QED BY <1>2, <1>3, <1>4 DEF RangesOK

\* The ranges are what the invariant lacks for TypeOK.
LEMMA TypesHere ==
  ASSUME LogInv, RangesOK
  PROVE  TypeOK
<1>1. /\ head \in [Sector -> {"blank", "torn", "valid"}] /\ slot \in [Sector -> [Slot -> Cell]]
      /\ ready \in BOOLEAN /\ activeSector \in Sector /\ writeOffset \in Offset
      /\ activeSectorClosed \in BOOLEAN /\ oldest \in Position /\ undrainedInSector \in [Sector -> Nat]
      /\ peeked \in Seq(Position) /\ nextId \in 1 .. MaxAppends + 1
  BY DEF LogInv, FlashTypeOK, RamTypeOK
<1>2. gen \in [Sector -> 0 .. GenMod - 1]
  <2>1. gen \in [Sector -> Nat]
    BY DEF LogInv, FlashTypeOK
  <2>2. \A s \in Sector : gen[s] \in 0 .. GenMod - 1
    BY BoundsAre DEF RangesOK, FlashRanges
  <2> QED BY <2>1, <2>2
<1>3. nextGeneration \in 0 .. GenMod - 1 /\ peekEnd \in Position /\ Len(peeked) <= MaxBatch
  BY BoundsAre DEF RangesOK, RamRanges
<1>4. pendingCount \in 0 .. CountMod - 1
  <2>1. CountMod \in Nat /\ CountMod > 0 /\ pendingCount \in Nat
    <3>1. {} \in SUBSET (Sector \X Slot) /\ Cardinality({}) = 0
      BY FS_EmptySet
    <3>2. Cardinality({}) < CountMod
      BY <3>1, CellSetIs
    <3> QED BY <3>1, <3>2, LogAssumption DEF LogInv, RamTypeOK
  <2>2. pendingCount < CountMod
    <3>1. CASE ready
      BY <3>1, LiveIs, CellSetIs DEF LogInv, CountsOK
    <3>2. CASE ~ ready
      BY <2>1, <3>2 DEF LogInv, Reset
    <3> QED BY <3>1, <3>2
  <2> QED BY <2>1, <2>2
<1>5. batch \in Seq(1 .. MaxAppends) /\ Len(batch) = Len(peeked)
  <2>1. CASE ~ ready
    BY <2>1 DEF LogInv
  <2>2. CASE ready
    <3>1. batch \in Seq(Nat) /\ Len(batch) = Len(peeked)
      BY <2>2 DEF LogInv, RamTypeOK, PeekOK
    <3>2. ASSUME NEW j \in 1 .. Len(batch) PROVE batch[j] \in 1 .. MaxAppends
      <4>1. j \in 1 .. Len(peeked)
        BY <3>1
      <4>2. /\ peeked[j].sector \in Sector /\ peeked[j].offset \in Slot
            /\ <<peeked[j].sector, peeked[j].offset>> \in Live
        BY <2>2, <4>1, PeekedIs
      <4>3. IsRecord(peeked[j].sector, peeked[j].offset)
        BY <4>2 DEF Live, Und, IsUndrained
      <4>4. batch[j] = slot[peeked[j].sector][peeked[j].offset].id
        BY <2>2, <4>1 DEF LogInv, PeekOK
      <4> QED BY <4>2, <4>3, <4>4, RecordIds DEF RangesOK
    <3>3. batch \in [1 .. Len(batch) -> 1 .. MaxAppends] /\ Len(batch) \in Nat
      BY <3>1, <3>2
    <3>4. PICK n \in Nat : n = Len(batch)
      BY <3>3
    <3>5. batch \in [1 .. n -> 1 .. MaxAppends]
      BY <3>3, <3>4
    <3>6. batch \in Seq(1 .. MaxAppends)
      BY <3>5, SeqDef, Zenon
    <3> QED BY <3>1, <3>6
  <2> QED BY <2>1, <2>2
<1> QED BY <1>1, <1>2, <1>3, <1>4, <1>5 DEF TypeOK, RangesOK, HistRanges

\* TypeOK: the counters, the generation and the batch stay in their ranges; in particular no
\* pending count and no generation wraps.
THEOREM RangesAreKept ==
  ASSUME Premises
  PROVE  Spec => []TypeOK
<1>1. Init => LogInv /\ RangesOK
  BY InitKeeps, InitRanges
<1>2. LogInv /\ RangesOK /\ [Next]_vars => (LogInv /\ RangesOK)'
  BY NextKeeps, StepRanges
<1>3. LogInv /\ RangesOK => TypeOK
  BY TypesHere
<1> QED BY <1>1, <1>2, <1>3, PTL DEF Spec

\* PeekDiscardsCleanly: a batch that meets records that no longer decode discards them and leaves
\* every counter right, also where appends have failed before.
THEOREM BatchesDiscardCleanly ==
  ASSUME Premises
  PROVE  Spec => []PeekDiscardsCleanly
BY LogInvariant, PeekDiscardsCleanlyHere, PTL

\* RamAgrees: as long as no flash operation fails, what the RAM says of the flash is right:
\* its counters equal what is stored, the walk passes every stored record, and a batch that
\* meets undecodable records discards them and leaves the counters right.
THEOREM RamIsRight ==
  ASSUME Premises, "append_error" \notin Faults
  PROVE  Spec => []RamAgrees
<1>1. LogInv /\ TypeOK => RamAgrees
  BY CountsAgreeHere, NothingStrandedHere, PeekDiscardsCleanlyHere DEF RamAgrees
<1> QED BY <1>1, LogInvariant, RangesAreKept, PTL
=============================================================================
