----------------------------- MODULE SpoolProofs -----------------------------
(***************************************************************************)
(* Proofs about Spool, for every set of buffers, their sizes, the place of *)
(* the split and the limits: the budget, the pins and what readers see.    *)
(***************************************************************************)
EXTENDS Spool, FiniteSetTheorems, TLAPS

Opened(b) == life[b] \in {"open", "closed"}

\* What New, Complete and the readers fix for good.
PlacesOf(b) ==
  /\ ~Opened(b) => /\ b \notin ranged \cup onDisk \cup complete \cup direct
                   /\ reserved[b] = 0 /\ pinned[b] = 0
                   /\ written[b][1] = 0 /\ written[b][2] = 0
                   /\ reader[b] = "idle"
  /\ b \in ranged => size[b] = SizeOf[b]
  /\ Opened(b) /\ b \notin ranged => size[b] = Growing \/ b \in complete
  /\ b \in complete => size[b] = ready[b]
  /\ b \in direct => size[b] # Growing /\ b \notin onDisk
  /\ reader[b] = "writing" => b \in direct
  /\ b \in whole => b \in complete /\ reader[b] = "done" /\ offset[b] = size[b]
  /\ offset[b] <= ready[b] /\ span[b] <= ready[b]
Places == \A b \in Buffers : PlacesOf(b)

\* What a writer copies follows what it wrote, within its range.
Chunks ==
  \A b \in Buffers, w \in Writers : chunk[b][w] # {} =>
    /\ b \in ranged
    /\ \E n \in Nat : /\ chunk[b][w] = Position(b, w)..(Position(b, w) + n - 1)
                      /\ Position(b, w) + n <= End(b, w)

\* What is written has arrived, and ready is the prefix of it without a gap.
ExtentOf(b) ==
  /\ b \in ranged => written[b][1] <= Split /\ written[b][2] <= SizeOf[b] - Split
  /\ b \notin ranged => written[b][2] = 0
  /\ ready[b] = Prefix(b, written[b])
  /\ \A w \in Writers : Start(w)..(Position(b, w) - 1) \subseteq stored[b]
Extent == \A b \in Buffers : ExtentOf(b)

\* Pins are those of writers and of the reader, and pinned RAM is reserved.
Copies(b, w) == IF chunk[b][w] # {} /\ b \notin onDisk THEN 1 ELSE 0
Passes(b) == IF reader[b] = "writing" THEN 1 ELSE 0
MemoryOf(b) ==
  /\ pinned[b] = Copies(b, 1) + Copies(b, 2) + Passes(b)
  /\ (life[b] = "closed" /\ pinned[b] = 0) \/ b \in onDisk => reserved[b] = 0
  /\ b \notin onDisk /\ (life[b] = "open" \/ pinned[b] > 0) =>
       IF b \in ranged THEN reserved[b] = SizeOf[b] ELSE reserved[b] >= written[b][1]
Memory == \A b \in Buffers : MemoryOf(b)

\* The store's count is exact and within its budget.
Account ==
  /\ IsFiniteSet(ReservedBytes)
  /\ used = Cardinality(ReservedBytes)
  /\ used <= Budget

-----------------------------------------------------------------------------
(* Operators of the model *)

\* Growing is no size, and there are two writers.
LEMMA ConstantFacts == /\ Growing \notin Nat
                       /\ 1 \in Writers /\ 2 \in Writers
                       /\ \A w \in Writers : w = 1 \/ w = 2
  BY DEF Growing, Writers

\* The larger of two and of three numbers.
LEMMA MaxFacts == ASSUME NEW x \in Nat, NEW y \in Nat, NEW z \in Nat
                  PROVE  /\ Max({x, y}) \in {x, y} /\ Max({x, y}) >= x
                         /\ Min({x, y}) \in {x, y}
                         /\ Max({x, y, z}) \in {x, y, z} /\ Max({x, y, z}) >= x
<1>1. \E m \in {x, y} : \A e \in {x, y} : m >= e
  OBVIOUS
<1>2. \E m \in {x, y} : \A e \in {x, y} : m <= e
  OBVIOUS
<1>3. \E m \in {x, y, z} : \A e \in {x, y, z} : m >= e
  OBVIOUS
<1> QED
  BY <1>1, <1>2, <1>3 DEF Max, Min

\* appendLocked asks for room for all it has.
LEMMA CapacityFacts == ASSUME TypeOK, NEW b \in Buffers, NEW length \in Nat
                       PROVE  Capacity(b, length) \in Nat /\ Capacity(b, length) >= length
<1> DEFINE wanted == Max({length, 2 * reserved[b], MinGrowth})
<1>1. 2 * reserved[b] \in Nat /\ MinGrowth \in Nat /\ FileLimit \in Nat
  BY SpoolAssumption DEF TypeOK
<1>2. wanted \in Nat /\ wanted >= length
  BY <1>1, MaxFacts
<1> HIDE DEF wanted
<1>3. Min({wanted, FileLimit}) \in Nat
  BY <1>1, <1>2, MaxFacts
<1>4. /\ Max({length, Min({wanted, FileLimit})}) \in Nat
      /\ Max({length, Min({wanted, FileLimit})}) >= length
  BY <1>3, MaxFacts
<1>5. Capacity(b, length) = wanted \/ Capacity(b, length) = Max({length, Min({wanted, FileLimit})})
  BY DEF Capacity, wanted
<1> QED
  BY <1>2, <1>4, <1>5

\* notifyLocked wakes a sleeper and nobody else.
LEMMA NotifyShape ==
  ASSUME TypeOK, NEW b \in Buffers, Notify(b)
  PROVE  /\ reader' \in [Buffers -> {"idle", "awake", "asleep", "writing", "copying", "done"}]
         /\ \A c \in Buffers : reader'[c] = reader[c] \/ (reader[c] = "asleep" /\ reader'[c] = "awake")
  BY DEF TypeOK, Notify

\* advanceLocked counts the bytes of one buffer.
LEMMA AdvanceShape ==
  ASSUME TypeOK, NEW b \in Buffers, NEW done \in [Writers -> Nat], Advance(b, done)
  PROVE  /\ written' = [written EXCEPT ![b] = done]
         /\ ready' \in [Buffers -> Nat]
         /\ \A c \in Buffers : c # b => ready'[c] = ready[c]
         /\ ready'[b] = IF Prefix(b, done) > ready[b] THEN Prefix(b, done) ELSE ready[b]
         /\ reader' \in [Buffers -> {"idle", "awake", "asleep", "writing", "copying", "done"}]
         /\ \A c \in Buffers : reader'[c] = reader[c] \/ (reader[c] = "asleep" /\ reader'[c] = "awake")
<1>1. Prefix(b, done) \in Nat
  BY SpoolAssumption, ConstantFacts DEF Prefix
<1>2. CASE Prefix(b, done) > ready[b]
  BY <1>1, <1>2, NotifyShape DEF Advance, TypeOK
<1>3. CASE ~(Prefix(b, done) > ready[b])
  BY <1>3 DEF Advance, TypeOK
<1> QED
  BY <1>2, <1>3

\* unpinLocked takes one pin and, at the end, the RAM of one buffer.
LEMMA UnpinShape ==
  ASSUME TypeOK, NEW b \in Buffers, Unpin(b)
  PROVE  /\ pinned' = [pinned EXCEPT ![b] = @ - 1]
         /\ \E c \in Nat : /\ reserved' = [reserved EXCEPT ![b] = c]
                           /\ used' = used + c - reserved[b]
                           /\ c = IF life[b] = "closed" /\ pinned[b] = 1 THEN 0 ELSE reserved[b]
<1>1. CASE life[b] = "closed" /\ pinned[b] = 1
  BY <1>1 DEF Unpin, TypeOK
<1>2. CASE ~(life[b] = "closed" /\ pinned[b] = 1)
  <2>1. reserved' = [reserved EXCEPT ![b] = reserved[b]] /\ used' = used
    BY <1>2 DEF Unpin, TypeOK
  <2>2. reserved[b] \in Nat /\ used' = used + reserved[b] - reserved[b]
    BY <2>1 DEF TypeOK
  <2>3. pinned' = [pinned EXCEPT ![b] = @ - 1]
    BY DEF Unpin
  <2> QED
    BY <1>2, <2>1, <2>2, <2>3
<1> QED
  BY <1>1, <1>2

\* What appending does to the RAM of a buffer: it grows within the budget, or
\* moves to disk, or stays.
LEMMA AppendShape ==
  ASSUME TypeOK, NEW b \in Buffers, NEW n \in 1..SizeOf[b], AppendBytes(b, n)
  PROVE  \E c \in Nat : /\ reserved' = [reserved EXCEPT ![b] = c]
                        /\ used' = used + c - reserved[b]
                        /\ used' <= Budget \/ c = 0 \/ c = reserved[b]
                        /\ \/ onDisk' = onDisk \cup {b} /\ c = 0
                           \/ onDisk' = onDisk /\ b \in onDisk /\ c = reserved[b]
                           \/ onDisk' = onDisk /\ b \notin onDisk /\ c >= written[b][1] + n
<1> DEFINE length == written[b][1] + n
<1> DEFINE capacity == Capacity(b, length)
<1>1. length \in Nat /\ reserved[b] \in Nat /\ used \in Int
  BY SpoolAssumption, ConstantFacts DEF TypeOK
<1>2. capacity \in Nat /\ capacity >= length
  BY <1>1, CapacityFacts
<1>3. \/ /\ Fits(capacity, capacity - reserved[b])
         /\ used' = used + capacity - reserved[b]
         /\ reserved' = [reserved EXCEPT ![b] = capacity]
         /\ b \notin onDisk /\ onDisk' = onDisk
      \/ /\ used' = used - reserved[b]
         /\ reserved' = [reserved EXCEPT ![b] = 0]
         /\ onDisk' = onDisk \cup {b}
      \/ /\ b \in onDisk \/ ~(length > reserved[b])
         /\ UNCHANGED <<used, reserved, onDisk>>
  BY DEF AppendBytes
<1> HIDE DEF capacity
<1>4. CASE /\ Fits(capacity, capacity - reserved[b])
           /\ used' = used + capacity - reserved[b]
           /\ reserved' = [reserved EXCEPT ![b] = capacity]
           /\ b \notin onDisk /\ onDisk' = onDisk
  <2>1. used' <= Budget
    BY <1>1, <1>2, <1>4, SpoolAssumption DEF Fits
  <2> QED
    BY <1>1, <1>2, <1>4, <2>1
<1>5. CASE /\ used' = used - reserved[b]
           /\ reserved' = [reserved EXCEPT ![b] = 0]
           /\ onDisk' = onDisk \cup {b}
  <2>1. used' = used + 0 - reserved[b]
    BY <1>1, <1>5
  <2> QED
    BY <1>5, <2>1
<1>6. CASE /\ b \in onDisk \/ ~(length > reserved[b])
           /\ UNCHANGED <<used, reserved, onDisk>>
  <2>1. reserved' = [reserved EXCEPT ![b] = reserved[b]]
    BY <1>6 DEF TypeOK
  <2>2. used' = used + reserved[b] - reserved[b]
    BY <1>1, <1>6
  <2>3. b \in onDisk \/ reserved[b] >= length
    BY <1>1, <1>6
  <2> QED
    BY <1>1, <1>6, <2>1, <2>2, <2>3
<1> QED
  BY <1>3, <1>4, <1>5, <1>6

\* The rest of what appending does.
LEMMA AppendRest ==
  ASSUME TypeOK, NEW b \in Buffers, NEW n \in 1..SizeOf[b], AppendBytes(b, n)
  PROVE  /\ life[b] = "open" /\ size[b] = Growing /\ n \in Nat
         /\ UNCHANGED <<cursorVars, ranged, life, size, pinned, chunk, failed, complete>>
         /\ \A c \in Buffers : c # b => stored'[c] = stored[c]
         /\ stored'[b] = stored[b] \cup (written[b][1]..((written[b][1] + n) - 1))
         /\ stored' \in [Buffers -> SUBSET Nat]
         /\ [written[b] EXCEPT ![1] = written[b][1] + n] \in [Writers -> Nat]
         /\ Advance(b, [written[b] EXCEPT ![1] = written[b][1] + n])
<1>1. n \in Nat /\ written[b] \in [Writers -> Nat]
  BY SpoolAssumption DEF TypeOK
<1>2. life[b] = "open" /\ size[b] = Growing
  BY DEF AppendBytes, Fixed
<1>3. UNCHANGED <<cursorVars, ranged, life, size, pinned, chunk, failed, complete>>
  BY DEF AppendBytes
<1>4. /\ \A c \in Buffers : c # b => stored'[c] = stored[c]
      /\ stored'[b] = stored[b] \cup (written[b][1]..((written[b][1] + n) - 1))
      /\ stored' \in [Buffers -> SUBSET Nat]
  BY <1>1, ConstantFacts DEF AppendBytes, TypeOK
<1>5. Advance(b, [written[b] EXCEPT ![1] = written[b][1] + n])
  BY DEF AppendBytes
<1>6. [written[b] EXCEPT ![1] = written[b][1] + n] \in [Writers -> Nat]
  BY <1>1, ConstantFacts
<1> QED
  BY <1>1, <1>2, <1>3, <1>4, <1>5, <1>6

\* The chunk a writer copied: its bytes follow its earlier ones.
LEMMA ChunkShape ==
  ASSUME TypeOK, Chunks, NEW b \in Buffers, NEW w \in Writers, chunk[b][w] # {}
  PROVE  \E n \in Nat \ {0} :
            /\ Cardinality(chunk[b][w]) = n
            /\ chunk[b][w] = Position(b, w)..(Position(b, w) + n - 1)
            /\ Position(b, w) + n <= End(b, w)
            /\ b \in ranged
<1>1. PICK n \in Nat : /\ chunk[b][w] = Position(b, w)..(Position(b, w) + n - 1)
                       /\ Position(b, w) + n <= End(b, w)
  BY DEF Chunks
<1>2. Position(b, w) \in Nat
  BY SpoolAssumption, ConstantFacts DEF Position, Start, TypeOK
<1>3. n # 0
  BY <1>1, <1>2
<1>4. Cardinality(chunk[b][w]) = n
  BY <1>1, <1>2, <1>3, FS_Interval
<1> QED
  BY <1>1, <1>3, <1>4 DEF Chunks

-----------------------------------------------------------------------------
(* Every step keeps the invariants *)

\* An unused spool satisfies them all.
LEMMA SpoolInit == Init => TypeOK /\ Places /\ Chunks /\ Extent /\ Memory
  BY SpoolAssumption, ConstantFacts
     DEF Init, TypeOK, Places, PlacesOf, Opened, Chunks, Extent, ExtentOf, Memory, MemoryOf, Copies, Passes, Prefix, Start, Position

\* Every step keeps the types.
LEMMA TypeStep == TypeOK /\ Chunks /\ [Next]_vars => TypeOK'
<1> SUFFICES ASSUME TypeOK, Chunks, [Next]_vars PROVE TypeOK'
  OBVIOUS
<1> USE SpoolAssumption, ConstantFacts DEF ramVars, placeVars, stateVars, writeVars, cursorVars
<1>1. ASSUME NEW b \in Buffers, NewInMemory(b) PROVE TypeOK'
  <2>1. SizeOf[b] \in Nat /\ used + SizeOf[b] \in Int
    BY DEF TypeOK
  <2>2. /\ used' \in Int /\ reserved' \in [Buffers -> Nat]
        /\ size' \in [Buffers -> {Growing} \cup Nat] /\ ranged' \subseteq Buffers
    <3>1. CASE /\ used' = used + SizeOf[b]
               /\ reserved' = [reserved EXCEPT ![b] = SizeOf[b]]
               /\ size' = [size EXCEPT ![b] = SizeOf[b]]
               /\ ranged' = ranged \cup {b}
      BY <2>1, <3>1 DEF TypeOK
    <3>2. CASE size' = [size EXCEPT ![b] = Growing] /\ UNCHANGED <<used, reserved, ranged>>
      BY <3>2 DEF TypeOK
    <3> QED
      BY <1>1, <3>1, <3>2 DEF NewInMemory, TypeOK
  <2>3. life' = [life EXCEPT ![b] = "open"]
        /\ UNCHANGED <<writeVars, cursorVars, onDisk, pinned, ready, failed, complete, reader>>
    BY <1>1 DEF NewInMemory, TypeOK
  <2> QED
    BY <2>2, <2>3 DEF TypeOK
<1>2. ASSUME NEW b \in Buffers, NewOnDisk(b) PROVE TypeOK'
  <2>1. size' \in [Buffers -> {Growing} \cup Nat] /\ {ranged', onDisk'} \subseteq SUBSET Buffers
    <3>1. CASE /\ size' = [size EXCEPT ![b] = SizeOf[b]]
               /\ onDisk' = onDisk \cup {b} /\ ranged' = ranged \cup {b}
      BY <3>1 DEF TypeOK
    <3>2. CASE UNCHANGED <<placeVars, size>>
      BY <3>2 DEF TypeOK
    <3> QED
      BY <1>2, <3>1, <3>2 DEF NewOnDisk, TypeOK
  <2>2. life' = [life EXCEPT ![b] = "open"] \/ life' = [life EXCEPT ![b] = "refused"]
    BY <1>2 DEF NewOnDisk, TypeOK
  <2>3. UNCHANGED <<ramVars, writeVars, cursorVars, ready, failed, complete, reader>>
    BY <1>2 DEF NewOnDisk, TypeOK
  <2>4. /\ life' \in [Buffers -> {"none", "open", "closed", "refused"}]
        /\ ranged' \subseteq Buffers /\ onDisk' \subseteq Buffers
    BY <2>1, <2>2 DEF TypeOK
  <2> QED
    BY <2>1, <2>3, <2>4 DEF TypeOK
<1>3. ASSUME NEW b \in Buffers, NEW w \in Writers, NEW n \in 1..SizeOf[b], WriteStart(b, w, n) PROVE TypeOK'
  <2>1. Position(b, w) \in Nat /\ n \in Nat
    BY DEF Position, Start, TypeOK
  <2>2. Position(b, w)..(Position(b, w) + n - 1) \subseteq Nat
    BY <2>1 DEF TypeOK
  <2>3. chunk' \in [Buffers -> [Writers -> SUBSET Nat]]
    BY <1>3, <2>2 DEF WriteStart, TypeOK
  <2>4. pinned' \in [Buffers -> Int]
    BY <1>3 DEF WriteStart, TypeOK
  <2> QED
    BY <1>3, <2>3, <2>4 DEF WriteStart, TypeOK
<1>4. ASSUME NEW b \in Buffers, NEW w \in Writers, WriteEnd(b, w) PROVE TypeOK'
  <2>0. chunk[b][w] # {}
    BY <1>4 DEF WriteEnd
  <2>1. PICK n \in Nat : Cardinality(chunk[b][w]) = n
    BY <2>0, ChunkShape
  <2>2. [written[b] EXCEPT ![w] = written[b][w] + n] \in [Writers -> Nat]
    BY <2>1 DEF TypeOK
  <2>3. /\ written' \in [Buffers -> [Writers -> Nat]] /\ ready' \in [Buffers -> Nat]
        /\ reader' \in [Buffers -> {"idle", "awake", "asleep", "writing", "copying", "done"}]
    <3>1. CASE UNCHANGED <<written, ready, reader>>
      BY <3>1 DEF TypeOK
    <3>2. CASE Advance(b, [written[b] EXCEPT ![w] = written[b][w] + n])
      <4>1. written' = [written EXCEPT ![b] = [written[b] EXCEPT ![w] = written[b][w] + n]]
        BY <2>2, <3>2, AdvanceShape
      <4>2. /\ ready' \in [Buffers -> Nat]
            /\ reader' \in [Buffers -> {"idle", "awake", "asleep", "writing", "copying", "done"}]
        BY <2>2, <3>2, AdvanceShape
      <4> QED
        BY <2>2, <4>1, <4>2 DEF TypeOK
    <3> QED
      BY <1>4, <2>1, <3>1, <3>2 DEF WriteEnd, TypeOK
  <2>4. used' \in Int /\ reserved' \in [Buffers -> Nat] /\ pinned' \in [Buffers -> Int]
    <3>1. CASE UNCHANGED ramVars
      BY <3>1 DEF TypeOK
    <3>2. CASE Unpin(b)
      <4>1. PICK c \in Nat : reserved' = [reserved EXCEPT ![b] = c] /\ used' = used + c - reserved[b]
        BY <3>2, UnpinShape
      <4>2. pinned' = [pinned EXCEPT ![b] = @ - 1]
        BY <3>2, UnpinShape
      <4> QED
        BY <4>1, <4>2 DEF TypeOK
    <3> QED
      BY <1>4, <3>1, <3>2 DEF WriteEnd, TypeOK
  <2>5. /\ stored' \in [Buffers -> SUBSET Nat] /\ chunk' \in [Buffers -> [Writers -> SUBSET Nat]]
        /\ UNCHANGED <<placeVars, cursorVars, life, size, failed, complete>>
    BY <1>4 DEF WriteEnd, TypeOK
  <2> QED
    BY <2>3, <2>4, <2>5 DEF TypeOK
<1>5. ASSUME NEW b \in Buffers, NEW w \in Writers, WriteFails(b, w) PROVE TypeOK'
  BY <1>5 DEF WriteFails, TypeOK
<1>6. ASSUME NEW b \in Buffers, NEW n \in 1..SizeOf[b], AppendBytes(b, n) PROVE TypeOK'
  <2>1. /\ written' \in [Buffers -> [Writers -> Nat]] /\ ready' \in [Buffers -> Nat]
        /\ reader' \in [Buffers -> {"idle", "awake", "asleep", "writing", "copying", "done"}]
    <3>1. PICK done \in [Writers -> Nat] : Advance(b, done)
      BY <1>6, AppendRest
    <3>2. written' = [written EXCEPT ![b] = done]
      BY <3>1, AdvanceShape
    <3>3. /\ ready' \in [Buffers -> Nat]
          /\ reader' \in [Buffers -> {"idle", "awake", "asleep", "writing", "copying", "done"}]
      BY <3>1, AdvanceShape
    <3> QED
      BY <3>1, <3>2, <3>3 DEF TypeOK
  <2>2. /\ UNCHANGED <<cursorVars, ranged, life, size, pinned, chunk, failed, complete>>
        /\ stored' \in [Buffers -> SUBSET Nat]
    BY <1>6, AppendRest
  <2>3. used' \in Int /\ reserved' \in [Buffers -> Nat] /\ onDisk' \subseteq Buffers
    <3>1. PICK c \in Nat : /\ reserved' = [reserved EXCEPT ![b] = c]
                           /\ used' = used + c - reserved[b]
                           /\ onDisk' = onDisk \/ onDisk' = onDisk \cup {b}
      BY <1>6, AppendShape
    <3> QED
      BY <3>1 DEF TypeOK
  <2> QED
    BY <2>1, <2>2, <2>3 DEF TypeOK
<1>7. ASSUME NEW b \in Buffers, NEW n \in 1..SizeOf[b], SpillFails(b, n) PROVE TypeOK'
  BY <1>7 DEF SpillFails, Notify, TypeOK
<1>8. ASSUME NEW b \in Buffers, Complete(b) PROVE TypeOK'
  BY <1>8 DEF Complete, Notify, Fixed, TypeOK
<1>9. ASSUME NEW b \in Buffers, Fail(b) PROVE TypeOK'
  BY <1>9 DEF Fail, Notify, TypeOK
<1>10. ASSUME NEW b \in Buffers, Close(b) PROVE TypeOK'
  <2>1. /\ life' = [life EXCEPT ![b] = "closed"] /\ failed' = failed \cup {b}
        /\ UNCHANGED <<placeVars, writeVars, cursorVars, size, pinned, ready, complete>>
        /\ Notify(b)
    BY <1>10 DEF Close, TypeOK
  <2>2. used' \in Int /\ reserved' \in [Buffers -> Nat]
    <3>1. CASE UNCHANGED <<used, reserved>>
      BY <3>1 DEF TypeOK
    <3>2. CASE used' = used - reserved[b] /\ reserved' = [reserved EXCEPT ![b] = 0]
      BY <3>2 DEF TypeOK
    <3> QED
      BY <1>10, <3>1, <3>2 DEF Close
  <2>3. reader' \in [Buffers -> {"idle", "awake", "asleep", "writing", "copying", "done"}]
    BY <2>1, NotifyShape
  <2>4. life' \in [Buffers -> {"none", "open", "closed", "refused"}] /\ failed' \subseteq Buffers
    BY <2>1 DEF TypeOK
  <2>5. UNCHANGED <<ranged, onDisk, written, chunk, stored, direct, offset, span, whole, size,
                    pinned, ready, complete>>
    BY <2>1 DEF placeVars, writeVars, cursorVars
  <2> QED
    BY <2>2, <2>3, <2>4, <2>5 DEF TypeOK
<1>11. ASSUME NEW b \in Buffers, OpenReader(b) PROVE TypeOK'
  BY <1>11 DEF OpenReader, Fixed, TypeOK
<1>12. ASSUME NEW b \in Buffers, ReadStart(b) PROVE TypeOK'
  BY <1>12 DEF ReadStart, TypeOK
<1>13. ASSUME NEW b \in Buffers, ReadEnd(b) PROVE TypeOK'
  <2>1. used' \in Int /\ reserved' \in [Buffers -> Nat] /\ pinned' \in [Buffers -> Int]
    <3>1. CASE UNCHANGED ramVars
      BY <3>1 DEF TypeOK
    <3>2. CASE Unpin(b)
      <4>1. PICK c \in Nat : reserved' = [reserved EXCEPT ![b] = c] /\ used' = used + c - reserved[b]
        BY <3>2, UnpinShape
      <4>2. pinned' = [pinned EXCEPT ![b] = @ - 1]
        BY <3>2, UnpinShape
      <4> QED
        BY <4>1, <4>2 DEF TypeOK
    <3> QED
      BY <1>13, <3>1, <3>2 DEF ReadEnd, TypeOK
  <2>2. /\ reader' = [reader EXCEPT ![b] = "awake"] \/ reader' = [reader EXCEPT ![b] = "done"]
        /\ offset' = offset \/ offset' = [offset EXCEPT ![b] = span[b]]
        /\ UNCHANGED <<placeVars, stateVars, writeVars, span, whole, direct>>
    BY <1>13 DEF ReadEnd, TypeOK
  <2> QED
    BY <2>1, <2>2 DEF TypeOK
<1>14. ASSUME NEW b \in Buffers, ReadStop(b) PROVE TypeOK'
  BY <1>14 DEF ReadStop, TypeOK
<1>15. ASSUME NEW b \in Buffers, ReadSleep(b) PROVE TypeOK'
  BY <1>15 DEF ReadSleep, TypeOK
<1>16. ASSUME NEW b \in Buffers, ReadCancelled(b) PROVE TypeOK'
  BY <1>16 DEF ReadCancelled, TypeOK
<1>17. CASE UNCHANGED vars
  BY <1>17 DEF vars, TypeOK
<1>18. ASSUME NEW b \in Buffers, NEW n \in 1..SizeOf[b], AppendFails(b, n) PROVE TypeOK'
  BY <1>18 DEF AppendFails, TypeOK
<1> QED
  BY <1>1, <1>2, <1>3, <1>4, <1>5, <1>6, <1>7, <1>8, <1>9, <1>10, <1>11, <1>12, <1>13, <1>14, <1>15, <1>16, <1>17, <1>18 DEF Next, Write, Read

-----------------------------------------------------------------------------
(* The budget *)

\* Changing what one buffer holds changes the number of reserved bytes by as much.
LEMMA ReservedChange ==
  ASSUME TypeOK, IsFiniteSet(ReservedBytes), NEW b \in Buffers, NEW c \in Nat,
         reserved' = [reserved EXCEPT ![b] = c]
  PROVE  /\ IsFiniteSet(ReservedBytes')
         /\ Cardinality(ReservedBytes') = (Cardinality(ReservedBytes) - reserved[b]) + c
<1> DEFINE Old == {b} \X (1..reserved[b])
<1> DEFINE New == {b} \X (1..c)
<1> DEFINE Rest == ReservedBytes \ Old
<1>1. reserved[b] \in Nat
  BY DEF TypeOK
<1>2. ASSUME NEW k \in Nat
      PROVE  IsFiniteSet({b} \X (1..k)) /\ Cardinality({b} \X (1..k)) = k
  <2>1. IsFiniteSet({b}) /\ Cardinality({b}) = 1
    BY FS_Singleton
  <2>2. IsFiniteSet(1..k) /\ Cardinality(1..k) = k
    BY FS_Interval
  <2>3. IsFiniteSet({b} \X (1..k)) /\ Cardinality({b} \X (1..k)) = Cardinality({b}) * Cardinality(1..k)
    BY <2>1, <2>2, FS_Product
  <2> QED
    BY <2>1, <2>2, <2>3
<1>3. \A p : p \in ReservedBytes <=> \E d \in Buffers : p \in {d} \X (1..reserved[d])
  BY DEF ReservedBytes
<1>4. \A p : p \in ReservedBytes' <=> \E d \in Buffers : p \in {d} \X (1..reserved'[d])
  BY DEF ReservedBytes
<1>5. reserved'[b] = c /\ \A d \in Buffers : d # b => reserved'[d] = reserved[d]
  BY DEF TypeOK
<1>6. Old \subseteq ReservedBytes
  BY <1>3
<1>7. \A p, d : d # b /\ p \in {d} \X (1..reserved[d]) => p \notin Old /\ p \notin New
  OBVIOUS
<1>8. ReservedBytes' = Rest \cup New
  <2>1. ASSUME NEW p \in ReservedBytes' PROVE p \in Rest \cup New
    <3>1. PICK d \in Buffers : p \in {d} \X (1..reserved'[d])
      BY <1>4
    <3>2. CASE d = b
      BY <1>5, <3>1, <3>2
    <3>3. CASE d # b
      <4>1. p \in {d} \X (1..reserved[d])
        BY <1>5, <3>1, <3>3
      <4> HIDE DEF Old, New
      <4> QED
        BY <1>3, <1>7, <3>3, <4>1
    <3> QED
      BY <3>2, <3>3
  <2>2. ASSUME NEW p \in Rest PROVE p \in ReservedBytes'
    <3>1. PICK d \in Buffers : p \in {d} \X (1..reserved[d])
      BY <1>3
    <3>2. d # b
      BY <3>1
    <3>3. p \in {d} \X (1..reserved'[d])
      BY <1>5, <3>1, <3>2
    <3> QED
      BY <1>4, <3>3
  <2>3. ASSUME NEW p \in New PROVE p \in ReservedBytes'
    <3>1. p \in {b} \X (1..reserved'[b])
      BY <1>5
    <3> QED
      BY <1>4, <3>1
  <2> QED
    BY <2>1, <2>2, <2>3
<1>9. Rest \cap New = {}
  <2>1. ASSUME NEW p \in Rest, p \in New PROVE FALSE
    <3>1. PICK d \in Buffers : p \in {d} \X (1..reserved[d])
      BY <1>3
    <3>2. d # b
      BY <3>1
    <3> HIDE DEF Old, New
    <3> QED
      BY <1>7, <2>1, <3>1, <3>2
  <2> QED
    BY <2>1
<1>10. IsFiniteSet(Old) /\ Cardinality(Old) = reserved[b] /\ IsFiniteSet(New) /\ Cardinality(New) = c
  BY <1>1, <1>2
<1> HIDE DEF Old, New
<1>11. IsFiniteSet(Rest) /\ Cardinality(Rest) = Cardinality(ReservedBytes) - Cardinality(ReservedBytes \cap Old)
  BY FS_Difference
<1>12. ReservedBytes \cap Old = Old
  BY <1>6
<1> HIDE DEF Rest
<1>13. /\ IsFiniteSet(Rest \cup New)
       /\ Cardinality(Rest \cup New) = Cardinality(Rest) + Cardinality(New) - Cardinality(Rest \cap New)
  BY <1>10, <1>11, FS_Union
<1>14. Cardinality(Rest \cap New) = 0
  BY <1>9, FS_EmptySet
<1>15. Cardinality(ReservedBytes) \in Nat /\ Cardinality(Rest) \in Nat
  BY <1>11, FS_CardinalityType
<1>16. Cardinality(Rest) = Cardinality(ReservedBytes) - reserved[b]
  BY <1>10, <1>11, <1>12
<1>17. Cardinality(Rest \cup New) = Cardinality(Rest) + c
  BY <1>10, <1>13, <1>14, <1>15
<1> QED
  BY <1>1, <1>8, <1>13, <1>15, <1>16, <1>17

\* So the account stays exact, and within the budget if RAM is only taken there.
LEMMA AccountChange ==
  ASSUME TypeOK, Account, NEW b \in Buffers, NEW c \in Nat,
         reserved' = [reserved EXCEPT ![b] = c], used' = used + c - reserved[b],
         used' <= Budget \/ c <= reserved[b]
  PROVE  Account'
<1>1. /\ IsFiniteSet(ReservedBytes')
      /\ Cardinality(ReservedBytes') = (Cardinality(ReservedBytes) - reserved[b]) + c
  BY ReservedChange DEF Account
<1>2. used \in Int /\ reserved[b] \in Nat /\ used = Cardinality(ReservedBytes) /\ used <= Budget
  BY DEF TypeOK, Account
<1>3. used' = Cardinality(ReservedBytes') /\ used' <= Budget
  BY <1>1, <1>2, SpoolAssumption
<1> QED
  BY <1>1, <1>3 DEF Account

\* Steps that leave the RAM of all buffers alone.
LEMMA AccountFrame == ASSUME Account, UNCHANGED <<used, reserved>> PROVE Account'
  BY DEF Account, ReservedBytes

\* A buffer takes RAM only within the budget.
LEMMA AccountStep == TypeOK /\ Places /\ Account /\ [Next]_vars => Account'
<1> SUFFICES ASSUME TypeOK, Places, Account, [Next]_vars PROVE Account'
  OBVIOUS
<1> USE SpoolAssumption, ConstantFacts DEF ramVars, placeVars, stateVars, writeVars, cursorVars
<1>1. ASSUME NEW b \in Buffers, NewInMemory(b) PROVE Account'
  <2>1. CASE UNCHANGED <<used, reserved>>
    BY <2>1, AccountFrame
  <2>2. CASE /\ Fits(SizeOf[b], SizeOf[b])
             /\ used' = used + SizeOf[b] /\ reserved' = [reserved EXCEPT ![b] = SizeOf[b]]
    <3>1. reserved[b] = 0 /\ SizeOf[b] \in Nat /\ used \in Int
      BY <1>1 DEF NewInMemory, Places, PlacesOf, Opened, TypeOK
    <3>2. used' = used + SizeOf[b] - reserved[b] /\ used' <= Budget
      BY <2>2, <3>1 DEF Fits
    <3> QED
      BY <2>2, <3>1, <3>2, AccountChange
  <2> QED
    BY <1>1, <2>1, <2>2 DEF NewInMemory
<1>2. ASSUME NEW b \in Buffers, NewOnDisk(b) PROVE Account'
  BY <1>2, AccountFrame DEF NewOnDisk, Fits
<1>3. ASSUME NEW b \in Buffers, NEW w \in Writers, NEW n \in 1..SizeOf[b], WriteStart(b, w, n) PROVE Account'
  BY <1>3, AccountFrame DEF WriteStart
<1>4. ASSUME NEW b \in Buffers, NEW w \in Writers, WriteEnd(b, w) PROVE Account'
  <2>1. CASE UNCHANGED ramVars
    BY <2>1, AccountFrame
  <2>2. CASE Unpin(b)
    <3>1. PICK c \in Nat : /\ reserved' = [reserved EXCEPT ![b] = c]
                           /\ used' = used + c - reserved[b] /\ (c = 0 \/ c = reserved[b])
      BY <2>2, UnpinShape
    <3>2. c <= reserved[b]
      BY <3>1 DEF TypeOK
    <3> QED
      BY <3>1, <3>2, AccountChange
  <2> QED
    BY <1>4, <2>1, <2>2 DEF WriteEnd
<1>5. ASSUME NEW b \in Buffers, NEW w \in Writers, WriteFails(b, w) PROVE Account'
  BY <1>5, AccountFrame DEF WriteFails
<1>6. ASSUME NEW b \in Buffers, NEW n \in 1..SizeOf[b], AppendBytes(b, n) PROVE Account'
  <2>1. PICK c \in Nat : /\ reserved' = [reserved EXCEPT ![b] = c]
                         /\ used' = used + c - reserved[b]
                         /\ used' <= Budget \/ c = 0 \/ c = reserved[b]
    BY <1>6, AppendShape
  <2>2. used' <= Budget \/ c <= reserved[b]
    BY <2>1 DEF TypeOK
  <2> QED
    BY <2>1, <2>2, AccountChange
<1>7. ASSUME NEW b \in Buffers, NEW n \in 1..SizeOf[b], SpillFails(b, n) PROVE Account'
  BY <1>7, AccountFrame DEF SpillFails, Notify
<1>8. ASSUME NEW b \in Buffers, Complete(b) PROVE Account'
  BY <1>8, AccountFrame DEF Complete, Notify, Fixed
<1>9. ASSUME NEW b \in Buffers, Fail(b) PROVE Account'
  BY <1>9, AccountFrame DEF Fail, Notify
<1>10. ASSUME NEW b \in Buffers, Close(b) PROVE Account'
  <2>1. CASE UNCHANGED <<used, reserved>>
    BY <2>1, AccountFrame
  <2>2. CASE used' = used - reserved[b] /\ reserved' = [reserved EXCEPT ![b] = 0]
    <3>1. used' = used + 0 - reserved[b] /\ 0 <= reserved[b]
      BY <2>2 DEF TypeOK
    <3> QED
      BY <2>2, <3>1, AccountChange
  <2> QED
    BY <1>10, <2>1, <2>2 DEF Close
<1>11. ASSUME NEW b \in Buffers, OpenReader(b) PROVE Account'
  BY <1>11, AccountFrame DEF OpenReader, Fixed
<1>12. ASSUME NEW b \in Buffers, ReadStart(b) PROVE Account'
  BY <1>12, AccountFrame DEF ReadStart
<1>13. ASSUME NEW b \in Buffers, ReadEnd(b) PROVE Account'
  <2>1. CASE UNCHANGED ramVars
    BY <2>1, AccountFrame
  <2>2. CASE Unpin(b)
    <3>1. PICK c \in Nat : /\ reserved' = [reserved EXCEPT ![b] = c]
                           /\ used' = used + c - reserved[b] /\ (c = 0 \/ c = reserved[b])
      BY <2>2, UnpinShape
    <3>2. c <= reserved[b]
      BY <3>1 DEF TypeOK
    <3> QED
      BY <3>1, <3>2, AccountChange
  <2> QED
    BY <1>13, <2>1, <2>2 DEF ReadEnd
<1>14. ASSUME NEW b \in Buffers, ReadStop(b) PROVE Account'
  BY <1>14, AccountFrame DEF ReadStop
<1>15. ASSUME NEW b \in Buffers, ReadSleep(b) PROVE Account'
  BY <1>15, AccountFrame DEF ReadSleep
<1>16. ASSUME NEW b \in Buffers, ReadCancelled(b) PROVE Account'
  BY <1>16, AccountFrame DEF ReadCancelled
<1>17. CASE UNCHANGED vars
  BY <1>17, AccountFrame DEF vars
<1>18. ASSUME NEW b \in Buffers, NEW n \in 1..SizeOf[b], AppendFails(b, n) PROVE Account'
  <2>1. /\ reserved' = [reserved EXCEPT ![b] = 0] /\ used' = used + 0 - reserved[b]
        /\ UNCHANGED pinned /\ 0 <= reserved[b]
    BY <1>18 DEF AppendFails, TypeOK
  <2> QED
    BY <2>1, AccountChange
<1> QED
  BY <1>1, <1>2, <1>3, <1>4, <1>5, <1>6, <1>7, <1>8, <1>9, <1>10, <1>11, <1>12, <1>13, <1>14, <1>15, <1>16, <1>17, <1>18 DEF Next, Write, Read

-----------------------------------------------------------------------------
(* Writers *)

\* A writer has one chunk at a time.
LEMMA ChunksStep == TypeOK /\ Places /\ Chunks /\ [Next]_vars => Chunks'
<1> SUFFICES ASSUME TypeOK, Places, Chunks, [Next]_vars PROVE Chunks'
  OBVIOUS
<1> USE SpoolAssumption, ConstantFacts DEF ramVars, placeVars, stateVars, writeVars, cursorVars
<1>1. ASSUME NEW b \in Buffers, NewInMemory(b) PROVE Chunks'
  BY <1>1 DEF NewInMemory, Fits, Chunks, Position, End, TypeOK
<1>2. ASSUME NEW b \in Buffers, NewOnDisk(b) PROVE Chunks'
  BY <1>2 DEF NewOnDisk, Fits, Chunks, Position, End, TypeOK
<1>3. ASSUME NEW b \in Buffers, NEW w \in Writers, NEW n \in 1..SizeOf[b], WriteStart(b, w, n) PROVE Chunks'
  <2>1. b \in ranged /\ Position(b, w) + n <= End(b, w) /\ UNCHANGED <<ranged, written>> /\ n \in Nat
    BY <1>3 DEF WriteStart
  <2>2. chunk' = [chunk EXCEPT ![b][w] = Position(b, w)..(Position(b, w) + n - 1)]
    BY <1>3 DEF WriteStart
  <2>3. ASSUME NEW c \in Buffers, NEW v \in Writers, chunk'[c][v] # {}, <<c, v>> # <<b, w>>
        PROVE  chunk'[c][v] = chunk[c][v]
    BY <2>2, <2>3 DEF TypeOK
  <2>4. chunk'[b][w] = Position(b, w)..(Position(b, w) + n - 1)
    BY <2>2 DEF TypeOK
  <2>5. \A c \in Buffers, v \in Writers : Position(c, v)' = Position(c, v)
    BY <2>1 DEF Position
  <2>6. ASSUME NEW c \in Buffers, NEW v \in Writers, chunk'[c][v] # {}
        PROVE  /\ c \in ranged
               /\ \E k \in Nat : /\ chunk'[c][v] = Position(c, v)..(Position(c, v) + k - 1)
                                 /\ Position(c, v) + k <= End(c, v)
    <3>1. CASE <<c, v>> = <<b, w>>
      BY <2>1, <2>4, <3>1
    <3>2. CASE <<c, v>> # <<b, w>>
      BY <2>3, <2>6, <3>2 DEF Chunks
    <3> QED
      BY <3>1, <3>2
  <2>7. \A c \in Buffers, v \in Writers : End(c, v)' = End(c, v)
    BY DEF End
  <2> QED
    BY <2>1, <2>5, <2>6, <2>7 DEF Chunks
<1>4. ASSUME NEW b \in Buffers, NEW w \in Writers, WriteEnd(b, w) PROVE Chunks'
  <2>1. PICK n \in Nat : Cardinality(chunk[b][w]) = n
    BY <1>4, ChunkShape DEF WriteEnd
  <2>2. chunk' = [chunk EXCEPT ![b][w] = {}] /\ UNCHANGED ranged
    BY <1>4 DEF WriteEnd
  <2>3. \A c \in Buffers, v \in Writers : <<c, v>> # <<b, w>> => written'[c][v] = written[c][v]
    <3>1. written' = written \/ written' = [written EXCEPT ![b] = [written[b] EXCEPT ![w] = @ + n]]
      BY <1>4, <2>1 DEF WriteEnd, Advance
    <3> QED
      BY <3>1 DEF TypeOK
  <2>4. \A c \in Buffers, v \in Writers : chunk'[c][v] # {} =>
           <<c, v>> # <<b, w>> /\ chunk'[c][v] = chunk[c][v]
    BY <2>2 DEF TypeOK
  <2>5. \A c \in Buffers, v \in Writers : chunk'[c][v] # {} => Position(c, v)' = Position(c, v)
    BY <2>3, <2>4 DEF Position
  <2> QED
    BY <2>2, <2>4, <2>5 DEF Chunks, End
<1>5. ASSUME NEW b \in Buffers, NEW w \in Writers, WriteFails(b, w) PROVE Chunks'
  <2>1. chunk' = [chunk EXCEPT ![b][w] = {}] /\ UNCHANGED <<ranged, written>>
    BY <1>5 DEF WriteFails
  <2>2. \A c \in Buffers, v \in Writers : chunk'[c][v] # {} => chunk'[c][v] = chunk[c][v]
    BY <2>1 DEF TypeOK
  <2>3. \A c \in Buffers, v \in Writers : Position(c, v)' = Position(c, v)
    BY <2>1 DEF Position
  <2> QED
    BY <2>1, <2>2, <2>3 DEF Chunks, End
<1>6. ASSUME NEW b \in Buffers, NEW n \in 1..SizeOf[b], AppendBytes(b, n) PROVE Chunks'
  <2>0. size[b] = Growing
    BY <1>6, AppendRest
  <2>1. b \notin ranged
    BY <2>0 DEF Places, PlacesOf
  <2>2. UNCHANGED <<chunk, ranged>> /\ \A c \in Buffers : c # b => written'[c] = written[c]
    <3>1. PICK done \in [Writers -> Nat] : Advance(b, done)
      BY <1>6, AppendRest
    <3>2. UNCHANGED <<chunk, ranged>>
      BY <1>6, AppendRest
    <3>3. written' = [written EXCEPT ![b] = done]
      BY <3>1, AdvanceShape
    <3> QED
      BY <3>2, <3>3 DEF TypeOK
  <2>3. \A c \in Buffers, v \in Writers : chunk[c][v] # {} => c # b
    BY <2>1 DEF Chunks
  <2>4. \A c \in Buffers, v \in Writers : chunk[c][v] # {} => Position(c, v)' = Position(c, v)
    BY <2>2, <2>3 DEF Position
  <2> QED
    BY <2>2, <2>4 DEF Chunks, End
<1>7. ASSUME NEW b \in Buffers, NEW n \in 1..SizeOf[b], SpillFails(b, n) PROVE Chunks'
  BY <1>7 DEF SpillFails, Notify, Chunks, Position, End, TypeOK
<1>8. ASSUME NEW b \in Buffers, Complete(b) PROVE Chunks'
  BY <1>8 DEF Complete, Notify, Fixed, Chunks, Position, End, TypeOK
<1>9. ASSUME NEW b \in Buffers, Fail(b) PROVE Chunks'
  BY <1>9 DEF Fail, Notify, Chunks, Position, End, TypeOK
<1>10. ASSUME NEW b \in Buffers, Close(b) PROVE Chunks'
  BY <1>10 DEF Close, Notify, Chunks, Position, End, TypeOK
<1>11. ASSUME NEW b \in Buffers, OpenReader(b) PROVE Chunks'
  BY <1>11 DEF OpenReader, Fixed, Chunks, Position, End, TypeOK
<1>12. ASSUME NEW b \in Buffers, ReadStart(b) PROVE Chunks'
  BY <1>12 DEF ReadStart, Chunks, Position, End, TypeOK
<1>13. ASSUME NEW b \in Buffers, ReadEnd(b) PROVE Chunks'
  BY <1>13 DEF ReadEnd, Unpin, Chunks, Position, End, TypeOK
<1>14. ASSUME NEW b \in Buffers, ReadStop(b) PROVE Chunks'
  BY <1>14 DEF ReadStop, Chunks, Position, End, TypeOK
<1>15. ASSUME NEW b \in Buffers, ReadSleep(b) PROVE Chunks'
  BY <1>15 DEF ReadSleep, Chunks, Position, End, TypeOK
<1>16. ASSUME NEW b \in Buffers, ReadCancelled(b) PROVE Chunks'
  BY <1>16 DEF ReadCancelled, Chunks, Position, End, TypeOK
<1>17. CASE UNCHANGED vars
  BY <1>17 DEF vars, Chunks, Position, End, TypeOK
<1>18. ASSUME NEW b \in Buffers, NEW n \in 1..SizeOf[b], AppendFails(b, n) PROVE Chunks'
  BY <1>18 DEF AppendFails, Chunks, Position, End, TypeOK
<1> QED
  BY <1>1, <1>2, <1>3, <1>4, <1>5, <1>6, <1>7, <1>8, <1>9, <1>10, <1>11, <1>12, <1>13, <1>14, <1>15, <1>16, <1>17, <1>18 DEF Next, Write, Read

\* A buffer whose bytes and counts do not change keeps them in order.
LEMMA ExtentFrame ==
  ASSUME NEW c \in Buffers, ExtentOf(c), written'[c] = written[c], ready'[c] = ready[c],
         stored[c] \subseteq stored'[c], c \in ranged' <=> c \in ranged
  PROVE  ExtentOf(c)'
<1>1. Prefix(c, written[c])' = Prefix(c, written[c])
  BY DEF Prefix
<1>2. \A w \in Writers : Position(c, w)' = Position(c, w)
  BY DEF Position
<1>3. \A w \in Writers : Start(w)..(Position(c, w)' - 1) \subseteq stored'[c]
  BY <1>2 DEF ExtentOf
<1> QED
  BY <1>1, <1>3 DEF ExtentOf

\* A buffer of known size is never read beyond it.
LEMMA ReadyWithinSize ==
  ASSUME TypeOK, NEW b \in Buffers, ExtentOf(b), b \in ranged PROVE ready[b] <= SizeOf[b]
  BY SpoolAssumption, ConstantFacts DEF TypeOK, ExtentOf, Prefix

\* Only bytes that arrived count as written.
LEMMA ExtentStep == TypeOK /\ Places /\ Chunks /\ Extent /\ [Next]_vars => Extent'
<1> SUFFICES ASSUME TypeOK, Places, Chunks, Extent, [Next]_vars PROVE Extent'
  OBVIOUS
<1> USE SpoolAssumption, ConstantFacts DEF ramVars, placeVars, stateVars, writeVars, cursorVars
<1>0. ASSUME UNCHANGED <<ranged, written, ready, stored>> PROVE Extent'
  BY <1>0, ExtentFrame DEF Extent
<1>1. ASSUME NEW b \in Buffers, NewInMemory(b) PROVE Extent'
  <2>1. ~Opened(b)
    BY <1>1 DEF NewInMemory, Opened
  <2>2. /\ b \notin ranged /\ written[b][1] = 0 /\ written[b][2] = 0
    BY <2>1 DEF Places, PlacesOf
  <2>3. ready[b] = 0
    BY <2>2 DEF Extent, ExtentOf, Prefix
  <2>4. UNCHANGED <<written, ready, stored>> /\ (ranged' = ranged \/ ranged' = ranged \cup {b})
    BY <1>1 DEF NewInMemory
  <2>5. ASSUME NEW c \in Buffers, c # b PROVE ExtentOf(c)'
    <3>1. ExtentOf(c) /\ (c \in ranged' <=> c \in ranged)
      BY <2>4, <2>5 DEF Extent
    <3> QED
      BY <2>4, <3>1, ExtentFrame
  <2>6. ExtentOf(b)'
    <3>1. Prefix(b, written[b])' = 0
      BY <2>2, <2>4 DEF Prefix
    <3>2. \A w \in Writers : Start(w)..(Position(b, w)' - 1) \subseteq stored'[b]
      BY <2>2, <2>4 DEF Position, Start
    <3> QED
      BY <2>2, <2>3, <2>4, <3>1, <3>2 DEF ExtentOf
  <2> QED
    BY <2>5, <2>6 DEF Extent
<1>2. ASSUME NEW b \in Buffers, NewOnDisk(b) PROVE Extent'
  <2>1. ~Opened(b)
    BY <1>2 DEF NewOnDisk, Opened
  <2>2. /\ b \notin ranged /\ written[b][1] = 0 /\ written[b][2] = 0
    BY <2>1 DEF Places, PlacesOf
  <2>3. ready[b] = 0
    BY <2>2 DEF Extent, ExtentOf, Prefix
  <2>4. UNCHANGED <<written, ready, stored>> /\ (ranged' = ranged \/ ranged' = ranged \cup {b})
    BY <1>2 DEF NewOnDisk
  <2>5. ASSUME NEW c \in Buffers, c # b PROVE ExtentOf(c)'
    <3>1. ExtentOf(c) /\ (c \in ranged' <=> c \in ranged)
      BY <2>4, <2>5 DEF Extent
    <3> QED
      BY <2>4, <3>1, ExtentFrame
  <2>6. ExtentOf(b)'
    <3>1. Prefix(b, written[b])' = 0
      BY <2>2, <2>4 DEF Prefix
    <3>2. \A w \in Writers : Start(w)..(Position(b, w)' - 1) \subseteq stored'[b]
      BY <2>2, <2>4 DEF Position, Start
    <3> QED
      BY <2>2, <2>3, <2>4, <3>1, <3>2 DEF ExtentOf
  <2> QED
    BY <2>5, <2>6 DEF Extent
<1>3. ASSUME NEW b \in Buffers, NEW w \in Writers, NEW n \in 1..SizeOf[b], WriteStart(b, w, n) PROVE Extent'
  BY <1>3, <1>0 DEF WriteStart
<1>4. ASSUME NEW b \in Buffers, NEW w \in Writers, WriteEnd(b, w) PROVE Extent'
  <2>1. PICK n \in Nat \ {0} : /\ Cardinality(chunk[b][w]) = n
                              /\ chunk[b][w] = Position(b, w)..(Position(b, w) + n - 1)
                              /\ Position(b, w) + n <= End(b, w)
                              /\ b \in ranged
    BY <1>4, ChunkShape DEF WriteEnd
  <2>2. stored' = [stored EXCEPT ![b] = @ \cup chunk[b][w]] /\ UNCHANGED ranged
    BY <1>4 DEF WriteEnd
  <2>3. \A c \in Buffers : stored[c] \subseteq stored'[c]
    BY <2>2 DEF TypeOK
  <2>4. CASE UNCHANGED <<written, ready, reader>>
    BY <2>2, <2>3, <2>4, ExtentFrame DEF Extent
  <2>5. CASE Advance(b, [written[b] EXCEPT ![w] = @ + n])
    <3> DEFINE done == [written[b] EXCEPT ![w] = @ + n]
    <3>1. done \in [Writers -> Nat]
      BY DEF TypeOK
    <3>2. /\ written' = [written EXCEPT ![b] = done]
          /\ \A c \in Buffers : c # b => ready'[c] = ready[c]
          /\ ready'[b] = IF Prefix(b, done) > ready[b] THEN Prefix(b, done) ELSE ready[b]
      BY <2>5, <3>1, AdvanceShape
    <3>3. written'[b] = done /\ \A c \in Buffers : c # b => written'[c] = written[c]
      BY <3>2 DEF TypeOK
    <3>4. ASSUME NEW c \in Buffers, c # b PROVE ExtentOf(c)'
      BY <2>2, <2>3, <3>2, <3>3, <3>4, ExtentFrame DEF Extent
    <3>5. ExtentOf(b)'
      <4>1. /\ written[b][1] \in Nat /\ written[b][2] \in Nat /\ Split \in Nat /\ SizeOf[b] \in Nat
            /\ written[b][1] <= Split /\ written[b][2] <= SizeOf[b] - Split
            /\ ready[b] = Prefix(b, written[b])
        BY <2>1 DEF TypeOK, Extent, ExtentOf
      <4>2. ASSUME NEW v \in Writers PROVE Start(v)..(Position(b, v)' - 1) \subseteq stored'[b]
        <5>1. stored'[b] = stored[b] \cup chunk[b][w] /\ Start(v)..(Position(b, v) - 1) \subseteq stored[b]
          BY <2>2 DEF TypeOK, Extent, ExtentOf
        <5>2. CASE v = w
          <6>0. written[b][v] \in Nat /\ written'[b][v] = written[b][v] + n /\ Start(v) \in Nat
            BY <3>3, <4>1, <5>2 DEF TypeOK, Start
          <6>1. Position(b, v)' = Position(b, v) + n /\ Position(b, v) \in Nat /\ Start(v) \in Nat
            BY <6>0 DEF Position
          <6> QED
            BY <2>1, <5>1, <5>2, <6>1
        <5>3. CASE v # w
          <6>1. Position(b, v)' = Position(b, v)
            BY <3>3, <5>3 DEF Position, TypeOK
          <6> QED
            BY <5>1, <6>1
        <5> QED
          BY <5>2, <5>3
      <4>3. CASE w = 1
        <5>1. done[1] = written[b][1] + n /\ done[2] = written[b][2] /\ done[1] <= Split
          BY <2>1, <4>1, <4>3 DEF Position, Start, End, TypeOK
        <5>2. ready[b] = written[b][1] /\ Prefix(b, done) > ready[b]
          BY <2>1, <4>1, <5>1 DEF Prefix
        <5>3. Prefix(b, written[b])' = Prefix(b, done)
          BY <2>2, <3>3 DEF Prefix
        <5> HIDE DEF done
        <5> QED
          BY <2>1, <2>2, <3>2, <3>3, <4>1, <4>2, <5>1, <5>2, <5>3 DEF ExtentOf
      <4>4. CASE w = 2
        <5>1. done[1] = written[b][1] /\ done[2] = written[b][2] + n /\ done[2] <= SizeOf[b] - Split
          BY <2>1, <4>1, <4>4 DEF Position, Start, End, TypeOK
        <5>2. Prefix(b, done) >= ready[b] /\ Prefix(b, done) \in Nat /\ ready[b] \in Nat
          BY <2>1, <4>1, <5>1 DEF Prefix
        <5>3. Prefix(b, written[b])' = Prefix(b, done)
          BY <2>2, <3>3 DEF Prefix
        <5> HIDE DEF done
        <5>4. ready'[b] = Prefix(b, done)
          BY <3>2, <5>2
        <5> QED
          BY <2>1, <2>2, <3>3, <4>1, <4>2, <5>1, <5>3, <5>4 DEF ExtentOf
      <4> QED
        BY <4>3, <4>4
    <3> QED
      BY <3>4, <3>5 DEF Extent
  <2> QED
    BY <1>4, <2>1, <2>4, <2>5 DEF WriteEnd
<1>5. ASSUME NEW b \in Buffers, NEW w \in Writers, WriteFails(b, w) PROVE Extent'
  BY <1>5, <1>0 DEF WriteFails
<1>6. ASSUME NEW b \in Buffers, NEW n \in 1..SizeOf[b], AppendBytes(b, n) PROVE Extent'
  <2> DEFINE done == [written[b] EXCEPT ![1] = written[b][1] + n]
  <2>1. /\ size[b] = Growing /\ n \in Nat /\ UNCHANGED ranged
        /\ \A c \in Buffers : c # b => stored'[c] = stored[c]
        /\ stored'[b] = stored[b] \cup (written[b][1]..((written[b][1] + n) - 1))
        /\ done \in [Writers -> Nat] /\ Advance(b, done)
    BY <1>6, AppendRest
  <2>2. b \notin ranged
    BY <2>1 DEF Places, PlacesOf
  <2>3. /\ written' = [written EXCEPT ![b] = done]
        /\ \A c \in Buffers : c # b => ready'[c] = ready[c]
        /\ ready'[b] = IF Prefix(b, done) > ready[b] THEN Prefix(b, done) ELSE ready[b]
    BY <2>1, AdvanceShape
  <2>4. written'[b] = done /\ \A c \in Buffers : c # b => written'[c] = written[c]
    BY <2>3 DEF TypeOK
  <2>5. ASSUME NEW c \in Buffers, c # b PROVE ExtentOf(c)'
    BY <2>1, <2>3, <2>4, <2>5, ExtentFrame DEF Extent
  <2>6. ExtentOf(b)'
    <3>1. /\ written[b][1] \in Nat /\ Split \in Nat /\ written[b][2] = 0
          /\ ready[b] = written[b][1] /\ 0..(written[b][1] - 1) \subseteq stored[b]
      BY <2>2 DEF TypeOK, Extent, ExtentOf, Prefix, Position, Start
    <3>2. done[1] = written[b][1] + n /\ done[2] = 0
      BY <3>1 DEF TypeOK
    <3>3. Prefix(b, done) = done[1] /\ Prefix(b, written[b])' = done[1]
      BY <2>1, <2>2, <2>4 DEF Prefix
    <3> HIDE DEF done
    <3>4. ready'[b] = done[1]
      BY <2>1, <2>3, <3>1, <3>2, <3>3
    <3>5. ASSUME NEW v \in Writers PROVE Start(v)..(Position(b, v)' - 1) \subseteq stored'[b]
      <4>1. CASE v = 1
        <5>1. Start(v) = 0 /\ Position(b, v)' = written[b][1] + n
          BY <2>1, <2>4, <3>1, <3>2, <4>1 DEF Start, Position
        <5> QED
          BY <2>1, <3>1, <5>1
      <4>2. CASE v = 2
        BY <2>4, <3>1, <3>2, <4>2 DEF Start, Position
      <4> QED
        BY <4>1, <4>2
    <3> QED
      BY <2>1, <2>2, <2>4, <3>2, <3>3, <3>4, <3>5 DEF ExtentOf
  <2> QED
    BY <2>5, <2>6 DEF Extent
<1>7. ASSUME NEW b \in Buffers, NEW n \in 1..SizeOf[b], SpillFails(b, n) PROVE Extent'
  BY <1>7, <1>0 DEF SpillFails, Notify
<1>8. ASSUME NEW b \in Buffers, Complete(b) PROVE Extent'
  BY <1>8, <1>0 DEF Complete, Notify, Fixed
<1>9. ASSUME NEW b \in Buffers, Fail(b) PROVE Extent'
  BY <1>9, <1>0 DEF Fail, Notify
<1>10. ASSUME NEW b \in Buffers, Close(b) PROVE Extent'
  BY <1>10, <1>0 DEF Close, Notify
<1>11. ASSUME NEW b \in Buffers, OpenReader(b) PROVE Extent'
  BY <1>11, <1>0 DEF OpenReader, Fixed
<1>12. ASSUME NEW b \in Buffers, ReadStart(b) PROVE Extent'
  BY <1>12, <1>0 DEF ReadStart
<1>13. ASSUME NEW b \in Buffers, ReadEnd(b) PROVE Extent'
  BY <1>13, <1>0 DEF ReadEnd, Unpin
<1>14. ASSUME NEW b \in Buffers, ReadStop(b) PROVE Extent'
  BY <1>14, <1>0 DEF ReadStop
<1>15. ASSUME NEW b \in Buffers, ReadSleep(b) PROVE Extent'
  BY <1>15, <1>0 DEF ReadSleep
<1>16. ASSUME NEW b \in Buffers, ReadCancelled(b) PROVE Extent'
  BY <1>16, <1>0 DEF ReadCancelled
<1>17. CASE UNCHANGED vars
  BY <1>0, <1>17 DEF vars
<1>18. ASSUME NEW b \in Buffers, NEW n \in 1..SizeOf[b], AppendFails(b, n) PROVE Extent'
  BY <1>0, <1>18 DEF AppendFails
<1> QED
  BY <1>1, <1>2, <1>3, <1>4, <1>5, <1>6, <1>7, <1>8, <1>9, <1>10, <1>11, <1>12, <1>13, <1>14, <1>15, <1>16, <1>17, <1>18 DEF Next, Write, Read

\* The sizes, the places and the ends of readers stay what they are.
LEMMA PlacesStep == TypeOK /\ Places /\ Chunks /\ Extent /\ [Next]_vars => Places'
<1> SUFFICES ASSUME TypeOK, Places, Chunks, Extent, [Next]_vars PROVE Places'
  OBVIOUS
<1> USE SpoolAssumption, ConstantFacts DEF ramVars, placeVars, stateVars, writeVars, cursorVars
<1>1. ASSUME NEW b \in Buffers, NewInMemory(b) PROVE Places'
  BY <1>1 DEF NewInMemory, Fits, Places, PlacesOf, Opened, TypeOK
<1>2. ASSUME NEW b \in Buffers, NewOnDisk(b) PROVE Places'
  BY <1>2 DEF NewOnDisk, Fits, Places, PlacesOf, Opened, TypeOK
<1>3. ASSUME NEW b \in Buffers, NEW w \in Writers, NEW n \in 1..SizeOf[b], WriteStart(b, w, n) PROVE Places'
  BY <1>3 DEF WriteStart, Places, PlacesOf, Opened, TypeOK
<1>4. ASSUME NEW b \in Buffers, NEW w \in Writers, WriteEnd(b, w) PROVE Places'
  <2>1. b \in ranged /\ Opened(b) /\ PlacesOf(b)
    BY <1>4, ChunkShape DEF WriteEnd, Places, PlacesOf
  <2>2. Extent' /\ TypeOK'
    BY <1>4, ExtentStep, TypeStep
  <2>3. UNCHANGED <<placeVars, cursorVars, life, size, failed, complete>>
    BY <1>4 DEF WriteEnd
  <2>4. /\ \A c \in Buffers : reader'[c] = reader[c] \/ (reader[c] = "asleep" /\ reader'[c] = "awake")
        /\ \A c \in Buffers : c # b => ready'[c] = ready[c] /\ written'[c] = written[c]
        /\ ready'[b] >= ready[b]
    <3>1. CASE UNCHANGED <<written, ready, reader>>
      BY <3>1 DEF TypeOK
    <3>2. CASE b \notin failed
      <4>1. PICK done \in [Writers -> Nat] : Advance(b, done)
        <5>1. PICK n \in Nat : Cardinality(chunk[b][w]) = n
          BY <1>4, ChunkShape DEF WriteEnd
        <5>2. [written[b] EXCEPT ![w] = @ + n] \in [Writers -> Nat]
          BY DEF TypeOK
        <5> QED
          BY <1>4, <3>2, <5>1, <5>2 DEF WriteEnd
      <4>2. Prefix(b, done) \in Nat /\ ready[b] \in Nat
        BY DEF Prefix, TypeOK
      <4>3. /\ written' = [written EXCEPT ![b] = done]
            /\ \A c \in Buffers : c # b => ready'[c] = ready[c]
            /\ ready'[b] = IF Prefix(b, done) > ready[b] THEN Prefix(b, done) ELSE ready[b]
            /\ \A c \in Buffers : reader'[c] = reader[c] \/ (reader[c] = "asleep" /\ reader'[c] = "awake")
        BY <4>1, AdvanceShape
      <4> QED
        BY <4>2, <4>3 DEF TypeOK
    <3> QED
      BY <1>4, <3>1, <3>2 DEF WriteEnd
  <2>5. \A c \in Buffers : c # b => reserved'[c] = reserved[c] /\ pinned'[c] = pinned[c]
    BY <1>4 DEF WriteEnd, Unpin, TypeOK
  <2>6. ASSUME NEW c \in Buffers, c # b PROVE PlacesOf(c)'
    BY <2>3, <2>4, <2>5, <2>6 DEF Places, PlacesOf, Opened
  <2>7. PlacesOf(b)'
    <3>1. b \in complete => ready'[b] = ready[b]
      <4>1. ready'[b] <= SizeOf[b]
        <5>1. TypeOK' /\ ExtentOf(b)' /\ b \in ranged'
          BY <2>1, <2>2, <2>3 DEF Extent
        <5> QED
          BY <5>1 DEF TypeOK, ExtentOf, Prefix
      <4>2. b \in complete => ready[b] = SizeOf[b]
        BY <2>1 DEF PlacesOf
      <4>3. ready[b] \in Nat /\ ready'[b] \in Nat
        BY <2>2 DEF TypeOK
      <4> QED
        BY <2>4, <4>1, <4>2, <4>3
    <3>2. ready[b] \in Nat /\ ready'[b] \in Nat /\ offset[b] \in Nat /\ span[b] \in Nat
      BY <2>2 DEF TypeOK
    <3> QED
      BY <2>1, <2>3, <2>4, <3>1, <3>2 DEF PlacesOf, Opened
  <2> QED
    BY <2>6, <2>7 DEF Places
<1>5. ASSUME NEW b \in Buffers, NEW w \in Writers, WriteFails(b, w) PROVE Places'
  BY <1>5 DEF WriteFails, Places, PlacesOf, Opened, TypeOK
<1>6. ASSUME NEW b \in Buffers, NEW n \in 1..SizeOf[b], AppendBytes(b, n) PROVE Places'
  <2>1. /\ size[b] = Growing /\ life[b] = "open"
        /\ UNCHANGED <<cursorVars, ranged, life, size, pinned, chunk, failed, complete>>
    BY <1>6, AppendRest
  <2>2. PICK done \in [Writers -> Nat] : Advance(b, done)
    BY <1>6, AppendRest
  <2>3. Prefix(b, done) \in Nat /\ ready[b] \in Nat
    BY DEF Prefix, TypeOK
  <2>4. /\ written' = [written EXCEPT ![b] = done]
        /\ \A c \in Buffers : c # b => ready'[c] = ready[c]
        /\ ready'[b] = IF Prefix(b, done) > ready[b] THEN Prefix(b, done) ELSE ready[b]
        /\ \A c \in Buffers : reader'[c] = reader[c] \/ (reader[c] = "asleep" /\ reader'[c] = "awake")
    BY <2>2, AdvanceShape
  <2>5. PICK k \in Nat : /\ reserved' = [reserved EXCEPT ![b] = k]
                         /\ onDisk' = onDisk \/ onDisk' = onDisk \cup {b}
    BY <1>6, AppendShape
  <2>6. ASSUME NEW c \in Buffers, c # b PROVE PlacesOf(c)'
    <3>1. written'[c] = written[c] /\ reserved'[c] = reserved[c] /\ (c \in onDisk' <=> c \in onDisk)
      BY <2>4, <2>5, <2>6 DEF TypeOK
    <3> QED
      BY <2>1, <2>4, <2>6, <3>1 DEF Places, PlacesOf, Opened
  <2>7. PlacesOf(b)'
    <3>1. b \notin ranged /\ b \notin complete /\ b \notin direct /\ PlacesOf(b)
      BY <2>1 DEF Places, PlacesOf, TypeOK
    <3>2. ready'[b] \in Nat /\ ready'[b] >= ready[b] /\ offset[b] \in Nat /\ span[b] \in Nat
      BY <2>3, <2>4 DEF TypeOK
    <3> QED
      BY <2>1, <2>3, <2>4, <3>1, <3>2 DEF PlacesOf, Opened
  <2> QED
    BY <2>6, <2>7 DEF Places
<1>7. ASSUME NEW b \in Buffers, NEW n \in 1..SizeOf[b], SpillFails(b, n) PROVE Places'
  BY <1>7 DEF SpillFails, Notify, Places, PlacesOf, Opened, TypeOK
<1>8. ASSUME NEW b \in Buffers, Complete(b) PROVE Places'
  BY <1>8 DEF Complete, Notify, Fixed, Places, PlacesOf, Opened, TypeOK
<1>9. ASSUME NEW b \in Buffers, Fail(b) PROVE Places'
  BY <1>9 DEF Fail, Notify, Places, PlacesOf, Opened, TypeOK
<1>10. ASSUME NEW b \in Buffers, Close(b) PROVE Places'
  BY <1>10 DEF Close, Notify, Places, PlacesOf, Opened, TypeOK
<1>11. ASSUME NEW b \in Buffers, OpenReader(b) PROVE Places'
  BY <1>11 DEF OpenReader, Fixed, Places, PlacesOf, Opened, TypeOK
<1>12. ASSUME NEW b \in Buffers, ReadStart(b) PROVE Places'
  BY <1>12 DEF ReadStart, Places, PlacesOf, Opened, TypeOK
<1>13. ASSUME NEW b \in Buffers, ReadEnd(b) PROVE Places'
  BY <1>13 DEF ReadEnd, Unpin, Places, PlacesOf, Opened, TypeOK
<1>14. ASSUME NEW b \in Buffers, ReadStop(b) PROVE Places'
  <2>1. /\ reader[b] = "awake" /\ reader' = [reader EXCEPT ![b] = "done"]
        /\ UNCHANGED <<ramVars, placeVars, stateVars, writeVars, direct, offset, span>>
        /\ whole' = whole \/ (whole' = whole \cup {b} /\ offset[b] >= ready[b] /\ b \in complete)
    BY <1>14 DEF ReadStop
  <2>2. ASSUME NEW c \in Buffers, c # b PROVE PlacesOf(c)'
    BY <2>1, <2>2 DEF Places, PlacesOf, Opened, TypeOK
  <2>3. PlacesOf(b)'
    <3>1. PlacesOf(b) /\ ready[b] \in Nat /\ offset[b] \in Nat /\ reader'[b] = "done"
      BY <2>1 DEF Places, TypeOK
    <3> QED
      BY <2>1, <3>1 DEF PlacesOf, Opened
  <2> QED
    BY <2>2, <2>3 DEF Places
<1>15. ASSUME NEW b \in Buffers, ReadSleep(b) PROVE Places'
  BY <1>15 DEF ReadSleep, Places, PlacesOf, Opened, TypeOK
<1>16. ASSUME NEW b \in Buffers, ReadCancelled(b) PROVE Places'
  BY <1>16 DEF ReadCancelled, Places, PlacesOf, Opened, TypeOK
<1>17. CASE UNCHANGED vars
  BY <1>17 DEF vars, Places, PlacesOf, Opened, TypeOK
<1>18. ASSUME NEW b \in Buffers, NEW n \in 1..SizeOf[b], AppendFails(b, n) PROVE Places'
  <2>1. /\ size[b] = Growing /\ life[b] = "open"
        /\ UNCHANGED <<cursorVars, ranged, life, size, pinned, written, chunk, failed, complete,
                       ready, reader>>
        /\ reserved' = [reserved EXCEPT ![b] = 0] /\ onDisk' = onDisk \cup {b}
    BY <1>18 DEF AppendFails, Fixed, writeVars
  <2>2. ASSUME NEW c \in Buffers PROVE PlacesOf(c)'
    <3>1. CASE c # b
      <4>1. reserved'[c] = reserved[c] /\ (c \in onDisk' <=> c \in onDisk)
        BY <2>1, <3>1 DEF TypeOK
      <4> QED
        BY <2>1, <4>1 DEF Places, PlacesOf, Opened
    <3>2. CASE c = b
      BY <2>1, <3>2 DEF Places, PlacesOf, Opened
    <3> QED
      BY <3>1, <3>2
  <2> QED
    BY <2>2 DEF Places
<1> QED
  BY <1>1, <1>2, <1>3, <1>4, <1>5, <1>6, <1>7, <1>8, <1>9, <1>10, <1>11, <1>12, <1>13, <1>14, <1>15, <1>16, <1>17, <1>18 DEF Next, Write, Read

-----------------------------------------------------------------------------
(* Pins *)

\* Whoever touches RAM has pinned it, and the last one frees it.
LEMMA MemoryStep == TypeOK /\ Places /\ Chunks /\ Memory /\ [Next]_vars => Memory'
<1> SUFFICES ASSUME TypeOK, Places, Chunks, Memory, [Next]_vars PROVE Memory'
  OBVIOUS
<1> USE SpoolAssumption, ConstantFacts DEF ramVars, placeVars, stateVars, writeVars, cursorVars
<1>1. ASSUME NEW b \in Buffers, NewInMemory(b) PROVE Memory'
  <2>1. ~Opened(b) /\ PlacesOf(b)
    BY <1>1 DEF NewInMemory, Opened, Places
  <2>2. /\ b \notin ranged \cup onDisk /\ reserved[b] = 0 /\ pinned[b] = 0
        /\ written[b][1] = 0 /\ reader[b] = "idle"
    BY <2>1 DEF PlacesOf
  <2>3. chunk[b][1] = {} /\ chunk[b][2] = {}
    BY <2>2 DEF Chunks
  <2>4. UNCHANGED <<writeVars, pinned, reader>>
    BY <1>1 DEF NewInMemory
  <2>5. ASSUME NEW c \in Buffers, c # b PROVE MemoryOf(c)'
    <3>1. /\ reserved'[c] = reserved[c] /\ life'[c] = life[c]
          /\ (c \in ranged' <=> c \in ranged) /\ (c \in onDisk' <=> c \in onDisk)
      BY <1>1, <2>5 DEF NewInMemory, TypeOK
    <3>2. Copies(c, 1)' = Copies(c, 1) /\ Copies(c, 2)' = Copies(c, 2) /\ Passes(c)' = Passes(c)
      BY <2>4, <3>1 DEF Copies, Passes
    <3> HIDE DEF Copies, Passes
    <3> QED
      BY <2>4, <3>1, <3>2 DEF Memory, MemoryOf
  <2>6. MemoryOf(b)'
    BY <1>1, <2>2, <2>3, <2>4 DEF NewInMemory, MemoryOf, Copies, Passes, TypeOK
  <2> QED
    BY <2>5, <2>6 DEF Memory
<1>2. ASSUME NEW b \in Buffers, NewOnDisk(b) PROVE Memory'
  <2>1. ~Opened(b) /\ PlacesOf(b)
    BY <1>2 DEF NewOnDisk, Opened, Places
  <2>2. /\ b \notin ranged \cup onDisk /\ reserved[b] = 0 /\ pinned[b] = 0
        /\ written[b][1] = 0 /\ reader[b] = "idle"
    BY <2>1 DEF PlacesOf
  <2>3. chunk[b][1] = {} /\ chunk[b][2] = {}
    BY <2>2 DEF Chunks
  <2>4. UNCHANGED <<writeVars, pinned, reader>>
    BY <1>2 DEF NewOnDisk
  <2>5. ASSUME NEW c \in Buffers, c # b PROVE MemoryOf(c)'
    BY <1>2, <2>4, <2>5 DEF NewOnDisk, Memory, MemoryOf, Copies, Passes, TypeOK
  <2>6. MemoryOf(b)'
    BY <1>2, <2>2, <2>3, <2>4 DEF NewOnDisk, MemoryOf, Copies, Passes, TypeOK
  <2> QED
    BY <2>5, <2>6 DEF Memory
<1>3. ASSUME NEW b \in Buffers, NEW w \in Writers, NEW n \in 1..SizeOf[b], WriteStart(b, w, n) PROVE Memory'
  <2>1. /\ life[b] = "open" /\ b \in ranged /\ chunk[b][w] = {}
        /\ chunk' = [chunk EXCEPT ![b][w] = Position(b, w)..(Position(b, w) + n - 1)]
        /\ pinned' = IF b \in onDisk THEN pinned ELSE [pinned EXCEPT ![b] = @ + 1]
        /\ UNCHANGED <<placeVars, stateVars, cursorVars, used, reserved, written, stored, reader>>
    BY <1>3 DEF WriteStart
  <2>2. ASSUME NEW c \in Buffers, c # b PROVE MemoryOf(c)'
    BY <2>1, <2>2 DEF Memory, MemoryOf, Copies, Passes, TypeOK
  <2>3. Position(b, w) \in Nat /\ n \in Nat /\ n >= 1
    BY DEF Position, Start, TypeOK
  <2>4. Position(b, w) \in Position(b, w)..(Position(b, w) + n - 1)
    BY <2>3
  <2>5. chunk'[b][w] # {} /\ \A v \in Writers : v # w => chunk'[b][v] = chunk[b][v]
    BY <2>1, <2>4 DEF TypeOK
  <2>6. MemoryOf(b)'
    <3>1. MemoryOf(b) /\ pinned[b] \in Int /\ reserved[b] \in Nat
      BY DEF Memory, TypeOK
    <3>2. b \notin onDisk => pinned'[b] = pinned[b] + 1
      BY <2>1 DEF TypeOK
    <3>3. CASE w = 1
      <4>1. /\ Copies(b, 1) = 0 /\ Copies(b, 1)' = (IF b \notin onDisk THEN 1 ELSE 0)
            /\ Copies(b, 2)' = Copies(b, 2) /\ Copies(b, 2) \in {0, 1}
            /\ Passes(b)' = Passes(b) /\ Passes(b) \in {0, 1}
        BY <2>1, <2>5, <3>3 DEF Copies, Passes
      <4> HIDE DEF Copies, Passes
      <4> QED
        BY <2>1, <3>1, <3>2, <4>1 DEF MemoryOf
    <3>4. CASE w = 2
      <4>1. /\ Copies(b, 2) = 0 /\ Copies(b, 2)' = (IF b \notin onDisk THEN 1 ELSE 0)
            /\ Copies(b, 1)' = Copies(b, 1) /\ Copies(b, 1) \in {0, 1}
            /\ Passes(b)' = Passes(b) /\ Passes(b) \in {0, 1}
        BY <2>1, <2>5, <3>4 DEF Copies, Passes
      <4> HIDE DEF Copies, Passes
      <4> QED
        BY <2>1, <3>1, <3>2, <4>1 DEF MemoryOf
    <3> QED
      BY <3>3, <3>4
  <2> QED
    BY <2>2, <2>6 DEF Memory
<1>4. ASSUME NEW b \in Buffers, NEW w \in Writers, WriteEnd(b, w) PROVE Memory'
  <2>1. /\ chunk[b][w] # {} /\ chunk' = [chunk EXCEPT ![b][w] = {}]
        /\ UNCHANGED <<placeVars, cursorVars, life, size, failed, complete>>
    BY <1>4 DEF WriteEnd
  <2>2. b \in ranged
    BY <2>1 DEF Chunks
  <2>3. PICK n \in Nat : Cardinality(chunk[b][w]) = n
    BY <2>1, ChunkShape
  <2>4. /\ \A c \in Buffers : reader'[c] = reader[c] \/ (reader[c] = "asleep" /\ reader'[c] = "awake")
        /\ \A c \in Buffers : c # b => written'[c] = written[c]
    <3>1. CASE UNCHANGED <<written, ready, reader>>
      BY <3>1
    <3>2. CASE Advance(b, [written[b] EXCEPT ![w] = @ + n])
      <4>1. [written[b] EXCEPT ![w] = @ + n] \in [Writers -> Nat]
        BY DEF TypeOK
      <4>2. /\ written' = [written EXCEPT ![b] = [written[b] EXCEPT ![w] = @ + n]]
            /\ \A c \in Buffers : reader'[c] = reader[c] \/ (reader[c] = "asleep" /\ reader'[c] = "awake")
        BY <3>2, <4>1, AdvanceShape
      <4> QED
        BY <4>2 DEF TypeOK
    <3> QED
      BY <1>4, <2>3, <3>1, <3>2 DEF WriteEnd
  <2>5. \A c \in Buffers : Passes(c)' = Passes(c)
    BY <2>4 DEF Passes
  <2>6. ASSUME NEW c \in Buffers, c # b PROVE MemoryOf(c)'
    <3>1. /\ reserved'[c] = reserved[c] /\ pinned'[c] = pinned[c] /\ chunk'[c] = chunk[c]
          /\ written'[c] = written[c] /\ Passes(c)' = Passes(c)
      BY <1>4, <2>1, <2>4, <2>5, <2>6 DEF WriteEnd, Unpin, TypeOK
    <3>2. \A v \in Writers : Copies(c, v)' = Copies(c, v)
      BY <2>1, <3>1 DEF Copies
    <3> HIDE DEF Passes, Copies
    <3> QED
      BY <2>1, <3>1, <3>2 DEF Memory, MemoryOf
  <2>7. MemoryOf(b)'
    <3>1. MemoryOf(b) /\ pinned[b] \in Int /\ reserved[b] \in Nat
      BY DEF Memory, TypeOK
    <3>2. chunk'[b][w] = {} /\ \A v \in Writers : v # w => chunk'[b][v] = chunk[b][v]
      BY <2>1 DEF TypeOK
    <3>3. b \in onDisk => pinned'[b] = pinned[b] /\ reserved'[b] = reserved[b]
      BY <1>4 DEF WriteEnd
    <3>4. b \notin onDisk =>
            /\ pinned'[b] = pinned[b] - 1
            /\ reserved'[b] = IF life[b] = "closed" /\ pinned[b] = 1 THEN 0 ELSE reserved[b]
      BY <1>4 DEF WriteEnd, Unpin, TypeOK
    <3>5. CASE w = 1
      <4>1. /\ Copies(b, 1) = (IF b \notin onDisk THEN 1 ELSE 0) /\ Copies(b, 1)' = 0
            /\ Copies(b, 2)' = Copies(b, 2) /\ Copies(b, 2) \in {0, 1} /\ Passes(b) \in {0, 1}
        BY <2>1, <3>2, <3>5 DEF Copies, Passes
      <4> HIDE DEF Copies, Passes
      <4> QED
        BY <2>1, <2>2, <2>5, <3>1, <3>3, <3>4, <4>1 DEF MemoryOf
    <3>6. CASE w = 2
      <4>1. /\ Copies(b, 2) = (IF b \notin onDisk THEN 1 ELSE 0) /\ Copies(b, 2)' = 0
            /\ Copies(b, 1)' = Copies(b, 1) /\ Copies(b, 1) \in {0, 1} /\ Passes(b) \in {0, 1}
        BY <2>1, <3>2, <3>6 DEF Copies, Passes
      <4> HIDE DEF Copies, Passes
      <4> QED
        BY <2>1, <2>2, <2>5, <3>1, <3>3, <3>4, <4>1 DEF MemoryOf
    <3> QED
      BY <3>5, <3>6
  <2> QED
    BY <2>6, <2>7 DEF Memory
<1>5. ASSUME NEW b \in Buffers, NEW w \in Writers, WriteFails(b, w) PROVE Memory'
  BY <1>5 DEF WriteFails, Memory, MemoryOf, Copies, Passes, TypeOK
<1>6. ASSUME NEW b \in Buffers, NEW n \in 1..SizeOf[b], AppendBytes(b, n) PROVE Memory'
  <2> DEFINE done == [written[b] EXCEPT ![1] = written[b][1] + n]
  <2>1. /\ size[b] = Growing /\ life[b] = "open" /\ n \in Nat
        /\ UNCHANGED <<cursorVars, ranged, life, size, pinned, chunk, failed, complete>>
        /\ done \in [Writers -> Nat] /\ Advance(b, done)
    BY <1>6, AppendRest
  <2>2. b \notin ranged /\ b \notin direct
    BY <2>1 DEF Places, PlacesOf
  <2>3. chunk[b][1] = {} /\ chunk[b][2] = {} /\ reader[b] # "writing"
    BY <2>2 DEF Chunks, Places, PlacesOf
  <2>4. /\ written' = [written EXCEPT ![b] = done]
        /\ \A c \in Buffers : reader'[c] = reader[c] \/ (reader[c] = "asleep" /\ reader'[c] = "awake")
    BY <2>1, AdvanceShape
  <2>5. PICK k \in Nat : /\ reserved' = [reserved EXCEPT ![b] = k]
                         /\ \/ onDisk' = onDisk \cup {b} /\ k = 0
                            \/ onDisk' = onDisk /\ b \in onDisk /\ k = reserved[b]
                            \/ onDisk' = onDisk /\ b \notin onDisk /\ k >= written[b][1] + n
    BY <1>6, AppendShape
  <2>6. ASSUME NEW c \in Buffers, c # b PROVE MemoryOf(c)'
    <3>1. written'[c] = written[c] /\ reserved'[c] = reserved[c] /\ (c \in onDisk' <=> c \in onDisk)
      BY <2>4, <2>5, <2>6 DEF TypeOK
    <3>2. Copies(c, 1)' = Copies(c, 1) /\ Copies(c, 2)' = Copies(c, 2) /\ Passes(c)' = Passes(c)
      BY <2>1, <2>4, <3>1 DEF Copies, Passes
    <3> QED
      BY <2>1, <3>1, <3>2 DEF Memory, MemoryOf
  <2>7. MemoryOf(b)'
    <3>1. MemoryOf(b) /\ reserved[b] \in Nat /\ written[b][1] \in Nat
      BY DEF Memory, TypeOK
    <3>2. Copies(b, 1)' = 0 /\ Copies(b, 2)' = 0 /\ Passes(b)' = 0
      BY <2>1, <2>3, <2>4 DEF Copies, Passes
    <3>3. pinned'[b] = 0
      BY <2>1, <2>3, <3>1 DEF MemoryOf, Copies, Passes
    <3>4. reserved'[b] = k /\ written'[b][1] = written[b][1] + n
      BY <2>4, <2>5 DEF TypeOK
    <3> QED
      BY <2>1, <2>2, <2>5, <3>1, <3>2, <3>3, <3>4 DEF MemoryOf
  <2> QED
    BY <2>6, <2>7 DEF Memory
<1>7. ASSUME NEW b \in Buffers, NEW n \in 1..SizeOf[b], SpillFails(b, n) PROVE Memory'
  BY <1>7 DEF SpillFails, Notify, Memory, MemoryOf, Copies, Passes, TypeOK
<1>8. ASSUME NEW b \in Buffers, Complete(b) PROVE Memory'
  BY <1>8 DEF Complete, Notify, Fixed, Memory, MemoryOf, Copies, Passes, TypeOK
<1>9. ASSUME NEW b \in Buffers, Fail(b) PROVE Memory'
  BY <1>9 DEF Fail, Notify, Memory, MemoryOf, Copies, Passes, TypeOK
<1>10. ASSUME NEW b \in Buffers, Close(b) PROVE Memory'
  BY <1>10 DEF Close, Notify, Memory, MemoryOf, Copies, Passes, TypeOK
<1>11. ASSUME NEW b \in Buffers, OpenReader(b) PROVE Memory'
  BY <1>11 DEF OpenReader, Fixed, Memory, MemoryOf, Copies, Passes, TypeOK
<1>12. ASSUME NEW b \in Buffers, ReadStart(b) PROVE Memory'
  <2>1. /\ reader[b] = "awake" /\ life[b] = "open"
        /\ pinned' = IF b \in direct THEN [pinned EXCEPT ![b] = @ + 1] ELSE pinned
        /\ reader' = [reader EXCEPT ![b] = IF b \in direct THEN "writing" ELSE "copying"]
        /\ UNCHANGED <<placeVars, stateVars, writeVars, used, reserved, direct, offset, whole>>
    BY <1>12 DEF ReadStart
  <2>2. ASSUME NEW c \in Buffers, c # b PROVE MemoryOf(c)'
    BY <2>1, <2>2 DEF Memory, MemoryOf, Copies, Passes, TypeOK
  <2>3. MemoryOf(b)'
    <3>1. /\ Copies(b, 1)' = Copies(b, 1) /\ Copies(b, 2)' = Copies(b, 2) /\ Passes(b) = 0
          /\ Passes(b)' = (IF b \in direct THEN 1 ELSE 0)
          /\ pinned'[b] = (IF b \in direct THEN pinned[b] + 1 ELSE pinned[b])
          /\ Copies(b, 1) \in {0, 1} /\ Copies(b, 2) \in {0, 1}
      BY <2>1 DEF Copies, Passes, TypeOK
    <3>2. MemoryOf(b) /\ reserved[b] \in Nat /\ (b \in direct => b \notin onDisk)
      BY DEF Memory, TypeOK, Places, PlacesOf
    <3> HIDE DEF Copies, Passes
    <3> QED
      BY <2>1, <3>1, <3>2 DEF MemoryOf
  <2> QED
    BY <2>2, <2>3 DEF Memory
<1>13. ASSUME NEW b \in Buffers, ReadEnd(b) PROVE Memory'
  <2>1. /\ \A c \in Buffers : c # b => /\ reserved'[c] = reserved[c] /\ pinned'[c] = pinned[c]
                                      /\ reader'[c] = reader[c]
        /\ reader'[b] # "writing" /\ reader[b] \in {"writing", "copying"}
        /\ UNCHANGED <<placeVars, stateVars, writeVars, span, whole, direct>>
    BY <1>13 DEF ReadEnd, Unpin, TypeOK
  <2>2. ASSUME NEW c \in Buffers, c # b PROVE MemoryOf(c)'
    BY <2>1, <2>2 DEF Memory, MemoryOf, Copies, Passes
  <2>3. MemoryOf(b)'
    <3>1. /\ Copies(b, 1)' = Copies(b, 1) /\ Copies(b, 2)' = Copies(b, 2) /\ Passes(b)' = 0
          /\ Copies(b, 1) \in {0, 1} /\ Copies(b, 2) \in {0, 1}
      BY <2>1 DEF Copies, Passes
    <3>2. MemoryOf(b) /\ reserved[b] \in Nat
      BY DEF Memory, TypeOK
    <3>3. CASE reader[b] = "writing"
      <4>1. /\ Passes(b) = 1 /\ b \notin onDisk
            /\ pinned'[b] = pinned[b] - 1
            /\ reserved'[b] = IF life[b] = "closed" /\ pinned[b] = 1 THEN 0 ELSE reserved[b]
        BY <1>13, <3>3 DEF ReadEnd, Unpin, TypeOK, Passes, Places, PlacesOf
      <4> HIDE DEF Copies, Passes
      <4> QED
        BY <2>1, <3>1, <3>2, <4>1 DEF MemoryOf
    <3>4. CASE reader[b] # "writing"
      <4>1. Passes(b) = 0 /\ pinned'[b] = pinned[b] /\ reserved'[b] = reserved[b]
        BY <1>13, <3>4 DEF ReadEnd, Passes
      <4> HIDE DEF Copies, Passes
      <4> QED
        BY <2>1, <3>1, <3>2, <4>1 DEF MemoryOf
    <3> QED
      BY <3>3, <3>4
  <2> QED
    BY <2>2, <2>3 DEF Memory
<1>14. ASSUME NEW b \in Buffers, ReadStop(b) PROVE Memory'
  BY <1>14 DEF ReadStop, Memory, MemoryOf, Copies, Passes, TypeOK
<1>15. ASSUME NEW b \in Buffers, ReadSleep(b) PROVE Memory'
  BY <1>15 DEF ReadSleep, Memory, MemoryOf, Copies, Passes, TypeOK
<1>16. ASSUME NEW b \in Buffers, ReadCancelled(b) PROVE Memory'
  BY <1>16 DEF ReadCancelled, Memory, MemoryOf, Copies, Passes, TypeOK
<1>17. CASE UNCHANGED vars
  BY <1>17 DEF vars, Memory, MemoryOf, Copies, Passes, TypeOK
<1>18. ASSUME NEW b \in Buffers, NEW n \in 1..SizeOf[b], AppendFails(b, n) PROVE Memory'
  <2>1. /\ size[b] = Growing /\ life[b] = "open"
        /\ UNCHANGED <<cursorVars, ranged, life, size, pinned, written, chunk, failed, complete,
                       reader>>
        /\ reserved' = [reserved EXCEPT ![b] = 0] /\ onDisk' = onDisk \cup {b}
    BY <1>18 DEF AppendFails, Fixed, writeVars
  <2>2. b \notin ranged /\ b \notin direct
    BY <2>1 DEF Places, PlacesOf
  <2>3. chunk[b][1] = {} /\ chunk[b][2] = {} /\ reader[b] # "writing"
    BY <2>2 DEF Chunks, Places, PlacesOf
  <2>4. ASSUME NEW c \in Buffers, c # b PROVE MemoryOf(c)'
    <3>1. reserved'[c] = reserved[c] /\ (c \in onDisk' <=> c \in onDisk)
      BY <2>1, <2>4 DEF TypeOK
    <3>2. Copies(c, 1)' = Copies(c, 1) /\ Copies(c, 2)' = Copies(c, 2) /\ Passes(c)' = Passes(c)
      BY <2>1, <3>1 DEF Copies, Passes
    <3> QED
      BY <2>1, <3>1, <3>2 DEF Memory, MemoryOf
  <2>5. MemoryOf(b)'
    <3>1. MemoryOf(b)
      BY DEF Memory
    <3>2. Copies(b, 1)' = 0 /\ Copies(b, 2)' = 0 /\ Passes(b)' = 0
      BY <2>1, <2>3 DEF Copies, Passes
    <3>3. pinned'[b] = 0
      BY <2>1, <2>3, <3>1 DEF MemoryOf, Copies, Passes
    <3>4. reserved'[b] = 0 /\ b \in onDisk'
      BY <2>1 DEF TypeOK
    <3> QED
      BY <2>1, <2>2, <3>1, <3>2, <3>3, <3>4 DEF MemoryOf
  <2> QED
    BY <2>4, <2>5 DEF Memory
<1> QED
  BY <1>1, <1>2, <1>3, <1>4, <1>5, <1>6, <1>7, <1>8, <1>9, <1>10, <1>11, <1>12, <1>13, <1>14, <1>15, <1>16, <1>17, <1>18 DEF Next, Write, Read

-----------------------------------------------------------------------------
(* The invariant and what follows from it *)

\* The types, and everything above.
IInv == TypeOK /\ Places /\ Chunks /\ Extent /\ Memory /\ Account

\* No RAM is taken at the start.
LEMMA AccountInit == Init => Account
<1> SUFFICES ASSUME Init PROVE Account
  OBVIOUS
<1>1. \A b \in Buffers : reserved[b] = 0
  BY DEF Init
<1>2. ReservedBytes = {}
  <2>1. \A b \in Buffers : 1..reserved[b] = {}
    BY <1>1
  <2> QED
    BY <2>1 DEF ReservedBytes
<1>3. IsFiniteSet(ReservedBytes) /\ Cardinality(ReservedBytes) = 0
  BY <1>2, FS_EmptySet
<1> QED
  BY <1>3, SpoolAssumption DEF Init, Account

\* The invariant holds at all times.
THEOREM Invariance == Spec => []IInv
<1>1. Init => IInv
  BY SpoolInit, AccountInit DEF IInv
<1>2. IInv /\ [Next]_vars => IInv'
  <2> SUFFICES ASSUME IInv, [Next]_vars PROVE IInv'
    OBVIOUS
  <2>1. TypeOK /\ Places /\ Chunks /\ Extent /\ Memory /\ Account
    BY DEF IInv
  <2>2. TypeOK' /\ Account' /\ Chunks' /\ Extent' /\ Places' /\ Memory'
    BY <2>1, TypeStep, AccountStep, ChunksStep, ExtentStep, PlacesStep, MemoryStep
  <2> QED
    BY <2>2 DEF IInv
<1> QED
  BY <1>1, <1>2, PTL DEF Spec

\* Every variable keeps its type: sizes and counts never become negative.
THEOREM SpoolTyped == Spec => []TypeOK
<1>1. IInv => TypeOK
  BY DEF IInv
<1> QED
  BY <1>1, Invariance, PTL

\* Store.used is what the buffers hold and stays within the budget, and RAM
\* that is no longer used is given back.
THEOREM BudgetIsKept == Spec => []BudgetHolds
<1>1. IInv => BudgetHolds
  BY DEF IInv, Account, Memory, MemoryOf, BudgetHolds
<1> QED
  BY <1>1, Invariance, PTL

\* The pins of the writers, counted one by one.
LEMMA PinsSum == ASSUME NEW b \in Buffers PROVE Pins(b) = Copies(b, 1) + Copies(b, 2) + Passes(b)
<1> DEFINE W == {w \in Writers : chunk[b][w] # {} /\ b \notin onDisk}
<1>1. /\ Cardinality({}) = 0 /\ \A w \in {1, 2} : Cardinality({w}) = 1
      /\ IsFiniteSet({1})
  BY FS_EmptySet, FS_Singleton
<1>2. Cardinality({1} \cup {2}) = 2
  BY <1>1, FS_AddElement
<1>3. CASE Copies(b, 1) = 0 /\ Copies(b, 2) = 0
  <2>1. W = {}
    BY <1>3 DEF Copies, Writers
  <2> QED
    BY <1>1, <1>3, <2>1 DEF Pins, Passes
<1>4. CASE Copies(b, 1) = 1 /\ Copies(b, 2) = 0
  <2>1. W = {1}
    BY <1>4 DEF Copies, Writers
  <2> QED
    BY <1>1, <1>4, <2>1 DEF Pins, Passes
<1>5. CASE Copies(b, 1) = 0 /\ Copies(b, 2) = 1
  <2>1. W = {2}
    BY <1>5 DEF Copies, Writers
  <2> QED
    BY <1>1, <1>5, <2>1 DEF Pins, Passes
<1>6. CASE Copies(b, 1) = 1 /\ Copies(b, 2) = 1
  <2>1. W = {1} \cup {2}
    BY <1>6 DEF Copies, Writers
  <2> QED
    BY <1>2, <1>6, <2>1 DEF Pins, Passes
<1> QED
  BY <1>3, <1>4, <1>5, <1>6 DEF Copies

\* RAM in use is pinned by exactly its users and stays accounted for.
THEOREM PinnedStaysReserved == Spec => []PinnedIsReserved
<1>1. ASSUME IInv, NEW b \in Buffers
      PROVE  pinned[b] = Pins(b) /\ (pinned[b] > 0 => reserved[b] >= size[b])
  <2>1. MemoryOf(b) /\ PlacesOf(b) /\ ExtentOf(b)
    BY <1>1 DEF IInv, Memory, Places, Extent
  <2>2. pinned[b] = Pins(b)
    BY <2>1, PinsSum DEF MemoryOf
  <2>3. ASSUME pinned[b] > 0 PROVE reserved[b] >= size[b]
    <3>1. b \notin onDisk
      BY <2>1, <2>3 DEF MemoryOf, Copies, Passes, PlacesOf
    <3>2. Opened(b)
      BY <2>1, <2>3 DEF PlacesOf
    <3>3. CASE b \in ranged
      BY <2>1, <2>3, <3>1, <3>3, SpoolAssumption DEF MemoryOf, PlacesOf
    <3>4. CASE b \notin ranged
      <4>1. reserved[b] \in Nat /\ written[b][1] \in Nat /\ reserved[b] >= written[b][1]
        BY <1>1, <2>1, <2>3, <3>1, <3>4, ConstantFacts DEF IInv, TypeOK, MemoryOf
      <4>2. size[b] = Growing \/ size[b] = written[b][1]
        BY <2>1, <3>2, <3>4 DEF PlacesOf, ExtentOf, Prefix
      <4> QED
        BY <4>1, <4>2 DEF Growing
    <3> QED
      BY <3>3, <3>4
  <2> QED
    BY <2>2, <2>3
<1>2. IInv => PinnedIsReserved
  BY <1>1 DEF PinnedIsReserved
<1> QED
  BY <1>2, Invariance, PTL

\* Readers see only bytes that arrived, never one a writer is copying, and the
\* end of the data only after all of it.
THEOREM ReadersAreRight == Spec => []ReadersSeeData
<1>1. ASSUME IInv, NEW b \in Buffers
      PROVE  /\ 0..(ready[b] - 1) \subseteq stored[b]
             /\ \A w \in Writers : \A o \in chunk[b][w] : o >= ready[b]
             /\ b \in whole => offset[b] = size[b]
  <2>1. PlacesOf(b) /\ ExtentOf(b) /\ ready[b] \in Nat
        /\ written[b][1] \in Nat /\ written[b][2] \in Nat /\ Split \in Nat
    BY <1>1, ConstantFacts, SpoolAssumption DEF IInv, Places, Extent, TypeOK
  <2>2. /\ 0..(written[b][1] - 1) \subseteq stored[b]
        /\ Split..((Split + written[b][2]) - 1) \subseteq stored[b]
    BY <2>1, ConstantFacts DEF ExtentOf, Position, Start
  <2>3. ready[b] = IF b \notin ranged \/ written[b][1] < Split THEN written[b][1]
                   ELSE Split + written[b][2]
    BY <2>1 DEF ExtentOf, Prefix
  <2>4. 0..(ready[b] - 1) \subseteq stored[b]
    <3>1. CASE b \notin ranged \/ written[b][1] < Split
      BY <2>2, <2>3, <3>1
    <3>2. CASE b \in ranged /\ ~(written[b][1] < Split)
      <4>1. written[b][1] = Split
        BY <2>1, <3>2 DEF ExtentOf
      <4> SUFFICES ASSUME NEW o \in 0..(ready[b] - 1) PROVE o \in stored[b]
        OBVIOUS
      <4>2. o \in 0..(written[b][1] - 1) \/ o \in Split..((Split + written[b][2]) - 1)
        BY <2>1, <2>3, <3>2, <4>1
      <4> QED
        BY <2>2, <4>2
    <3> QED
      BY <3>1, <3>2
  <2>5. ASSUME NEW w \in Writers, NEW o \in chunk[b][w] PROVE o >= ready[b]
    <3>1. PICK n \in Nat : /\ b \in ranged
                           /\ chunk[b][w] = Position(b, w)..(Position(b, w) + n - 1)
                           /\ Position(b, w) + n <= End(b, w)
      BY <1>1, <2>5 DEF IInv, Chunks
    <3>2. CASE w = 1
      BY <2>1, <2>3, <2>5, <3>1, <3>2 DEF Position, Start, End
    <3>3. CASE w = 2
      BY <2>1, <2>3, <2>5, <3>1, <3>3 DEF Position, Start, End
    <3> QED
      BY <3>2, <3>3, ConstantFacts
  <2>6. b \in whole => offset[b] = size[b]
    BY <2>1 DEF PlacesOf
  <2> QED
    BY <2>4, <2>5, <2>6
<1>2. IInv => ReadersSeeData
  BY <1>1 DEF ReadersSeeData
<1> QED
  BY <1>2, Invariance, PTL
=============================================================================
