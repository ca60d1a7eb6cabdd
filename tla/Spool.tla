-------------------------------- MODULE Spool --------------------------------
(***************************************************************************)
(* internal/spool: media buffers in RAM, within a budget all buffers share,*)
(* or in an unlinked temporary file.  Range writers fill one buffer at the *)
(* same time while a reader streams its contiguous prefix.                 *)
(*                                                                         *)
(* Every action is one critical section of Buffer.mu.  Copying into a      *)
(* buffer of known size, writing from its RAM and reading from its file    *)
(* happen between two of them, with the lock released.  A byte is its      *)
(* offset.                                                                 *)
(***************************************************************************)
EXTENDS Integers, FiniteSets, FiniteSetsExt

CONSTANTS
  Buffers,
  SizeOf,      \* SizeOf[b]: bytes of buffer b when complete
  Split,       \* where the second range of a buffer of known size starts
  FileLimit,   \* Store.fileLimit
  Budget,      \* Store.budget
  MinGrowth

ASSUME SpoolAssumption ==
  /\ SizeOf \in [Buffers -> Nat \ {0}] /\ FileLimit \in Nat /\ Budget \in Nat
  /\ MinGrowth \in Nat \ {0}
  /\ \A b \in Buffers : Split \in 1..SizeOf[b]

Writers == {1, 2}
Growing == -1                \* Buffer.size while it is unknown

VARIABLES
  used,      \* Store.used
  life,      \* "none", "open", "closed"; "refused" when New failed
  size,      \* Buffer.size
  ranged,    \* buffers New was given a size for
  onDisk,    \* buffers with a file
  reserved,  \* Buffer.reserved
  pinned,    \* Buffer.pinned
  written,   \* written[b][w]: region.written
  ready,     \* Buffer.ready
  failed,    \* buffers with err # nil
  complete,  \* Buffer.complete
  stored,    \* the offsets that really hold their byte
  chunk,     \* chunk[b][w]: the offsets writer w is copying
  reader,    \* "idle", "awake", "asleep" on Buffer.waiters,
             \* "writing" from pinned RAM, "copying", "done"
  direct,    \* buffers whose reader is a memoryReader
  offset,    \* reader.offset
  span,      \* what the reader passed on: the end of its chunk
  whole      \* history: readers that reached the end of the data

ramVars == <<used, reserved, pinned>>
placeVars == <<ranged, onDisk>>
stateVars == <<life, size, ready, failed, complete>>
writeVars == <<written, chunk, stored>>
cursorVars == <<direct, offset, span, whole>>
vars == <<ramVars, placeVars, stateVars, writeVars, cursorVars, reader>>

Init ==
  /\ used = 0
  /\ life = [b \in Buffers |-> "none"]
  /\ size = [b \in Buffers |-> 0]
  /\ onDisk = {} /\ failed = {} /\ complete = {} /\ whole = {} /\ ranged = {} /\ direct = {}
  /\ reserved = [b \in Buffers |-> 0]
  /\ pinned = [b \in Buffers |-> 0]
  /\ written = [b \in Buffers |-> [w \in Writers |-> 0]]
  /\ ready = [b \in Buffers |-> 0]
  /\ stored = [b \in Buffers |-> {}]
  /\ chunk = [b \in Buffers |-> [w \in Writers |-> {}]]
  /\ reader = [b \in Buffers |-> "idle"]
  /\ offset = [b \in Buffers |-> 0]
  /\ span = [b \in Buffers |-> 0]

\* The ranges the writers of a ranged buffer own.  A growing buffer has one
\* writer, whose range has no end.
Start(w) == IF w = 1 THEN 0 ELSE Split
End(b, w) == IF w = 1 THEN Split ELSE SizeOf[b]
Fixed(b) == size[b] # Growing
Position(b, w) == Start(w) + written[b][w]

\* Store.reserve: whether a buffer of total bytes may take delta more.
MutantFits(total, delta) == total <= FileLimit /\ used <= Budget
Fits(total, delta) == total <= FileLimit /\ used + delta <= Budget

\* notifyLocked: a reader asleep on waiters runs again.
Notify(b) == reader' = IF reader[b] = "asleep" THEN [reader EXCEPT ![b] = "awake"] ELSE reader

-----------------------------------------------------------------------------
(* Store.New *)

NewInMemory(b) ==
  /\ life[b] = "none"
  /\ \/ /\ Fits(SizeOf[b], SizeOf[b])
        /\ used' = used + SizeOf[b]
        /\ reserved' = [reserved EXCEPT ![b] = SizeOf[b]]
        /\ size' = [size EXCEPT ![b] = SizeOf[b]]
        /\ ranged' = ranged \cup {b}
     \/ /\ size' = [size EXCEPT ![b] = Growing]
        /\ UNCHANGED <<used, reserved, ranged>>
  /\ life' = [life EXCEPT ![b] = "open"]
  /\ UNCHANGED <<writeVars, cursorVars, onDisk, pinned, ready, failed, complete, reader>>

NewOnDisk(b) ==
  /\ life[b] = "none" /\ ~Fits(SizeOf[b], SizeOf[b])
  /\ \/ /\ life' = [life EXCEPT ![b] = "open"]
        /\ size' = [size EXCEPT ![b] = SizeOf[b]]
        /\ onDisk' = onDisk \cup {b} /\ ranged' = ranged \cup {b}
     \/ life' = [life EXCEPT ![b] = "refused"] /\ UNCHANGED <<placeVars, size>>
  /\ UNCHANGED <<ramVars, writeVars, cursorVars, ready, failed, complete, reader>>

-----------------------------------------------------------------------------
(* Writer.Write *)

\* The contiguous prefix, given the bytes done of each range: it ends in the
\* first range that is not full.
MutantPrefix(b, done) == IF b \in ranged THEN done[1] + done[2] ELSE done[1]
Prefix(b, done) ==
  IF b \notin ranged \/ done[1] < Split THEN done[1] ELSE Split + done[2]

\* advanceLocked
Advance(b, done) ==
  /\ written' = [written EXCEPT ![b] = done]
  /\ IF Prefix(b, done) > ready[b]
     THEN ready' = [ready EXCEPT ![b] = Prefix(b, done)] /\ Notify(b)
     ELSE UNCHANGED <<ready, reader>>

\* A write of n bytes into a buffer of known size starts: RAM is pinned.
WriteStart(b, w, n) ==
  /\ life[b] = "open" /\ b \in ranged \ failed
  /\ chunk[b][w] = {}
  /\ Position(b, w) + n <= End(b, w)
  /\ chunk' = [chunk EXCEPT ![b][w] = Position(b, w)..(Position(b, w) + n - 1)]
  /\ pinned' = IF b \in onDisk THEN pinned ELSE [pinned EXCEPT ![b] = @ + 1]
  /\ UNCHANGED <<placeVars, stateVars, cursorVars, used, reserved, written, stored, reader>>

\* unpinLocked: the last pin of a closed buffer gives its RAM back.
Unpin(b) ==
  /\ pinned' = [pinned EXCEPT ![b] = @ - 1]
  /\ IF life[b] = "closed" /\ pinned[b] = 1
     THEN used' = used - reserved[b] /\ reserved' = [reserved EXCEPT ![b] = 0]
     ELSE UNCHANGED <<used, reserved>>

\* The bytes are copied; they count unless the buffer failed meanwhile.
WriteEnd(b, w) ==
  /\ chunk[b][w] # {}
  /\ stored' = [stored EXCEPT ![b] = @ \cup chunk[b][w]]
  /\ chunk' = [chunk EXCEPT ![b][w] = {}]
  /\ IF b \in onDisk THEN UNCHANGED ramVars ELSE Unpin(b)
  /\ IF b \in failed THEN UNCHANGED <<written, ready, reader>>
     ELSE Advance(b, [written[b] EXCEPT ![w] = @ + Cardinality(chunk[b][w])])
  /\ UNCHANGED <<placeVars, cursorVars, life, size, failed, complete>>

\* The file refuses the write; the buffer stays as it is.
WriteFails(b, w) ==
  /\ chunk[b][w] # {} /\ b \in onDisk
  /\ chunk' = [chunk EXCEPT ![b][w] = {}]
  /\ UNCHANGED <<ramVars, placeVars, stateVars, cursorVars, written, stored, reader>>

\* appendLocked: the capacity a growing buffer asks for.
Capacity(b, length) ==
  LET wanted == Max({length, 2 * reserved[b], MinGrowth}) IN
  IF FileLimit > 0 THEN Max({length, Min({wanted, FileLimit})}) ELSE wanted

AppendBytes(b, n) ==
  LET length == written[b][1] + n
      capacity == Capacity(b, length)
      grow == b \notin onDisk /\ length > reserved[b]
  IN
  /\ life[b] = "open" /\ b \notin failed /\ ~Fixed(b)
  /\ length <= SizeOf[b]
  /\ \/ grow /\ Fits(capacity, capacity - reserved[b])
        /\ used' = used + capacity - reserved[b]
        /\ reserved' = [reserved EXCEPT ![b] = capacity]
        /\ UNCHANGED onDisk
     \/ grow /\ ~Fits(capacity, capacity - reserved[b])      \* spillLocked
        /\ used' = used - reserved[b]
        /\ reserved' = [reserved EXCEPT ![b] = 0]
        /\ onDisk' = onDisk \cup {b}
     \/ ~grow /\ UNCHANGED <<used, reserved, onDisk>>
  /\ stored' = [stored EXCEPT ![b] = @ \cup (written[b][1]..(length - 1))]
  /\ Advance(b, [written[b] EXCEPT ![1] = length])
  /\ UNCHANGED <<cursorVars, ranged, life, size, pinned, chunk, failed, complete>>

\* spillLocked fails, and the buffer with it.
SpillFails(b, n) ==
  /\ life[b] = "open" /\ b \notin failed /\ ~Fixed(b) /\ b \notin onDisk
  /\ LET length == written[b][1] + n  capacity == Capacity(b, length) IN
       /\ length <= SizeOf[b] /\ length > reserved[b]
       /\ ~Fits(capacity, capacity - reserved[b])
  /\ failed' = failed \cup {b} /\ Notify(b)
  /\ UNCHANGED <<ramVars, placeVars, writeVars, cursorVars, life, size, ready, complete>>

\* The buffer moved to disk, where the write then fails: nothing was appended.
AppendFails(b, n) ==
  /\ life[b] = "open" /\ b \notin failed /\ ~Fixed(b) /\ b \notin onDisk
  /\ LET length == written[b][1] + n  capacity == Capacity(b, length) IN
       /\ length <= SizeOf[b] /\ length > reserved[b]
       /\ ~Fits(capacity, capacity - reserved[b])
  /\ used' = used - reserved[b]
  /\ reserved' = [reserved EXCEPT ![b] = 0]
  /\ onDisk' = onDisk \cup {b}
  /\ UNCHANGED <<writeVars, cursorVars, ranged, life, size, pinned, ready, failed, complete,
                 reader>>

-----------------------------------------------------------------------------
(* Complete, Fail, Close *)

Complete(b) ==
  /\ life[b] = "open" /\ b \notin failed \cup complete
  /\ Fixed(b) => ready[b] = size[b]
  /\ size' = [size EXCEPT ![b] = ready[b]]
  /\ complete' = complete \cup {b}
  /\ Notify(b)
  /\ UNCHANGED <<ramVars, placeVars, writeVars, cursorVars, life, ready, failed>>

MutantFail(b) ==
  /\ life[b] = "open" /\ b \notin complete \cup failed
  /\ failed' = failed \cup {b}
  /\ UNCHANGED <<ramVars, placeVars, writeVars, cursorVars, life, size, ready, complete,
                 reader>>
Fail(b) ==
  /\ life[b] = "open" /\ b \notin complete \cup failed
  /\ failed' = failed \cup {b}
  /\ Notify(b)
  /\ UNCHANGED <<ramVars, placeVars, writeVars, cursorVars, life, size, ready, complete>>

MutantClose(b) ==
  /\ life[b] = "open"
  /\ life' = [life EXCEPT ![b] = "closed"]
  /\ failed' = failed \cup {b}
  /\ Notify(b)
  /\ used' = used - reserved[b] /\ reserved' = [reserved EXCEPT ![b] = 0]
  /\ UNCHANGED <<placeVars, writeVars, cursorVars, size, pinned, ready, complete>>
Close(b) ==
  /\ life[b] = "open"
  /\ life' = [life EXCEPT ![b] = "closed"]
  /\ failed' = failed \cup {b}
  /\ Notify(b)
  /\ IF pinned[b] = 0
     THEN used' = used - reserved[b] /\ reserved' = [reserved EXCEPT ![b] = 0]
     ELSE UNCHANGED <<used, reserved>>
  /\ UNCHANGED <<placeVars, writeVars, cursorVars, size, pinned, ready, complete>>

-----------------------------------------------------------------------------
(* One reader per buffer, from its start to its end *)

\* Reader; a closed buffer may still be given to one.
OpenReader(b) ==
  /\ reader[b] = "idle" /\ life[b] \in {"open", "closed"}
  /\ reader' = [reader EXCEPT ![b] = "awake"]
  /\ direct' = IF Fixed(b) /\ b \notin onDisk THEN direct \cup {b} ELSE direct
  /\ UNCHANGED <<ramVars, placeVars, stateVars, writeVars, offset, span, whole>>

\* waitReadyLocked finds bytes.  A memoryReader pins the buffer while its bytes
\* are passed on; any other copies them.
ReadStart(b) ==
  /\ reader[b] = "awake" /\ life[b] = "open"
  /\ offset[b] < ready[b]
  /\ span' = [span EXCEPT ![b] = ready[b]]
  /\ pinned' = IF b \in direct THEN [pinned EXCEPT ![b] = @ + 1] ELSE pinned
  /\ reader' = [reader EXCEPT ![b] = IF b \in direct THEN "writing" ELSE "copying"]
  /\ UNCHANGED <<placeVars, stateVars, writeVars, used, reserved, direct, offset, whole>>

\* The consumer took the bytes, or failed.
ReadEnd(b) ==
  /\ reader[b] \in {"writing", "copying"}
  /\ IF reader[b] = "writing" THEN Unpin(b) ELSE UNCHANGED ramVars
  /\ \/ reader' = [reader EXCEPT ![b] = "awake"] /\ offset' = [offset EXCEPT ![b] = span[b]]
     \/ reader' = [reader EXCEPT ![b] = "done"] /\ UNCHANGED offset
  /\ UNCHANGED <<placeVars, stateVars, writeVars, span, whole, direct>>

\* waitReadyLocked: the end, an error, or sleep.
ReadStop(b) ==
  /\ reader[b] = "awake"
  /\ \/ life[b] = "closed" /\ UNCHANGED whole
     \/ life[b] = "open" /\ offset[b] >= ready[b] /\ b \in complete /\ whole' = whole \cup {b}
     \/ life[b] = "open" /\ offset[b] >= ready[b] /\ b \in failed /\ UNCHANGED whole
  /\ reader' = [reader EXCEPT ![b] = "done"]
  /\ UNCHANGED <<ramVars, placeVars, stateVars, writeVars, direct, offset, span>>

ReadSleep(b) ==
  /\ reader[b] = "awake" /\ life[b] = "open"
  /\ offset[b] >= ready[b] /\ b \notin complete \cup failed
  /\ reader' = [reader EXCEPT ![b] = "asleep"]
  /\ UNCHANGED <<ramVars, placeVars, stateVars, writeVars, cursorVars>>

\* The reader's context ends.
ReadCancelled(b) ==
  /\ reader[b] \in {"awake", "asleep"}
  /\ reader' = [reader EXCEPT ![b] = "done"]
  /\ UNCHANGED <<ramVars, placeVars, stateVars, writeVars, cursorVars>>

-----------------------------------------------------------------------------

Write(b) ==
  \/ \E w \in Writers, n \in 1..SizeOf[b] : WriteStart(b, w, n)
  \/ \E w \in Writers : WriteEnd(b, w) \/ WriteFails(b, w)
  \/ \E n \in 1..SizeOf[b] : AppendBytes(b, n) \/ SpillFails(b, n) \/ AppendFails(b, n)
Read(b) == ReadStart(b) \/ ReadEnd(b) \/ ReadStop(b) \/ ReadSleep(b)

Next ==
  \E b \in Buffers :
    \/ NewInMemory(b) \/ NewOnDisk(b)
    \/ Write(b) \/ Complete(b) \/ Fail(b) \/ Close(b)
    \/ OpenReader(b) \/ Read(b) \/ ReadCancelled(b)

\* A reader that can run does, and its consumer takes the bytes or fails.
Fairness == \A b \in Buffers : WF_vars(Read(b))

Spec == Init /\ [][Next]_vars
FairSpec == Spec /\ Fairness

-----------------------------------------------------------------------------
(* Properties *)

TypeOK ==
  /\ used \in Int
  /\ life \in [Buffers -> {"none", "open", "closed", "refused"}]
  /\ size \in [Buffers -> {Growing} \cup Nat]
  /\ {ranged, direct, onDisk, failed, complete, whole} \subseteq SUBSET Buffers
  /\ reserved \in [Buffers -> Nat] /\ pinned \in [Buffers -> Int]
  /\ written \in [Buffers -> [Writers -> Nat]]
  /\ ready \in [Buffers -> Nat]
  /\ stored \in [Buffers -> SUBSET Nat]
  /\ chunk \in [Buffers -> [Writers -> SUBSET Nat]]
  /\ reader \in [Buffers -> {"idle", "awake", "asleep", "writing", "copying", "done"}]
  /\ offset \in [Buffers -> Nat] /\ span \in [Buffers -> Nat]

\* Store.used counts the RAM of all buffers, byte by byte, and stays within the
\* budget; a buffer that is closed and no longer used, or went to disk, has none.
ReservedBytes == UNION {{b} \X (1..reserved[b]) : b \in Buffers}
BudgetHolds ==
  /\ used = Cardinality(ReservedBytes)
  /\ used <= Budget
  /\ \A b \in Buffers :
       (life[b] = "closed" /\ pinned[b] = 0) \/ b \in onDisk => reserved[b] = 0

\* RAM that a writer copies into or a reader writes from stays accounted for
\* until the last of them is done, also when the buffer is closed meanwhile.
Pins(b) ==
  Cardinality({w \in Writers : chunk[b][w] # {} /\ b \notin onDisk})
    + (IF reader[b] = "writing" THEN 1 ELSE 0)
PinnedIsReserved ==
  \A b \in Buffers : pinned[b] = Pins(b) /\ (pinned[b] > 0 => reserved[b] >= size[b])

\* A reader never sees a byte that has not arrived or that a writer is still
\* copying, and a reader that saw the end saw everything.
ReadersSeeData ==
  \A b \in Buffers :
    /\ 0..(ready[b] - 1) \subseteq stored[b]
    /\ \A w \in Writers : \A o \in chunk[b][w] : o >= ready[b]
    /\ b \in whole => offset[b] = size[b]

\* A reader of a buffer that completes, fails or is closed ends.
ReadersEnd ==
  \A b \in Buffers :
    (reader[b] \notin {"idle", "done"} /\ b \in complete \cup failed) ~> reader[b] = "done"
=============================================================================
