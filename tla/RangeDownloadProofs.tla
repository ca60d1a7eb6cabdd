------------------------- MODULE RangeDownloadProofs -------------------------
(***************************************************************************)
(* Proofs about RangeDownload, for every file size, number of connections, *)
(* retries and addresses.                                                  *)
(***************************************************************************)
EXTENDS RangeDownload, FiniteSetTheorems, TLAPS

\* Rounding up never gives more parts than bytes.
LEMMA CeilFacts ==
  ASSUME NEW n \in Nat, NEW d \in Nat \ {0}
  PROVE  Ceil(n, d) \in Nat /\ Ceil(n, d) <= n
<1> DEFINE q == Ceil(n, d)
<1>1. n + d - 1 \in Nat
  OBVIOUS
<1>2. q \in Nat /\ d * q <= n + d - 1
  BY <1>1 DEF Ceil
<1>3. SUFFICES ASSUME q >= n + 1 PROVE FALSE
  BY <1>2
<1>4. d * q >= d * (n + 1)
  BY <1>2, <1>3
<1>5. d * (n + 1) = d * n + d /\ d * n >= n
  OBVIOUS
<1> QED
  BY <1>2, <1>4, <1>5

-----------------------------------------------------------------------------
(* The inductive invariant *)

\* The types the argument needs.
Typed ==
  /\ version \in [Urls -> 0..MaxVersion]
  /\ end \in 0..Total /\ next \in Nat
  /\ written \in [Parts -> Int]
  /\ work \in [Workers -> {"off", "loop", "open", "body", "sleep"}]
  /\ part \in [Workers -> Parts]
  /\ content = [o \in Offsets |-> content[o]]
  /\ body = [w \in Workers |-> body[w]]

\* Before the first response is accepted nothing runs and nothing is written.
Opening == {"open", "openWhole"}
Early == main \in Opening => Joined /\ \A o \in Offsets : content[o] = NoByte

\* Workers run only against the file of the first response.
Anchored ==
  /\ ranged /\ main \in {"read", "body"} => pinned = from /\ pinned \in Files
  /\ ~Joined => pinned = from /\ pinned \in Files

\* No two workers fetch the same part.
Fetching(w) == work[w] \in {"open", "body", "sleep"}
Distinct ==
  /\ \A w \in Workers : Fetching(w) => part[w] < next
  /\ \A w, v \in Workers : Fetching(w) /\ Fetching(v) /\ w # v => part[w] # part[v]

\* The next byte of a response is the byte its writer expects.
InPlace == \A w \in Workers : work[w] = "body" => body[w] = Byte(from, Offset(part[w]))

IInv == Typed /\ Early /\ Anchored /\ Distinct /\ InPlace /\ OneRepresentation

\* There are a main goroutine and a first byte.
LEMMA Basics == 0 \in Workers /\ 0 \in Parts /\ Workers \subseteq Int /\ Offsets \subseteq Int
                /\ "off" # "loop"
  BY RangeAssumption DEF Workers, Parts, Offsets

\* The greater of two numbers.
LEMMA MaxFacts ==
  ASSUME NEW a \in Int, NEW b \in Int
  PROVE  Max({a, b}) \in {a, b} /\ Max({a, b}) >= a /\ Max({a, b}) >= b
<1>1. \E x \in {a, b} : \A y \in {a, b} : x >= y
  <2>1. CASE a >= b
    BY <2>1
  <2>2. CASE ~(a >= b)
    BY <2>2
  <2> QED BY <2>1, <2>2
<1> QED
  BY <1>1 DEF Max

\* Parts are positive in size, and their indices are indices of bytes.
LEMMA PartFacts ==
  ASSUME end \in 0..Total
  PROVE  /\ PartSize \in Nat \ {0}
         /\ Count \in Nat /\ Count <= Total - end
<1> USE RangeAssumption
<1>1. Total - end \in Nat /\ 2 * Connections \in Nat \ {0} /\ MinPart \in Nat \ {0}
  OBVIOUS
<1>2. Ceil(Total - end, 2 * Connections) \in Nat
  BY <1>1, CeilFacts
<1>3. PartSize \in Nat \ {0}
  <2> DEFINE c == Ceil(Total - end, 2 * Connections)
  <2>1. PartSize = Max({MinPart, c})
    BY DEF PartSize
  <2>2. c \in Int /\ MinPart \in Int
    BY <1>1, <1>2
  <2> HIDE DEF c
  <2>3. Max({MinPart, c}) \in {MinPart, c} /\ Max({MinPart, c}) >= MinPart
    BY <2>2, MaxFacts
  <2> QED
    BY <1>1, <2>1, <2>2, <2>3
<1>4. Count \in Nat /\ Count <= Total - end
  BY <1>1, <1>3, CeilFacts DEF Count
<1> QED
  BY <1>3, <1>4

\* The first states satisfy the invariant.
LEMMA InitInv == Init => IInv
<1> SUFFICES ASSUME Init PROVE IInv
  OBVIOUS
<1> USE RangeAssumption, Basics DEF Init
<1>1. Typed
  BY DEF Typed
<1>2. Early /\ Anchored
  BY DEF Early, Anchored, Opening, Joined
<1>3. Distinct /\ InPlace
  BY DEF Distinct, InPlace, Fetching
<1>4. OneRepresentation
  BY DEF OneRepresentation
<1> QED
  BY <1>1, <1>2, <1>3, <1>4 DEF IInv

\* Steps that touch neither the buffer nor the job.
Quiet ==
  /\ UNCHANGED <<ranged, end, from, pinned, content, next, written, part, body, work>>
  /\ main' = main \/ main' \notin Opening \cup {"read", "body"}
  /\ version' \in [Urls -> 0..MaxVersion]

QuietNext ==
  \/ OpenFails \/ ReceiveFails \/ Finish \/ Complete \/ Validate \/ CloseData \/ Stop \/ Return
  \/ HashEnds \/ RetryElsewhere \/ EndContext
  \/ \E u \in Urls : Change(u)

\* The steps that are.
LEMMA QuietSteps == Typed /\ QuietNext => Quiet
<1> SUFFICES ASSUME Typed, QuietNext PROVE Quiet
  OBVIOUS
<1> USE DEF Quiet, Opening, Fail, serverVars, firstVars, bufferVars, jobVars, Typed
<1>1. CASE OpenFails \/ ReceiveFails \/ Finish
  BY <1>1 DEF OpenFails, ReceiveFails, Finish
<1>2. CASE Complete
  BY <1>2 DEF Complete
<1>3. CASE Validate \/ HashEnds
  BY <1>3 DEF Validate, HashEnds
<1>4. CASE CloseData \/ Stop \/ Return
  BY <1>4 DEF CloseData, Stop, Return
<1>5. CASE RetryElsewhere \/ EndContext
  BY <1>5 DEF RetryElsewhere, EndContext
<1>6. ASSUME NEW u \in Urls, Change(u) PROVE Quiet
  <2>1. version[u] + 1 \in 0..MaxVersion
    BY <1>6, RangeAssumption DEF Change
  <2> QED
    BY <1>6, <2>1 DEF Change
<1> QED
  BY <1>1, <1>2, <1>3, <1>4, <1>5, <1>6 DEF QuietNext

\* They keep the invariant.
LEMMA QuietKeeps == IInv /\ Quiet => IInv'
<1> SUFFICES ASSUME IInv, Quiet PROVE IInv'
  OBVIOUS
<1> USE DEF IInv, Quiet
<1>1. Typed'
  BY DEF Typed
<1>2. Early' /\ Anchored'
  BY DEF Early, Anchored, Joined, Opening
<1>3. Distinct'
  BY DEF Distinct, Fetching
<1>4. InPlace'
  BY DEF InPlace, Offset, Start, PartSize
<1>5. OneRepresentation'
  BY DEF OneRepresentation
<1> QED
  BY <1>1, <1>2, <1>3, <1>4, <1>5

-----------------------------------------------------------------------------
(* The steps that touch the buffer or the job *)

\* The first response, and the whole file, are accepted before anything runs.
LEMMA OpenKeeps ==
  ASSUME IInv, NEW u \in Urls, OpenPart(u) \/ OpenWhole(u)
  PROVE  IInv'
<1> USE DEF IInv, Opening
<1>1. /\ Joined /\ \A o \in Offsets : content[o] = NoByte
      /\ UNCHANGED <<version, content, next, written, part, body, work>>
  BY DEF OpenPart, OpenWhole, Early, serverVars, jobVars
<1>2. Served(u) \in Files
  BY DEF Typed, Served, Files
<1>3. end' \in 0..Total
  BY RangeAssumption DEF OpenPart, OpenWhole
<1>4. Typed'
  BY <1>1, <1>3 DEF Typed
<1>5. Early'
  BY <1>1 DEF Early, Joined
<1>6. Anchored'
  BY <1>1, <1>2 DEF Anchored, Joined, OpenPart, OpenWhole
<1>7. Distinct' /\ InPlace'
  BY <1>1 DEF Distinct, InPlace, Fetching, Joined
<1>8. OneRepresentation'
  BY <1>1 DEF OneRepresentation
<1> QED
  BY <1>4, <1>5, <1>6, <1>7, <1>8

\* Workers are started, or the main goroutine becomes one: nobody fetches yet
\* because of it.
LEMMA StartKeeps ==
  ASSUME IInv, Announce \/ Received
  PROVE  IInv'
<1> USE Basics DEF IInv
<1>1. UNCHANGED <<version, ranged, end, from, pinned, content, next, written, part, body>>
      /\ main \in {"read", "body"} /\ main' \notin Opening \cup {"read"}
  BY DEF Announce, Received, serverVars, firstVars, bufferVars, jobVars, Opening
<1>2. work' \in [Workers -> {"off", "loop", "open", "body", "sleep"}]
  BY DEF Announce, Received, Typed
<1>3. \A w \in Workers : work'[w] \in {"open", "body", "sleep"} => work'[w] = work[w]
  BY DEF Announce, Received, Typed
<1>4. Typed'
  BY <1>1, <1>2 DEF Typed
<1>5. Early'
  BY <1>1 DEF Early
<1>6. Anchored'
  <2>1. Joined' \/ ranged \/ ~Joined
    BY DEF Announce, Received, Split, Joined
  <2> QED
    BY <1>1, <2>1 DEF Anchored
<1>7. Distinct' /\ InPlace'
  BY <1>1, <1>3 DEF Distinct, InPlace, Fetching, Offset, Start, PartSize
<1>8. OneRepresentation'
  BY <1>1 DEF OneRepresentation
<1> QED
  BY <1>4, <1>5, <1>6, <1>7, <1>8

\* The first response is written from its start.
LEMMA ReceiveKeeps ==
  ASSUME IInv, Receive
  PROVE  IInv'
<1> USE DEF IInv, Receive
<1>1. UNCHANGED <<version, main, ranged, end, from, pinned, next, written, part, body, work>>
  BY DEF serverVars, jobVars
<1>2. Typed'
  BY <1>1 DEF Typed
<1>3. Early' /\ Anchored'
  BY <1>1 DEF Early, Anchored, Opening, Joined
<1>4. Distinct' /\ InPlace'
  BY <1>1 DEF Distinct, InPlace, Fetching, Offset, Start, PartSize
<1>5. OneRepresentation'
  BY <1>1 DEF OneRepresentation, Typed
<1> QED
  BY <1>2, <1>3, <1>4, <1>5

\* A worker that moves on without taking a part or a byte.
Moves(w) ==
  /\ UNCHANGED <<version, ranged, end, from, pinned, content, written, part, body>>
  /\ next' \in Nat /\ next <= next'
  /\ main' = main \/ main' = "join"
  /\ work[w] # "off"
  /\ \E x \in {"off", "loop", "open", "sleep"} :
       /\ work' = [work EXCEPT ![w] = x]
       /\ x \in {"open", "sleep"} => Fetching(w)

\* The steps that do.
LEMMA MoveSteps ==
  ASSUME Typed, NEW w \in Workers,
         \/ RangeFails(w) \/ RangeChanged(w) \/ Retry(w) \/ PartDone(w)
         \/ Take(w) /\ (Stopped \/ next >= Count)
  PROVE  Moves(w)
<1> USE DEF Moves, Fetching, FetchFails, WorkerEnds, serverVars, firstVars, bufferVars, jobVars
<1>0. next \in Nat
  BY DEF Typed
<1>1. CASE RangeFails(w)
  BY <1>0, <1>1 DEF RangeFails
<1>2. CASE RangeChanged(w)
  BY <1>0, <1>2 DEF RangeChanged
<1>3. CASE Retry(w)
  BY <1>0, <1>3 DEF Retry
<1>4. CASE PartDone(w)
  BY <1>0, <1>4 DEF PartDone
<1>5. CASE Take(w) /\ (Stopped \/ next >= Count)
  BY <1>0, <1>5 DEF Take
<1> QED
  BY <1>1, <1>2, <1>3, <1>4, <1>5

\* They keep the invariant.
LEMMA MoveKeeps ==
  ASSUME IInv, NEW w \in Workers, Moves(w)
  PROVE  IInv'
<1> USE DEF IInv
<1>1. /\ UNCHANGED <<version, ranged, end, from, pinned, content, written, part, body>>
      /\ next \in Nat /\ next' \in Nat /\ next <= next'
      /\ main' = main \/ main' = "join"
      /\ work[w] # "off"
  BY DEF Moves, Typed
<1>2. PICK x \in {"off", "loop", "open", "sleep"} :
        work' = [work EXCEPT ![w] = x] /\ (x \in {"open", "sleep"} => Fetching(w))
  BY DEF Moves
<1>3. Typed'
  BY <1>1, <1>2 DEF Typed
<1>4. ~Joined
  BY <1>1 DEF Joined
<1>5. Early' /\ Anchored'
  BY <1>1, <1>4 DEF Early, Anchored, Opening
<1>6. \A v \in Workers : Fetching(v)' => Fetching(v)
  BY <1>2 DEF Fetching, Typed
<1>7. Distinct'
  <2>1. \A v \in Workers : part[v] \in Int
    BY Basics DEF Typed, Parts
  <2> QED
    BY <1>1, <1>6, <2>1 DEF Distinct
<1>8. \A v \in Workers : work'[v] = "body" => work[v] = "body"
  BY <1>2 DEF Typed
<1>9. InPlace'
  BY <1>1, <1>8 DEF InPlace, Offset, Start, PartSize
<1>10. OneRepresentation'
  BY <1>1 DEF OneRepresentation
<1> QED
  BY <1>3, <1>5, <1>7, <1>9, <1>10

\* j.next gives every part to one worker.
LEMMA TakeKeeps ==
  ASSUME IInv, NEW w \in Workers, Take(w), ~(Stopped \/ next >= Count)
  PROVE  IInv'
<1> USE DEF IInv
<1>1. /\ UNCHANGED <<version, main, ranged, end, from, pinned, content, written, body>>
      /\ work[w] = "loop" /\ work' = [work EXCEPT ![w] = "open"]
      /\ part' = [part EXCEPT ![w] = next] /\ next' = next + 1
  BY DEF Take, serverVars, firstVars, bufferVars
<1>2. next \in Parts
  <2>1. Count \in Nat /\ Count <= Total
    BY PartFacts, RangeAssumption DEF Typed
  <2> QED
    BY <2>1, RangeAssumption DEF Typed, Parts, Offsets
<1>3. Typed'
  BY <1>1, <1>2 DEF Typed
<1>4. ~Joined
  BY <1>1 DEF Joined
<1>5. Early' /\ Anchored'
  BY <1>1, <1>4 DEF Early, Anchored, Opening
<1>6. \A v \in Workers : v # w => part'[v] = part[v] /\ work'[v] = work[v]
  BY <1>1 DEF Typed
<1>7. part'[w] = next /\ work'[w] = "open"
  BY <1>1 DEF Typed
<1>8. \A v \in Workers : part[v] \in Int /\ next \in Int
  BY Basics DEF Typed, Parts
<1>9. Distinct'
  BY <1>1, <1>6, <1>7, <1>8 DEF Distinct, Fetching
<1>10. InPlace'
  BY <1>1, <1>6, <1>7 DEF InPlace, Offset, Start, PartSize
<1>11. OneRepresentation'
  BY <1>1 DEF OneRepresentation
<1> QED
  BY <1>3, <1>5, <1>9, <1>10, <1>11

\* A response is accepted from the pinned file only, from the writer's offset.
LEMMA OpenRangeKeeps ==
  ASSUME IInv, NEW w \in Workers, NEW u \in Urls, OpenRange(w, u)
  PROVE  IInv'
<1> USE DEF IInv
<1>1. /\ UNCHANGED <<version, main, ranged, end, from, pinned, content, written, part, next>>
      /\ work[w] = "open" /\ work' = [work EXCEPT ![w] = "body"]
      /\ body' = [body EXCEPT ![w] = Byte(Served(u), Offset(part[w]))]
      /\ Accepted(Served(u))
  BY DEF OpenRange, Ask, serverVars, firstVars, bufferVars
<1>2. ~Joined
  BY <1>1 DEF Joined
<1>3. pinned = from /\ pinned \in Files
  BY <1>2 DEF Anchored
<1>4. Served(u) = from
  BY <1>1, <1>3 DEF Accepted, Served, Files
<1>5. Typed'
  BY <1>1 DEF Typed
<1>6. Early' /\ Anchored'
  BY <1>1, <1>2 DEF Early, Anchored, Opening
<1>7. Distinct'
  BY <1>1 DEF Distinct, Fetching, Typed
<1>8. body'[w] = Byte(from, Offset(part[w])) /\ \A v \in Workers : v # w => body'[v] = body[v] /\ work'[v] = work[v]
  BY <1>1, <1>4 DEF Typed
<1>9. \A v \in Workers : Offset(part[v])' = Offset(part[v])
  BY <1>1 DEF Offset, Start, PartSize
<1>10. InPlace'
  BY <1>1, <1>8, <1>9 DEF InPlace, Byte
<1>11. OneRepresentation'
  BY <1>1 DEF OneRepresentation
<1> QED
  BY <1>5, <1>6, <1>7, <1>10, <1>11

\* A byte is written at its own place, and only its part moves on.
LEMMA ReceiveRangeKeeps ==
  ASSUME IInv, NEW w \in Workers, ReceiveRange(w)
  PROVE  IInv'
<1> USE DEF IInv
<1> DEFINE i == part[w]
<1>1. /\ UNCHANGED <<version, main, ranged, end, from, pinned, part, next, work>>
      /\ work[w] = "body"
      /\ content' = [content EXCEPT ![Offset(i)] = body[w]]
      /\ written' = [written EXCEPT ![i] = @ + 1]
      /\ body' = [body EXCEPT ![w] = Byte(body[w].file, body[w].at + 1)]
  BY DEF ReceiveRange, serverVars, firstVars
<1>2. body[w] = Byte(from, Offset(i))
  BY <1>1 DEF InPlace
<1>3. Typed'
  BY <1>1 DEF Typed
<1>4. Early' /\ Anchored'
  <2>1. ~Joined
    BY <1>1 DEF Joined
  <2> QED
    BY <1>1, <2>1 DEF Early, Anchored, Opening, Joined
<1>5. Distinct'
  BY <1>1 DEF Distinct, Fetching
<1>6. OneRepresentation'
  BY <1>1, <1>2 DEF OneRepresentation, Typed
<1>7. i \in Parts /\ written[i] \in Int /\ Start(i) \in Int
  <2>1. PartSize \in Int /\ end \in Int
    BY PartFacts, RangeAssumption DEF Typed
  <2>2. i \in Parts /\ i \in Int
    BY Basics DEF Typed, Parts
  <2> QED
    BY <2>1, <2>2 DEF Typed, Start
<1>8. Offset(i)' = Offset(i) + 1
  <2>1. Start(i)' = Start(i)
    BY <1>1 DEF Start, PartSize
  <2>2. written'[i] = written[i] + 1
    BY <1>1, <1>7 DEF Typed
  <2>3. Offset(i)' = Start(i)' + written'[i]
    BY <1>1 DEF Offset
  <2>4. Offset(i) = Start(i) + written[i]
    BY DEF Offset
  <2> QED
    BY <1>7, <2>1, <2>2, <2>3, <2>4
<1>9. body'[w] = Byte(from', Offset(part[w])')
  BY <1>1, <1>2, <1>8 DEF Byte, Typed
<1>10. ASSUME NEW v \in Workers, v # w, work[v] = "body"
       PROVE  body'[v] = Byte(from', Offset(part[v])')
  <2>1. part[v] # i
    BY <1>1, <1>10 DEF Distinct, Fetching
  <2>2. written'[part[v]] = written[part[v]] /\ Start(part[v])' = Start(part[v])
    BY <1>1, <2>1 DEF Typed, Start, PartSize
  <2>3. Offset(part[v])' = Offset(part[v])
    BY <1>1, <2>2 DEF Offset
  <2>4. body'[v] = body[v]
    BY <1>1, <1>10 DEF Typed
  <2> QED
    BY <1>1, <1>10, <2>3, <2>4 DEF InPlace, Byte
<1>11. InPlace'
  <2> SUFFICES ASSUME NEW v \in Workers, work'[v] = "body"
               PROVE  body'[v] = Byte(from', Offset(part[v])')
    BY DEF InPlace, Byte
  <2> QED
    BY <1>1, <1>9, <1>10
<1> QED
  BY <1>3, <1>4, <1>5, <1>6, <1>11

\* Every step keeps the invariant.
LEMMA NextInv == IInv /\ [Next]_vars => IInv'
<1> SUFFICES ASSUME IInv, [Next]_vars PROVE IInv'
  OBVIOUS
<1>1. CASE QuietNext
  BY <1>1, QuietSteps, QuietKeeps DEF IInv
<1>2. CASE UNCHANGED vars
  <2>1. Quiet
    BY <1>2 DEF Quiet, vars, serverVars, firstVars, bufferVars, jobVars, IInv, Typed
  <2> QED
    BY <2>1, QuietKeeps
<1>3. ASSUME NEW u \in Urls, OpenPart(u) \/ OpenWhole(u) PROVE IInv'
  BY <1>3, OpenKeeps
<1>4. CASE Announce \/ Received
  BY <1>4, StartKeeps
<1>5. CASE Receive
  BY <1>5, ReceiveKeeps
<1>6. ASSUME NEW w \in Workers, Worker(w) PROVE IInv'
  <2>1. CASE \/ RangeFails(w) \/ RangeChanged(w) \/ Retry(w) \/ PartDone(w)
             \/ Take(w) /\ (Stopped \/ next >= Count)
    BY <2>1, MoveSteps, MoveKeeps DEF IInv
  <2>2. CASE Take(w) /\ ~(Stopped \/ next >= Count)
    BY <2>2, TakeKeeps
  <2>3. CASE ReceiveRange(w)
    BY <2>3, ReceiveRangeKeeps
  <2>4. ASSUME NEW u \in Urls, OpenRange(w, u) PROVE IInv'
    BY <2>4, OpenRangeKeeps
  <2> QED
    BY <1>6, <2>1, <2>2, <2>3, <2>4 DEF Worker
<1> QED
  BY <1>1, <1>2, <1>3, <1>4, <1>5, <1>6 DEF Next, Main, QuietNext

\* Whatever the servers, the redirects, the retries and the workers do, a buffer
\* holds bytes of one version of one file, each in its place.
THEOREM NoMixedFiles == Spec => []OneRepresentation
<1>1. IInv => OneRepresentation
  BY DEF IInv
<1> QED
  BY <1>1, InitInv, NextInv, PTL DEF Spec

-----------------------------------------------------------------------------
(* A success is the whole file *)

\* Workers run only between their announcement and finish; a complete buffer has
\* no holes and no writers, and only such a buffer is a success.
Ending == {"close", "stop", "wait", "done"}
Settled ==
  /\ main = "read" \/ (main = "body" /\ ~Split) => Joined
  /\ main \in {"complete", "hash"} => Joined
  /\ main = "hash" => data = "complete"
  /\ data = "complete" => /\ main \in Ending \cup {"hash"} /\ Joined
                          /\ \A o \in Offsets : content[o] # NoByte
  /\ ok => data = "complete" /\ main \in Ending

\* The first response, up to its end.
LEMMA SettledFirst ==
  ASSUME IInv, Settled,
         \/ \E u \in Urls : OpenPart(u) \/ OpenWhole(u)
         \/ OpenFails \/ Announce \/ Receive \/ ReceiveFails \/ Received
  PROVE  Settled'
<1> USE DEF Settled, Ending
<1>1. CASE \E u \in Urls : OpenPart(u) \/ OpenWhole(u)
  <2>1. Joined /\ work' = work /\ content' = content /\ ok' = ok /\ data' \in {data, "open"}
        /\ main' \in {"openWhole", "read"} /\ main \in Opening
    BY <1>1 DEF OpenPart, OpenWhole, IInv, Early, Opening
  <2> QED
    BY <2>1 DEF Joined, Opening
<1>2. CASE OpenFails \/ ReceiveFails
  BY <1>2 DEF OpenFails, ReceiveFails, Fail, Joined, bufferVars
<1>3. CASE Announce
  <2>1. UNCHANGED <<ranged, end, data, content, ok>> /\ main = "read" /\ main' = "body"
        /\ (~Split => work' = work)
    BY <1>3 DEF Announce, firstVars, bufferVars
  <2> QED
    BY <2>1 DEF Split, Joined
<1>4. CASE Receive
  <2>1. UNCHANGED <<ranged, end, data, ok, work, main>> /\ main \in {"read", "body"}
    BY <1>4 DEF Receive
  <2> QED
    BY <2>1 DEF Split, Joined
<1>5. CASE Received
  <2>1. UNCHANGED <<ranged, end, data, content, ok>> /\ main = "body"
        /\ (IF Split THEN main' = "parts" ELSE main' = "complete" /\ work' = work)
    BY <1>5 DEF Received, firstVars, bufferVars
  <2> QED
    BY <2>1 DEF Split, Joined
<1> QED
  BY <1>1, <1>2, <1>3, <1>4, <1>5

\* The workers.
LEMMA SettledWorker ==
  ASSUME IInv, Settled, NEW w \in Workers, Worker(w)
  PROVE  Settled'
<1>1. work[w] # "off" /\ UNCHANGED <<ranged, end, data, ok>> /\ (main' = main \/ main' = "join")
  <2> USE DEF FetchFails, WorkerEnds, firstVars, bufferVars
  <2>1. CASE Take(w) \/ PartDone(w)
    BY <2>1 DEF Take, PartDone
  <2>2. CASE RangeFails(w) \/ RangeChanged(w)
    BY <2>2 DEF RangeFails, RangeChanged
  <2>3. CASE Retry(w) \/ ReceiveRange(w)
    BY <2>3 DEF Retry, ReceiveRange
  <2>4. ASSUME NEW u \in Urls, OpenRange(w, u)
         PROVE  work[w] # "off" /\ UNCHANGED <<ranged, end, data, ok>> /\ (main' = main \/ main' = "join")
    BY <2>4 DEF OpenRange
  <2> QED
    BY <2>1, <2>2, <2>3, <2>4 DEF Worker
<1>2. ~Joined
  BY <1>1 DEF Joined
<1> QED
  BY <1>1, <1>2 DEF Settled, Ending, Split

\* The end of the attempt, and the environment.
LEMMA SettledEnd ==
  ASSUME IInv, Settled,
         \/ Finish \/ Complete \/ Validate \/ CloseData \/ Stop \/ Return
         \/ HashEnds \/ RetryElsewhere \/ EndContext \/ UNCHANGED vars
         \/ \E u \in Urls : Change(u)
  PROVE  Settled'
<1> USE DEF Settled, Ending, Fail, firstVars, bufferVars, serverVars
<1>1. CASE Finish
  BY <1>1 DEF Finish, Joined
<1>2. CASE Complete
  BY <1>2 DEF Complete, Joined
<1>3. CASE Validate
  BY <1>3 DEF Validate, Joined
<1>4. CASE CloseData
  BY <1>4 DEF CloseData, Joined
<1>5. CASE Stop \/ Return
  BY <1>5 DEF Stop, Return, Joined
<1>6. CASE HashEnds \/ RetryElsewhere \/ EndContext \/ UNCHANGED vars
  BY <1>6 DEF HashEnds, RetryElsewhere, EndContext, vars, Joined, Split
<1>7. CASE \E u \in Urls : Change(u)
  BY <1>7 DEF Change, Joined, Split
<1> QED
  BY <1>1, <1>2, <1>3, <1>4, <1>5, <1>6, <1>7

\* A download that reports success holds every byte of one version of one file,
\* and no worker can still write to it.
THEOREM SuccessIsComplete == Spec => []SuccessIsWhole
<1>1. Init => Settled
  BY DEF Init, Settled, Joined, Ending
<1>2. IInv /\ Settled /\ [Next]_vars => Settled'
  BY SettledFirst, SettledWorker, SettledEnd DEF Next, Main
<1>3. IInv /\ Settled => SuccessIsWhole
  BY DEF IInv, Settled, SuccessIsWhole, OneRepresentation
<1> QED
  BY <1>1, <1>2, <1>3, InitInv, NextInv, PTL DEF Spec

-----------------------------------------------------------------------------
(* Nothing is left running *)

\* Every slot is free or held by one extra worker that runs; a buffer that was
\* closed or completed stays so; what has ended before the return stays ended.
Extra == {w \in Workers \ {0} : work[w] # "off"}
Accounted == free \in Nat /\ free + Cardinality(Extra) = Slots
Released ==
  /\ main \in {"stop", "wait", "done"} => data # "open"
  /\ main = "done" => Joined /\ hash # "running"

\* There are finitely many workers.
LEMMA ExtraFinite == IsFiniteSet(Workers) /\ IsFiniteSet(Extra) /\ Cardinality(Extra) \in Nat
<1>1. IsFiniteSet(Workers)
  BY RangeAssumption, FS_Interval DEF Workers
<1>2. IsFiniteSet(Extra)
  BY <1>1, FS_Subset DEF Extra
<1> QED
  BY <1>1, <1>2, FS_CardinalityType

\* The least of three natural numbers.
LEMMA MinFacts ==
  ASSUME NEW a \in Nat, NEW b \in Nat, NEW c \in Nat
  PROVE  Min({a, b, c}) \in Nat /\ Min({a, b, c}) <= a /\ Min({a, b, c}) <= c
<1>1. \E x \in {a, b, c} : \A y \in {a, b, c} : x <= y
  <2>1. CASE a <= b /\ a <= c
    BY <2>1
  <2>2. CASE b <= a /\ b <= c
    BY <2>2
  <2>3. CASE c <= a /\ c <= b
    BY <2>3
  <2> QED BY <2>1, <2>2, <2>3
<1> QED
  BY <1>1 DEF Min

\* Workers are started with slots that are free, one each.
LEMMA AnnounceAccounted ==
  ASSUME IInv, Settled, Accounted, Announce
  PROVE  Accounted'
<1>1. main = "read" /\ Joined
  BY DEF Announce, Settled
<1>2. Extra = {} /\ free = Slots
  <2>1. Extra = {}
    BY <1>1 DEF Extra, Joined
  <2> QED
    BY <2>1, FS_EmptySet DEF Accounted
<1>3. CASE ~Split
  BY <1>3 DEF Announce, Accounted, Extra
<1>4. CASE Split
  <2> DEFINE k == Min({Connections - 1, Count, free})
  <2>1. work' = [w \in Workers |-> IF w \in 1..k THEN "loop" ELSE "off"] /\ free' = free - k
    BY <1>4 DEF Announce
  <2>2. Connections - 1 \in Nat /\ Count \in Nat /\ free \in Nat
    BY PartFacts, RangeAssumption DEF IInv, Typed, Accounted
  <2>3. k \in Nat /\ k <= Connections - 1 /\ k <= free
    BY <2>2, MinFacts
  <2> HIDE DEF k
  <2>4. Extra' = 1..k
    <3>1. 1..k \subseteq Workers \ {0}
      BY <2>3, RangeAssumption DEF Workers
    <3> QED
      BY <2>1, <3>1 DEF Extra
  <2>5. Cardinality(1..k) = k
    <3>1. Cardinality(1..k) = IF 1 > k THEN 0 ELSE k - 1 + 1
      BY <2>3, FS_Interval
    <3> QED
      BY <2>3, <3>1
  <2>6. free' \in Nat /\ free' + k = free
    BY <2>1, <2>2, <2>3
  <2> QED
    BY <1>2, <2>4, <2>5, <2>6 DEF Accounted
<1> QED
  BY <1>3, <1>4

\* A worker that ends gives back the one slot it held.
LEMMA WorkerAccounted ==
  ASSUME IInv, Accounted, NEW w \in Workers, Worker(w)
  PROVE  Accounted'
<1>1. /\ work[w] # "off"
      /\ \/ WorkerEnds(w)
         \/ free' = free /\ work'= [work EXCEPT ![w] = work'[w]] /\ work'[w] # "off"
  <2> DEFINE G == /\ work[w] # "off"
                  /\ \/ WorkerEnds(w)
                     \/ free' = free /\ work'= [work EXCEPT ![w] = work'[w]] /\ work'[w] # "off"
  <2> USE DEF FetchFails, IInv, Typed
  <2>1. CASE Take(w)
    BY <2>1 DEF Take
  <2>2. CASE PartDone(w)
    BY <2>2 DEF PartDone
  <2>3. CASE RangeFails(w) \/ RangeChanged(w)
    BY <2>3 DEF RangeFails, RangeChanged
  <2>4. CASE Retry(w)
    BY <2>4 DEF Retry
  <2>5. CASE ReceiveRange(w)
    BY <2>5 DEF ReceiveRange
  <2>6. ASSUME NEW u \in Urls, OpenRange(w, u) PROVE G
    BY <2>6 DEF OpenRange
  <2> QED
    BY <2>1, <2>2, <2>3, <2>4, <2>5, <2>6 DEF Worker
<1>2. CASE work' = [work EXCEPT ![w] = work'[w]] /\ work'[w] # "off" /\ free' = free
  <2>1. Extra' = Extra
    BY <1>1, <1>2 DEF Extra, IInv, Typed
  <2> QED
    BY <1>2, <2>1 DEF Accounted
<1>3. CASE WorkerEnds(w) /\ w = 0
  <2>1. Extra' = Extra /\ free' = free
    BY <1>3 DEF WorkerEnds, Extra, IInv, Typed
  <2> QED
    BY <2>1 DEF Accounted
<1>4. CASE WorkerEnds(w) /\ w # 0
  <2>1. Extra' = Extra \ {w} /\ w \in Extra /\ free' = free + 1
    BY <1>1, <1>4 DEF WorkerEnds, Extra, IInv, Typed
  <2>2. Cardinality(Extra \ {w}) = Cardinality(Extra) - 1
    BY <2>1, ExtraFinite, FS_RemoveElement
  <2> QED
    BY <2>1, <2>2, ExtraFinite DEF Accounted
<1> QED
  BY <1>1, <1>2, <1>3, <1>4

\* No other step takes a slot or gives one back.
LEMMA OthersAccounted ==
  ASSUME Accounted, IInv,
         \/ QuietNext \/ Receive \/ Received \/ UNCHANGED vars
         \/ \E u \in Urls : OpenPart(u) \/ OpenWhole(u)
  PROVE  Accounted'
<1>1. CASE Received
  <2>1. Extra' = Extra /\ free' = free
    BY <1>1 DEF Received, Extra, IInv, Typed
  <2> QED
    BY <2>1 DEF Accounted
<1>2. CASE QuietNext \/ Receive \/ UNCHANGED vars \/ \E u \in Urls : OpenPart(u) \/ OpenWhole(u)
  <2>1. UNCHANGED <<work, free>>
    <3>1. CASE OpenFails \/ ReceiveFails \/ Finish \/ Complete \/ Validate
      BY <3>1 DEF OpenFails, ReceiveFails, Finish, Complete, Validate
    <3>2. CASE CloseData \/ Stop \/ Return \/ HashEnds \/ RetryElsewhere \/ EndContext
      BY <3>2 DEF CloseData, Stop, Return, HashEnds, RetryElsewhere, EndContext
    <3>3. CASE Receive \/ UNCHANGED vars
      BY <3>3 DEF Receive, vars
    <3>4. CASE \E u \in Urls : OpenPart(u) \/ OpenWhole(u) \/ Change(u)
      BY <3>4 DEF OpenPart, OpenWhole, Change
    <3> QED
      BY <1>2, <3>1, <3>2, <3>3, <3>4 DEF QuietNext
  <2> QED
    BY <2>1 DEF Accounted, Extra
<1> QED
  BY <1>1, <1>2

\* The deferred function closes the buffer, then waits for everything it started.
LEMMA ReleasedKept ==
  ASSUME IInv, Settled, Released, [Next]_vars
  PROVE  Released'
<1> USE DEF Released
<1>1. CASE \E u \in Urls : OpenPart(u) \/ OpenWhole(u)
  BY <1>1 DEF OpenPart, OpenWhole
<1>2. CASE OpenFails \/ ReceiveFails \/ Finish
  BY <1>2 DEF OpenFails, ReceiveFails, Finish, Fail
<1>3. CASE Announce \/ Receive \/ Received
  BY <1>3 DEF Announce, Receive, Received
<1>4. CASE Complete \/ Validate
  BY <1>4 DEF Complete, Validate, Fail
<1>5. CASE CloseData
  BY <1>5 DEF CloseData, Settled
<1>6. CASE Stop \/ Return
  BY <1>6 DEF Stop, Return, Joined, bufferVars
<1>7. CASE HashEnds
  BY <1>7 DEF HashEnds, Joined, bufferVars
<1>8. CASE RetryElsewhere \/ EndContext \/ UNCHANGED vars
  BY <1>8 DEF RetryElsewhere, EndContext, vars, Joined, bufferVars
<1>9. CASE \E u \in Urls : Change(u)
  BY <1>9 DEF Change, Joined, bufferVars
<1>10. ASSUME NEW w \in Workers, Worker(w) PROVE Released'
  <2>1. work[w] # "off" /\ data' = data /\ (main' = main \/ main' = "join")
    <3> USE DEF FetchFails, WorkerEnds, bufferVars
    <3>1. CASE Take(w) \/ PartDone(w)
      BY <3>1 DEF Take, PartDone
    <3>2. CASE RangeFails(w) \/ RangeChanged(w)
      BY <3>2 DEF RangeFails, RangeChanged
    <3>3. CASE Retry(w) \/ ReceiveRange(w)
      BY <3>3 DEF Retry, ReceiveRange
    <3>4. ASSUME NEW u \in Urls, OpenRange(w, u)
           PROVE  work[w] # "off" /\ data' = data /\ (main' = main \/ main' = "join")
      BY <3>4 DEF OpenRange
    <3> QED
      BY <1>10, <3>1, <3>2, <3>3, <3>4 DEF Worker
  <2>2. ~Joined
    BY <2>1 DEF Joined
  <2> QED
    BY <2>1, <2>2
<1> QED
  BY <1>1, <1>2, <1>3, <1>4, <1>5, <1>6, <1>7, <1>8, <1>9, <1>10 DEF Next, Main

\* However an attempt ends, downloadOnce returns after its workers and its hasher,
\* with its buffer closed or complete and every extra transfer slot given back.
THEOREM NothingRuns == Spec => []NothingLeftRunning
<1> DEFINE J == IInv /\ Settled /\ Accounted /\ Released
<1>1. Init => J
  <2> SUFFICES ASSUME Init PROVE Settled /\ Accounted /\ Released
    BY InitInv
  <2>1. Settled /\ Released
    BY DEF Init, Settled, Joined, Ending, Released
  <2>2. Extra = {} /\ free = Slots
    BY DEF Init, Extra
  <2>3. Slots \in Nat
    BY RangeAssumption
  <2> QED
    BY <2>1, <2>2, <2>3, FS_EmptySet DEF Accounted
<1>2. J /\ [Next]_vars => J'
  <2> SUFFICES ASSUME J, [Next]_vars PROVE J'
    OBVIOUS
  <2>1. IInv' /\ Settled' /\ Released'
    BY NextInv, SettledFirst, SettledWorker, SettledEnd, ReleasedKept DEF Next, Main
  <2>2. Accounted'
    <3>1. ASSUME NEW w \in Workers, Worker(w) PROVE Accounted'
      BY <3>1, WorkerAccounted
    <3>2. CASE Announce
      BY <3>2, AnnounceAccounted
    <3>3. CASE \/ QuietNext \/ Receive \/ Received \/ UNCHANGED vars
               \/ \E u \in Urls : OpenPart(u) \/ OpenWhole(u)
      BY <3>3, OthersAccounted
    <3> QED
      BY <3>1, <3>2, <3>3 DEF Next, Main, QuietNext
  <2> QED
    BY <2>1, <2>2
<1>3. J => NothingLeftRunning
  <2> SUFFICES ASSUME J, main = "done" PROVE Joined /\ hash # "running" /\ free = Slots /\ data # "open"
    BY DEF NothingLeftRunning
  <2>1. Joined /\ hash # "running" /\ data # "open"
    BY DEF Released
  <2>2. Extra = {}
    BY <2>1 DEF Extra, Joined
  <2> QED
    BY <2>1, <2>2, FS_EmptySet DEF Accounted
<1> QED
  BY <1>1, <1>2, <1>3, PTL DEF Spec
=============================================================================
