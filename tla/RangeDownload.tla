---------------------------- MODULE RangeDownload ----------------------------
(***************************************************************************)
(* One attempt to download media: downloadOnce and rangeJob of             *)
(* internal/platform/download.go.                                          *)
(*                                                                         *)
(* The first response carries the start of the file and pins its address   *)
(* and strong ETag.  The rest is cut into parts that the main goroutine    *)
(* and, as far as transfer slots are free, extra workers fetch with        *)
(* If-Range requests, each resumed where it broke off.  Meanwhile the file *)
(* may change and a request may be redirected elsewhere.  A failed attempt *)
(* closes its buffer and joins its workers.                                *)
(*                                                                         *)
(* The servers are the environment: an address serves one version of its   *)
(* file at a time, and all files have Total bytes (a file of another size  *)
(* is refused like a wrong range).  A byte is the file it came from and its*)
(* position there.                                                         *)
(***************************************************************************)
EXTENDS Integers, FiniteSetsExt

CONSTANTS
  Urls,         \* addresses a request may end at, redirects followed
  Total,        \* bytes of the file
  MinPart,      \* minPart
  Connections,  \* cfg.DownloadParts
  Retries,      \* max(1, cfg.DownloadRetries) of a part
  Allowance,    \* retries the operation has left for all stages
  Slots,        \* free slots of d.gate
  MaxVersion    \* bound on the versions of a file

ASSUME RangeAssumption ==
  /\ {Total, MinPart, Connections, Retries} \subseteq Nat \ {0}
  /\ {Allowance, Slots, MaxVersion} \subseteq Nat

Files == Urls \X (0..MaxVersion)
NoFile == <<>>
Offsets == 0..(Total - 1)
NoByte == [file |-> NoFile, at |-> -1]
Byte(f, o) == [file |-> f, at |-> o]
Workers == 0..(Connections - 1)        \* 0 is the main goroutine in finish
Parts == Offsets                       \* indices of parts

VARIABLES
  version,    \* servers: the version each address serves
  tagged,     \* servers: responses have strong ETags
  (* downloadOnce *)
  main,       \* where the main goroutine is
  ended,      \* ctx has ended
  ranged,     \* the response is a part of the file
  end,        \* bytes the first response carries
  from,       \* the file of the first response, or of the whole one
  received,   \* bytes of it that were written
  pinned,     \* the representation all parts must have
  content,    \* what the spool buffer holds
  data,       \* the buffer: "none", "open", "complete", "closed"
  hash,       \* the hasher of the ready prefix: "off", "running", "ok", "failed"
  ok,         \* succeeded
  (* rangeJob *)
  next,       \* j.next
  written,    \* written[i]: bytes the writer of part i took
  work,       \* each worker: "off", "loop", "open", "body", "sleep"
  part,       \* the index of its part
  tries,      \* failed attempts of its fetch
  body,       \* the next byte of the response it reads
  jobErr,     \* j.err # nil
  cancelled,  \* j.cancel was called
  (* shared with other downloads and stages *)
  allowance,  \* retries core.AllowRetry still grants
  free        \* free slots of d.gate

serverVars == <<version, tagged>>
firstVars == <<ranged, end, from, received, pinned>>
bufferVars == <<content, data>>
jobVars == <<next, written, part, tries, body>>
stopVars == <<jobErr, cancelled>>
vars == <<serverVars, main, ended, firstVars, bufferVars, hash, ok, jobVars, work,
          stopVars, allowance, free>>

Init ==
  /\ version = [u \in Urls |-> 0] /\ tagged \in BOOLEAN
  /\ main = "open" /\ ended = FALSE
  /\ ranged = FALSE /\ end = 0 /\ from = NoFile /\ received = 0 /\ pinned = NoFile
  /\ content = [o \in Offsets |-> NoByte] /\ data = "none"
  /\ hash = "off" /\ ok = FALSE
  /\ next = 0 /\ written = [i \in Parts |-> 0]
  /\ work = [w \in Workers |-> "off"] /\ part = [w \in Workers |-> 0]
  /\ tries = [w \in Workers |-> 0] /\ body = [w \in Workers |-> NoByte]
  /\ jobErr = FALSE /\ cancelled = FALSE
  /\ allowance = Allowance /\ free = Slots

\* The file an address serves now.
Served(u) == <<u, version[u]>>
Stopped == ended \/ cancelled             \* j.ctx.Err() # nil

\* startRanges: two parts per connection, none smaller than MinPart.
Ceil(n, d) == (n + d - 1) \div d
PartSize == Max({MinPart, Ceil(Total - end, 2 * Connections)})
Count == Ceil(Total - end, PartSize)
Start(i) == end + i * PartSize
End(i) == Min({Start(i) + PartSize, Total})
Offset(i) == Start(i) + written[i]        \* Writer.Offset

Joined == \A w \in Workers : work[w] = "off"     \* j.workers.Wait returned

-----------------------------------------------------------------------------
(* downloadOnce: the first response *)

\* An early return: the deferred function runs.
Fail ==
  /\ main' = "close" /\ ok' = FALSE

\* 206: the start of the file, of a length the server chooses.  Without a strong
\* ETag the rest could come from another file: the whole file is asked for.  A
\* checksum of parts starts a hasher.
OpenPart(u) ==
  /\ main = "open" /\ Connections > 1 /\ ~ended
  /\ \E n \in 1..Total :
       /\ end' = n /\ ranged' = TRUE
       /\ IF n < Total /\ ~tagged
          THEN main' = "openWhole" /\ UNCHANGED <<from, pinned, data, hash>>
          ELSE /\ main' = "read" /\ from' = Served(u) /\ pinned' = Served(u) /\ data' = "open"
               /\ hash' \in IF n < Total THEN {"off", "running"} ELSE {"off"}
  /\ UNCHANGED <<serverVars, ended, received, content, ok, jobVars, work, stopVars, allowance,
                 free>>

\* 200: the whole file, asked for or not.
OpenWhole(u) ==
  /\ main \in {"open", "openWhole"} /\ ~ended
  /\ main' = "read" /\ ranged' = FALSE /\ end' = Total
  /\ from' = Served(u) /\ data' = "open"
  /\ UNCHANGED <<serverVars, ended, received, pinned, content, hash, ok, jobVars, work,
                 stopVars, allowance, free>>

\* A failed request, another status, an invalid range, a file over the limit.
OpenFails ==
  /\ main \in {"open", "openWhole"}
  /\ Fail
  /\ UNCHANGED <<serverVars, ended, firstVars, bufferVars, hash, jobVars, work, stopVars,
                 allowance, free>>

\* announce: the first bytes are valid media.  Parts are started, each worker
\* with a slot that is free now.
Split == ranged /\ end < Total
Announce ==
  /\ main = "read"
  /\ main' = "body"
  /\ IF Split
     THEN LET k == Min({Connections - 1, Count, free}) IN
          /\ work' = [w \in Workers |-> IF w \in 1..k THEN "loop" ELSE "off"]
          /\ free' = free - k
     ELSE UNCHANGED <<work, free>>
  /\ UNCHANGED <<serverVars, ended, firstVars, bufferVars, hash, ok, jobVars, stopVars,
                 allowance>>

\* Write of the next bytes of this response.  The first 512 are written before
\* they are announced when they come in several reads, or end the response.
Receive ==
  /\ main \in {"read", "body"} /\ received < end
  /\ content' = [content EXCEPT ![received] = Byte(from, received)]
  /\ received' = received + 1
  /\ UNCHANGED <<serverVars, main, ended, ranged, end, from, pinned, data, hash, ok, jobVars,
                 work, stopVars, allowance, free>>

\* Unsupported media, a broken or too long response, the context.
ReceiveFails ==
  /\ main \in {"read", "body"}
  /\ Fail
  /\ UNCHANGED <<serverVars, ended, firstVars, bufferVars, hash, jobVars, work, stopVars,
                 allowance, free>>

\* EOF: the main goroutine becomes a worker, with its own transfer slot.
Received ==
  /\ main = "body" /\ received = end
  /\ IF Split THEN main' = "parts" /\ work' = [work EXCEPT ![0] = "loop"]
              ELSE main' = "complete" /\ UNCHANGED work
  /\ UNCHANGED <<serverVars, ended, firstVars, bufferVars, hash, ok, jobVars, stopVars,
                 allowance, free>>

-----------------------------------------------------------------------------
(* work, fetch and fetchOnce of each worker *)

\* work returns; an extra worker gives its slot back.
WorkerEnds(w) ==
  /\ work' = [work EXCEPT ![w] = "off"]
  /\ IF w = 0 THEN main' = "join" /\ UNCHANGED free
             ELSE free' = free + 1 /\ UNCHANGED main

\* fetch returned an error: the job ends.
FetchFails(w) ==
  /\ WorkerEnds(w)
  /\ jobErr' = TRUE /\ cancelled' = TRUE
  /\ UNCHANGED tries

Take(w) ==
  /\ work[w] = "loop"
  /\ IF Stopped \/ next >= Count
     THEN WorkerEnds(w) /\ UNCHANGED <<part, tries>>
     ELSE /\ work' = [work EXCEPT ![w] = "open"]
          /\ part' = [part EXCEPT ![w] = next] /\ tries' = [tries EXCEPT ![w] = 0]
          /\ UNCHANGED <<main, free>>
  /\ next' = IF Stopped THEN next ELSE next + 1
  /\ UNCHANGED <<serverVars, ended, firstVars, bufferVars, hash, ok, written, body, stopVars,
                 allowance>>

\* A response of another address is no part of this file, and one with another
\* ETag is of another version.  An ETag tells only versions of one address apart.
MutantAccepted(f) == f[2] = pinned[2]
Accepted(f) == f[1] = pinned[1] /\ f[2] = pinned[2]

\* The range asked for starts where the writer of the part stands.
MutantAsk(w) == Start(part[w])
Ask(w) == Offset(part[w])

OpenRange(w, u) ==
  /\ work[w] = "open" /\ Accepted(Served(u))
  /\ Ask(w) < End(part[w])
  /\ work' = [work EXCEPT ![w] = "body"]
  /\ body' = [body EXCEPT ![w] = Byte(Served(u), Ask(w))]
  /\ UNCHANGED <<serverVars, main, ended, firstVars, bufferVars, hash, ok, next, written, part,
                 tries, stopVars, allowance, free>>

\* Any other response, a response that breaks off, a write into a closed buffer:
\* another attempt, if the part and the operation have one left.
RangeFails(w) ==
  /\ work[w] \in {"open", "body"}
  /\ IF ~Stopped /\ tries[w] + 1 < Retries /\ allowance > 0
     THEN /\ work' = [work EXCEPT ![w] = "sleep"] /\ tries' = [tries EXCEPT ![w] = @ + 1]
          /\ UNCHANGED <<main, stopVars, free>>
     ELSE FetchFails(w)
  /\ UNCHANGED <<serverVars, ended, firstVars, bufferVars, hash, ok, next, written, part, body,
                 allowance>>

\* errChanged, or an identity that needs recovery: nothing to try again.
RangeChanged(w) ==
  /\ work[w] = "open"
  /\ FetchFails(w)
  /\ UNCHANGED <<serverVars, ended, firstVars, bufferVars, hash, ok, next, written, part, body,
                 allowance>>

\* The delay is over; another stage may have taken the last retry meanwhile.
Retry(w) ==
  /\ work[w] = "sleep"
  /\ IF Stopped \/ allowance = 0 THEN FetchFails(w) /\ UNCHANGED allowance
     ELSE /\ work' = [work EXCEPT ![w] = "open"] /\ allowance' = allowance - 1
          /\ UNCHANGED <<main, tries, stopVars, free>>
  /\ UNCHANGED <<serverVars, ended, firstVars, bufferVars, hash, ok, next, written, part, body>>

\* The writer of the part takes the next bytes.
ReceiveRange(w) ==
  LET i == part[w]  b == body[w] IN
  /\ work[w] = "body" /\ data = "open"
  /\ Offset(i) < End(i)
  /\ content' = [content EXCEPT ![Offset(i)] = b]
  /\ written' = [written EXCEPT ![i] = @ + 1]
  /\ body' = [body EXCEPT ![w] = Byte(b.file, b.at + 1)]
  /\ UNCHANGED <<serverVars, main, ended, firstVars, data, hash, ok, next, work, part, tries,
                 stopVars, allowance, free>>

PartDone(w) ==
  /\ work[w] = "body" /\ Offset(part[w]) = End(part[w])
  /\ work' = [work EXCEPT ![w] = "loop"]
  /\ UNCHANGED <<serverVars, main, ended, firstVars, bufferVars, hash, ok, jobVars, stopVars,
                 allowance, free>>

-----------------------------------------------------------------------------
(* The end of downloadOnce *)

\* finish: every worker is back.
Finish ==
  /\ main = "join" /\ Joined
  /\ IF jobErr \/ Stopped THEN Fail ELSE main' = "complete" /\ UNCHANGED ok
  /\ UNCHANGED <<serverVars, ended, firstVars, bufferVars, hash, jobVars, work, stopVars,
                 allowance, free>>

\* Buffer.Complete refuses a buffer with holes.
Complete ==
  /\ main = "complete"
  /\ IF ended \/ \E o \in Offsets : content[o] = NoByte
     THEN Fail /\ UNCHANGED data
     ELSE data' = "complete" /\ main' = "hash" /\ UNCHANGED ok
  /\ UNCHANGED <<serverVars, ended, firstVars, content, hash, jobVars, work, stopVars,
                 allowance, free>>

\* The hasher read the whole buffer, or was stopped.
HashEnds ==
  /\ hash = "running"
  /\ \/ data = "complete" /\ hash' = "ok"
     \/ (data = "closed" \/ ended) /\ hash' = "failed"
  /\ UNCHANGED <<serverVars, main, ended, firstVars, bufferVars, ok, jobVars, work, stopVars,
                 allowance, free>>

\* The checksum is joined and the media is valid, or the attempt fails.
Validate ==
  /\ main = "hash" /\ hash # "running"
  /\ \/ hash # "failed" /\ ~ended /\ ok' = TRUE /\ main' = "close"
     \/ Fail
  /\ UNCHANGED <<serverVars, ended, firstVars, bufferVars, hash, jobVars, work, stopVars,
                 allowance, free>>

\* The deferred function: Close, stop, and the hasher.
MutantCloseData ==
  /\ main = "close" /\ main' = "stop"
  /\ UNCHANGED <<serverVars, ended, firstVars, bufferVars, hash, ok, jobVars, work, stopVars,
                 allowance, free>>
CloseData ==
  /\ main = "close" /\ main' = "stop"
  /\ data' = IF ok \/ data = "none" THEN data ELSE "closed"
  /\ UNCHANGED <<serverVars, ended, firstVars, content, hash, ok, jobVars, work, stopVars,
                 allowance, free>>

Stop ==
  /\ main = "stop" /\ main' = "wait"
  /\ cancelled' = TRUE
  /\ UNCHANGED <<serverVars, ended, firstVars, bufferVars, hash, ok, jobVars, work, jobErr,
                 allowance, free>>

MutantReturn ==
  /\ main = "wait" /\ hash # "running"
  /\ main' = "done"
  /\ UNCHANGED <<serverVars, ended, firstVars, bufferVars, hash, ok, jobVars, work, stopVars,
                 allowance, free>>
Return ==
  /\ main = "wait" /\ Joined /\ hash # "running"
  /\ main' = "done"
  /\ UNCHANGED <<serverVars, ended, firstVars, bufferVars, hash, ok, jobVars, work, stopVars,
                 allowance, free>>

-----------------------------------------------------------------------------
(* The environment *)

Change(u) ==
  /\ version[u] < MaxVersion
  /\ version' = [version EXCEPT ![u] = @ + 1]
  /\ UNCHANGED <<tagged, main, ended, firstVars, bufferVars, hash, ok, jobVars, work, stopVars,
                 allowance, free>>

\* Another stage of the operation uses a retry.
RetryElsewhere ==
  /\ allowance > 0 /\ allowance' = allowance - 1
  /\ UNCHANGED <<serverVars, main, ended, firstVars, bufferVars, hash, ok, jobVars, work,
                 stopVars, free>>

EndContext ==
  /\ ~ended /\ ended' = TRUE
  /\ UNCHANGED <<serverVars, main, firstVars, bufferVars, hash, ok, jobVars, work, stopVars,
                 allowance, free>>

-----------------------------------------------------------------------------

Main ==
  \/ \E u \in Urls : OpenPart(u) \/ OpenWhole(u)
  \/ OpenFails \/ Announce \/ Receive \/ ReceiveFails \/ Received
  \/ Finish \/ Complete \/ Validate \/ CloseData \/ Stop \/ Return

Worker(w) ==
  \/ Take(w) \/ RangeFails(w) \/ RangeChanged(w) \/ Retry(w) \/ ReceiveRange(w) \/ PartDone(w)
  \/ \E u \in Urls : OpenRange(w, u)

Next ==
  \/ Main \/ HashEnds \/ RetryElsewhere \/ EndContext
  \/ \E w \in Workers : Worker(w)
  \/ \E u \in Urls : Change(u)

\* Every goroutine that can run does: requests and reads end, at the latest with
\* the timeouts of openTimed and of the download.
Fairness == WF_vars(Main) /\ WF_vars(HashEnds) /\ \A w \in Workers : WF_vars(Worker(w))

Spec == Init /\ [][Next]_vars
FairSpec == Spec /\ Fairness

-----------------------------------------------------------------------------
(* Properties *)

Bytes == [file : Files \cup {NoFile}, at : -1..Total]

TypeOK ==
  /\ version \in [Urls -> 0..MaxVersion] /\ {tagged, ended, ranged, ok, jobErr, cancelled} \subseteq BOOLEAN
  /\ main \in {"open", "openWhole", "read", "body", "parts", "join", "complete", "hash",
               "close", "stop", "wait", "done"}
  /\ end \in 0..Total /\ received \in 0..end
  /\ from \in Files \cup {NoFile} /\ pinned \in Files \cup {NoFile}
  /\ content \in [Offsets -> Bytes]
  /\ data \in {"none", "open", "complete", "closed"}
  /\ hash \in {"off", "running", "ok", "failed"}
  /\ next \in Nat /\ written \in [Parts -> Nat]
  /\ work \in [Workers -> {"off", "loop", "open", "body", "sleep"}]
  /\ part \in [Workers -> Parts] /\ tries \in [Workers -> 0..(Retries - 1)]
  /\ body \in [Workers -> Bytes]
  /\ allowance \in Nat /\ free \in Nat

\* Whatever a reader of the buffer may already have passed on, it came from one
\* version of one file, each byte from its place: parts of different files, or
\* a part resumed at the wrong byte, are never mixed.
OneRepresentation ==
  \A o \in Offsets : content[o] # NoByte => content[o] = Byte(from, o)

\* A download that succeeds holds the whole file, and nobody writes to it any
\* more.
SuccessIsWhole ==
  ok => /\ data = "complete" /\ Joined
        /\ \A o \in Offsets : content[o] = Byte(from, o)

\* When downloadOnce returns, its workers and its hasher have ended and every
\* extra transfer slot is free again.
NothingLeftRunning ==
  main = "done" => Joined /\ hash # "running" /\ free = Slots /\ data # "open"

\* Every download ends.
EveryDownloadEnds == <>(main = "done")
=============================================================================
