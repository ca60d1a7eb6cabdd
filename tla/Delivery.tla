------------------------------ MODULE Delivery -------------------------------
(***************************************************************************)
(* One TikTok delivery to Telegram: send, sendStreamed, sendSingle and the *)
(* album loop of internal/httpapi/telegram.go, call of telegram_client.go, *)
(* operationTerminal of operation.go, over the shared Operation.           *)
(*                                                                         *)
(* A single video, sound or document is uploaded while it downloads.  Each *)
(* transfer that knows its length starts an upload, whose last bytes wait  *)
(* at a gate; the gate of the final transfer's upload opens once the media *)
(* is validated and the identity lease is back.  A transfer that failed, or*)
(* an identity that was recovered, begins a new transfer.  Everything else *)
(* is prepared completely and sent in one or more requests, one after the  *)
(* other.  The goroutines are the main one, the preparation, and one per   *)
(* upload; Telegram and the network are the environment.                   *)
(***************************************************************************)
EXTENDS Operation, FiniteSets

CONSTANT NumBatches   \* requests an album needs

ASSUME DeliveryAssumption == NumBatches \in Nat \ {0}

Streams == 1..MaxAttempts              \* uploads of transfers, by transfer
Direct(k) == MaxAttempts + k           \* the k-th request of prepared media
Uploads == 1..(MaxAttempts + NumBatches)
None == 0
Replies == {"ok", "rejected", "unclear"}
Over == Replies \cup {"error"}         \* call returned

VARIABLES
  streamed,   \* sendStreamed, or a delivery of completely prepared media
  main,       \* where the main goroutine is
  prep,       \* preparation: "off", "running", "failing", "ok", "failed"
  leased,     \* the identity lease is out
  transfer,   \* the running transfer
  buffer,     \* of each transfer: "none", "open", "complete", "closed"
  call,       \* of each upload: "none", "pending" on the channel starts,
              \* "launched", "sending", or a member of Over
  gate,       \* uploads whose last bytes may be sent
  stopped,    \* uploads whose context sendStreamed cancelled
  cancelled,  \* sendStreamed's own context
  batch,      \* the number of the request being sent
  outcome,    \* DeliveryEvent.Outcome; "none" is the empty string
  succeeded,  \* DeliveryEvent.Succeeded
  err,        \* the error deliver returns is not nil
  report,     \* the terminal event
  (* Telegram *)
  sent,       \* uploads whose whole body arrived
  processed,  \* uploads Telegram turned into a message
  refused,    \* uploads Telegram answered with ok:false and a 4xx code
  (* history *)
  late        \* refused uploads whose refusal was read after the commit to another

prepVars == <<prep, leased, transfer, buffer>>
resultVars == <<batch, outcome, succeeded, err>>
telegramVars == <<sent, processed, refused, late>>
vars == <<opVars, prepVars, resultVars, telegramVars, streamed, main, call, gate, stopped,
          cancelled, report>>

NoReport == [state |-> "none", safe |-> FALSE, outcome |-> "none"]

Init ==
  /\ OperationInit
  /\ streamed \in BOOLEAN
  /\ main = "extract" /\ prep = "off" /\ leased = FALSE /\ transfer = None
  /\ buffer = [t \in Streams |-> "none"]
  /\ call = [u \in Uploads |-> "none"]
  /\ gate = {} /\ stopped = {} /\ cancelled = FALSE
  /\ batch = 1 /\ outcome = "none" /\ succeeded = 0 /\ err = FALSE
  /\ report = NoReport
  /\ sent = {} /\ processed = {} /\ refused = {} /\ late = {}

Dead == ended \/ cancelled              \* ctx.Err() # nil in sendStreamed
Set(u, s) == call' = [call EXCEPT ![u] = s]

-----------------------------------------------------------------------------
(* Preparation: extraction, and withDeliveryIdentity around prepare *)

\* Resolution and extraction share the retries.
ExtractRetry ==
  /\ main = "extract" /\ AllowRetry
  /\ UNCHANGED <<prepVars, resultVars, telegramVars, streamed, main, call, gate, stopped,
                 cancelled, report>>

ExtractFails ==
  /\ main = "extract"
  /\ err' = TRUE /\ main' = "cleanup"
  /\ UNCHANGED <<opVars, prepVars, batch, outcome, succeeded, telegramVars, streamed, call,
                 gate, stopped, cancelled, report>>

\* send starts; the identity is leased and the first transfer begins.
Prepare ==
  /\ main = "extract" /\ ~Dead
  /\ main' = "select" /\ prep' = "running" /\ leased' = TRUE /\ transfer' = 1
  /\ buffer' = [buffer EXCEPT ![1] = "open"]
  /\ UNCHANGED <<opVars, resultVars, telegramVars, streamed, call, gate, stopped, cancelled,
                 report>>

\* The transfer knows its length; a goroutine offers it on starts.
Announce ==
  /\ streamed /\ prep = "running" /\ ~Dead
  /\ buffer[transfer] = "open" /\ call[transfer] = "none"
  /\ Set(transfer, "pending")
  /\ UNCHANGED <<opVars, prepVars, resultVars, telegramVars, streamed, main, gate, stopped,
                 cancelled, report>>

\* The offer ends with the context, or with the prepare it belongs to.
Withdraw(t) ==
  /\ call[t] = "pending" /\ (Dead \/ prep = "failing")
  /\ Set(t, "none")
  /\ UNCHANGED <<opVars, prepVars, resultVars, telegramVars, streamed, main, gate, stopped,
                 cancelled, report>>

TransferEnds(to) ==
  /\ prep = "running" /\ buffer[transfer] = "open"
  /\ to = "complete" => ~Dead
  /\ buffer' = [buffer EXCEPT ![transfer] = to]
  /\ UNCHANGED <<opVars, prep, leased, transfer, resultVars, telegramVars, streamed, main, call,
                 gate, stopped, cancelled, report>>

\* A byte range of the transfer is fetched again.
RangeRetry ==
  /\ prep = "running" /\ buffer[transfer] = "open"
  /\ ~cancelled /\ AllowRetry
  /\ UNCHANGED <<prepVars, resultVars, telegramVars, streamed, main, call, gate, stopped,
                 cancelled, report>>

Replace ==
  /\ transfer < MaxAttempts /\ transfer' = transfer + 1
  /\ buffer' = [buffer EXCEPT ![transfer] = "closed", ![transfer + 1] = "open"]

\* download tries again, in the same prepare.
MediaRetry ==
  /\ prep = "running" /\ buffer[transfer] = "closed"
  /\ ~cancelled /\ AllowRetry
  /\ IF ended' THEN UNCHANGED <<transfer, buffer>> ELSE Replace
  /\ UNCHANGED <<prep, leased, resultVars, telegramVars, streamed, main, call, gate, stopped,
                 cancelled, report>>

\* download gives up; an operation without retries left, or an error that none
\* can mend.
DownloadFails ==
  /\ prep = "running" /\ buffer[transfer] = "closed"
  /\ prep' = "failing"
  /\ UNCHANGED <<opVars, leased, transfer, buffer, resultVars, telegramVars, streamed, main,
                 call, gate, stopped, cancelled, report>>

\* announcements.Wait: prepare returns once nothing is offered any more.
Announced == \A t \in Streams : call[t] # "pending"
Prepared == prep = "running" /\ buffer[transfer] = "complete" /\ Announced

\* The identity needs recovery: prepare runs again, also after it succeeded.
Recover ==
  /\ Prepared \/ (prep = "failing" /\ Announced)
  /\ ~cancelled /\ AllowRetry
  /\ IF ended' THEN UNCHANGED <<prep, transfer, buffer>> ELSE Replace /\ prep' = "running"
  /\ UNCHANGED <<leased, resultVars, telegramVars, streamed, main, call, gate, stopped,
                 cancelled, report>>

\* The lease is returned and the result is in the channel finished.
PrepEnds ==
  /\ Prepared \/ (prep = "failing" /\ Announced)
  /\ prep' = IF Prepared THEN "ok" ELSE "failed"
  /\ leased' = FALSE
  /\ UNCHANGED <<opVars, transfer, buffer, resultVars, telegramVars, streamed, main, call,
                 gate, stopped, cancelled, report>>

-----------------------------------------------------------------------------
(* call: one Telegram request *)

\* The call is invoked; nothing leaves if its context has ended.  Requests of
\* prepared media committed before.
Invoke(u) ==
  /\ call[u] = "launched" /\ MarkDeliveryStarted
  /\ Set(u, IF Dead \/ u \in stopped THEN "error" ELSE "sending")
  /\ UNCHANGED <<prepVars, resultVars, telegramVars, streamed, main, gate, stopped, cancelled,
                 report>>

\* The network, a timeout, the context, or a buffer that was closed; for an upload
\* of a transfer also what comes before the request: no upload slot, a file too
\* large.
CallFails(u) ==
  /\ call[u] = "sending" \/ (call[u] = "launched" /\ u \in Streams)
  /\ Set(u, "error")
  /\ UNCHANGED <<opVars, prepVars, resultVars, telegramVars, streamed, main, gate, stopped,
                 cancelled, report>>

\* The last bytes leave; only an intact buffer has them.
BodySent(u) ==
  /\ call[u] = "sending" /\ u \in gate \ sent
  /\ u \in Streams => buffer[u] = "complete"
  /\ sent' = sent \cup {u}
  /\ UNCHANGED <<opVars, prepVars, resultVars, processed, refused, late, streamed, main, call,
                 gate, stopped, cancelled, report>>

\* Telegram acts on a request it has completely, also when nobody waits for the
\* reply any more.
Process(u) ==
  /\ u \in sent \ (processed \cup refused)
  /\ processed' = processed \cup {u}
  /\ UNCHANGED <<opVars, prepVars, resultVars, sent, refused, late, streamed, main, call, gate,
                 stopped, cancelled, report>>

\* 2xx with ok:true; ok:false with a 4xx code, which may come before the body
\* ends; or a 5xx or malformed reply, which says nothing.  A reply that is in its
\* buffer is read also when its upload has been stopped.
ReplyOk(u) ==
  /\ call[u] = "sending" /\ u \in processed
  /\ MarkDeliveryConfirmed /\ Set(u, "ok")
  /\ UNCHANGED <<prepVars, resultVars, telegramVars, streamed, main, gate, stopped, cancelled,
                 report>>

ReplyRejected(u) ==
  /\ call[u] = "sending" /\ u \notin processed
  /\ refused' = refused \cup {u}
  /\ late' = IF "possible" \in facts /\ u \notin gate THEN late \cup {u} ELSE late
  /\ MarkDeliveryRejected /\ Set(u, "rejected")
  /\ UNCHANGED <<prepVars, resultVars, sent, processed, streamed, main, gate, stopped,
                 cancelled, report>>

ReplyUnclear(u) ==
  /\ call[u] = "sending"
  /\ Set(u, "unclear")
  /\ UNCHANGED <<opVars, prepVars, resultVars, telegramVars, streamed, main, gate, stopped,
                 cancelled, report>>

-----------------------------------------------------------------------------
(* sendStreamed and the loop of send *)

\* finish(u), and record: any reply that is not ok is "rejected" in the event.
MutantRecord(u) ==
  /\ err' = (call[u] = "error")
  /\ succeeded' = IF call[u] = "ok" THEN succeeded + 1 ELSE succeeded
  /\ UNCHANGED outcome
Record(u) ==
  /\ err' = (call[u] = "error")
  /\ succeeded' = IF call[u] = "ok" THEN succeeded + 1 ELSE succeeded
  /\ outcome' = IF call[u] \in {"rejected", "unclear"} THEN "rejected" ELSE outcome

\* A return: the deferred function cancels the context.
MutantLeave == main' = "cleanup" /\ UNCHANGED cancelled
Leave == main' = "cleanup" /\ cancelled' = TRUE

\* A new upload; its gate is shut.
MutantLaunch(t) ==
  /\ main = "select" /\ call[t] = "pending"
  /\ Set(t, "launched") /\ gate' = gate \cup {t}
  /\ UNCHANGED <<opVars, prepVars, resultVars, telegramVars, streamed, main, stopped,
                 cancelled, report>>
Launch(t) ==
  /\ main = "select" /\ call[t] = "pending"
  /\ Set(t, "launched")
  /\ UNCHANGED <<opVars, prepVars, resultVars, telegramVars, streamed, main, gate, stopped,
                 cancelled, report>>

\* An upload ended before the media did.  One whose transfer failed or was
\* replaced is no news: the select goes on.
EarlyEnd(t) ==
  /\ main = "select" /\ call[t] \in Over
  /\ buffer[t] # "closed"
  /\ Record(t) /\ Leave
  /\ UNCHANGED <<opVars, prepVars, batch, telegramVars, streamed, call, gate, stopped, report>>

\* Preparation has ended: every upload but the final transfer's is stopped.
TakeFinished ==
  /\ main = "select" /\ prep \in {"ok", "failed"}
  /\ IF prep = "failed"
     THEN Leave /\ err' = TRUE /\ UNCHANGED stopped
     ELSE /\ stopped' = {t \in Streams : t # transfer /\ call[t] # "none"}
          /\ main' = IF streamed /\ call[transfer] # "none" THEN "commit" ELSE "direct"
          /\ UNCHANGED <<err, cancelled>>
  /\ UNCHANGED <<opVars, prepVars, batch, outcome, succeeded, telegramVars, streamed, call,
                 gate, report>>

\* The context has ended; or a request of prepared media could not be made: too
\* large a file, no upload slot, fields that cannot be encoded.
CommitRefused ==
  /\ (main = "commit" /\ Dead) \/ main = "direct"
  /\ Leave /\ err' = TRUE
  /\ UNCHANGED <<opVars, prepVars, batch, outcome, succeeded, telegramVars, streamed, call,
                 gate, stopped, report>>

\* BeforeDeliveryCommit, then the gate of the final upload opens.
CommitStream ==
  /\ main = "commit" /\ BeforeDeliveryCommit
  /\ IF ended' THEN Leave /\ err' = TRUE /\ UNCHANGED gate
     ELSE gate' = gate \cup {transfer} /\ main' = "await" /\ UNCHANGED <<err, cancelled>>
  /\ UNCHANGED <<prepVars, batch, outcome, succeeded, telegramVars, streamed, call, stopped,
                 report>>

AwaitStream ==
  /\ main = "await" /\ call[transfer] \in Over
  /\ Record(transfer) /\ Leave
  /\ UNCHANGED <<opVars, prepVars, batch, telegramVars, streamed, call, gate, stopped, report>>

\* Prepared media: commit, then invoke the request.
CommitDirect ==
  /\ main = "direct" /\ BeforeDeliveryCommit
  /\ IF ended' THEN Leave /\ err' = TRUE /\ UNCHANGED <<gate, call>>
     ELSE /\ gate' = gate \cup {Direct(batch)} /\ Set(Direct(batch), "launched")
          /\ main' = "directAwait" /\ UNCHANGED <<err, cancelled>>
  /\ UNCHANGED <<prepVars, batch, outcome, succeeded, telegramVars, streamed, stopped, report>>

\* The next batch follows only a success.
AwaitDirect ==
  LET u == Direct(batch) IN
  /\ main = "directAwait" /\ call[u] \in Over
  /\ Record(u)
  /\ IF call[u] = "ok" /\ ~streamed /\ batch < NumBatches
     THEN main' = "direct" /\ batch' = batch + 1 /\ UNCHANGED cancelled
     ELSE Leave /\ UNCHANGED batch
  /\ UNCHANGED <<opVars, prepVars, telegramVars, streamed, call, gate, stopped, report>>

-----------------------------------------------------------------------------
(* The end of the operation *)

\* DeliveryEvent.finish
EventOutcome ==
  IF outcome = "none" /\ ~err THEN "succeeded"
  ELSE IF succeeded > 0 THEN "partial"
  ELSE IF err THEN "failed" ELSE outcome

\* operationTerminal; "failed" stands for "canceled" too.
TerminalEvent ==
  LET isRejected == EventOutcome = "rejected" /\ "rejected" \in facts /\ "confirmed" \notin facts
      state == IF EventOutcome = "partial" THEN "partial"
               ELSE IF isRejected THEN "rejected"
               ELSE IF "confirmed" \in facts THEN "confirmed"
               ELSE IF "possible" \in facts THEN "unknown"
               ELSE IF "started" \in facts THEN "uncommitted" ELSE "not_started"
      final == IF EventOutcome = "rejected" /\ "rejected" \notin facts THEN "failed" ELSE EventOutcome
  IN [state |-> state,
      safe |-> state \in {"not_started", "uncommitted", "rejected"} /\ final # "succeeded",
      outcome |-> final]

\* The deferred cleanup joined every goroutine.
Joined == prep \in {"off", "ok", "failed"} /\ \A u \in Uploads : call[u] \in Over \cup {"none"}

Terminal ==
  /\ main = "cleanup" /\ Joined
  /\ Finish
  /\ report' = TerminalEvent
  /\ main' = "done"
  /\ UNCHANGED <<prepVars, resultVars, telegramVars, streamed, call, gate, stopped, cancelled>>

ContextEnds ==
  /\ EndContext
  /\ UNCHANGED <<prepVars, resultVars, telegramVars, streamed, main, call, gate, stopped,
                 cancelled, report>>

-----------------------------------------------------------------------------

Preparation ==
  \/ ExtractRetry \/ ExtractFails \/ Prepare \/ Announce \/ RangeRetry \/ MediaRetry
  \/ DownloadFails \/ Recover \/ PrepEnds
  \/ \E t \in Streams : Withdraw(t)
  \/ \E to \in {"complete", "closed"} : TransferEnds(to)

Call(u) ==
  \/ Invoke(u) \/ CallFails(u) \/ ReplyOk(u) \/ ReplyRejected(u) \/ ReplyUnclear(u)

Main ==
  \/ TakeFinished \/ CommitRefused \/ CommitStream \/ AwaitStream \/ CommitDirect
  \/ AwaitDirect \/ Terminal
  \/ \E t \in Streams : Launch(t) \/ EarlyEnd(t)

Next ==
  \/ Preparation \/ Main \/ ContextEnds
  \/ \E u \in Uploads : Call(u) \/ BodySent(u) \/ Process(u)

\* Every goroutine that can run does, and every request, to Telegram or to a
\* media server, ends with an answer or a timeout.
Fairness ==
  /\ WF_vars(Preparation) /\ WF_vars(Main)
  /\ \A u \in Uploads : WF_vars(Call(u))

Spec == Init /\ [][Next]_vars
FairSpec == Spec /\ Fairness

-----------------------------------------------------------------------------
(* Properties *)

TypeOK ==
  /\ attempt \in 1..MaxAttempts
  /\ facts \subseteq Facts
  /\ {ended, streamed, leased, cancelled, err} \subseteq BOOLEAN
  /\ main \in {"extract", "select", "commit", "await", "direct", "directAwait", "cleanup", "done"}
  /\ prep \in {"off", "running", "failing", "ok", "failed"}
  /\ transfer \in Streams \cup {None}
  /\ buffer \in [Streams -> {"none", "open", "complete", "closed"}]
  /\ call \in [Uploads -> {"none", "pending", "launched", "sending"} \cup Over]
  /\ gate \subseteq Uploads /\ stopped \subseteq Streams
  /\ sent \subseteq gate /\ processed \subseteq sent /\ refused \subseteq Uploads
  /\ late \subseteq refused
  /\ batch \in 1..NumBatches /\ succeeded \in 0..NumBatches
  /\ outcome \in {"none", "rejected"}

\* A terminal event that calls a retry safe is right for ever: Telegram has not
\* turned any upload of the operation into a message, and never will.  The code
\* misses it; SafeUnlessSuperseded says by how much.
SafeMeansNotDelivered == report.safe => processed = {}

\* A retry that is called safe although the message exists or will: only if the
\* refusal of an upload that had been stopped was read after the commit, and the
\* reply to the message itself was no answer.  A refusal read before the commit,
\* a partly sent album, an error or a lost reply never make it so.
SafeUnlessSuperseded ==
  report.safe /\ processed # {} =>
    /\ report.state = "rejected" /\ late # {}
    /\ \A u \in processed : call[u] = "unclear"

\* A message is made only of the final transfer, after preparation succeeded and
\* the lease was returned: never of a transfer that failed or was replaced, and
\* never twice.
DeliveredOnce ==
  /\ \A u \in processed : prep = "ok" /\ ~leased
  /\ \A t \in processed \cap Streams : t = transfer /\ buffer[t] = "complete"
  /\ streamed => Cardinality(processed) <= 1

\* An operation that reports success delivered everything it was asked to, and
\* one that reports a partial delivery only a part.
SucceededMeansAll ==
  /\ report.outcome = "succeeded" =>
       IF streamed THEN processed # {} ELSE \A k \in 1..NumBatches : Direct(k) \in processed
  /\ report.outcome = "partial" => processed # {} /\ ~streamed

\* What the caller reads: attempts that grow to at most three, no attempt after a
\* commit, one terminal event and nothing after it.
EventOrder ==
  \A i, j \in 1..Len(events) : i < j =>
     LET a == events[i]  b == events[j] IN
     /\ b[1] = "attempt" => a[1] = "attempt" /\ a[2] < b[2]
     /\ b[2] <= MaxAttempts
     /\ a[1] # "terminal"

\* Every operation ends with a terminal event.
EveryOperationEnds == <>("terminal" \in facts)
=============================================================================
