--------------------------- MODULE DeliveryProofs ---------------------------
(***************************************************************************)
(* Proofs about Delivery, for every number of requests an album needs: what*)
(* a terminal event promises, what becomes a message, and the order of the *)
(* events the caller reads.                                                *)
(***************************************************************************)
EXTENDS Delivery, FiniteSetTheorems, TLAPS

Committing == {"commit", "await", "direct", "directAwait"}
Left == {"cleanup", "done"}

\* Where preparation is while the main goroutine is where it is.
Stages ==
  /\ prep = "off" => main \in {"extract"} \cup Left
  /\ prep # "off" => transfer \in Streams /\ main # "extract"
  /\ leased <=> prep \in {"running", "failing"}
  /\ prep = "ok" => buffer[transfer] = "complete" /\ Announced
  /\ main \in Committing => prep = "ok"

\* Gates open after preparation and after a commit: one of a transfer, or those
\* of the requests of prepared media, one after the other.
Gates ==
  /\ main \in {"extract", "select", "commit"} => gate = {}
  /\ gate # {} => prep = "ok" /\ "possible" \in facts
  /\ gate \cap Streams # {} => gate = {transfer}
  /\ main \in {"direct", "directAwait"} => gate \cap Streams = {}
  /\ gate \subseteq Streams \cup {Direct(k) : k \in 1..batch}
  /\ main = "direct" => Direct(batch) \notin gate
  /\ streamed => batch = 1

\* Only a streamed delivery has uploads of transfers.  Once a gate may open, all
\* of them but the one it is for are stopped.
Calls ==
  /\ \A t \in Streams : call[t] # "none" => streamed /\ prep # "off"
  /\ \A u \in Uploads \ Streams : call[u] # "none" => u \in gate /\ call[u] # "pending"
  /\ main = "commit" => \A t \in Streams : call[t] # "none" => t \in stopped \cup {transfer}
  /\ main \in Committing \ {"commit"} \/ gate # {} =>
       \A t \in Streams : call[t] # "none" => t \in stopped \cup gate

\* Telegram's side: a message it confirmed, and none of a request it refused.
Answers ==
  /\ sent \subseteq gate /\ processed \subseteq sent
  /\ \A u \in Uploads : call[u] = "ok" => u \in processed
  /\ refused \cap processed = {}

\* What the event counts, and what it leaves out.
AllProcessed ==
  IF streamed THEN processed # {} ELSE \A k \in 1..NumBatches : Direct(k) \in processed
Counts ==
  /\ main \notin Left => outcome = "none" /\ ~err /\ batch = succeeded + 1
  /\ main \in Left => batch \in {succeeded, succeeded + 1}
  /\ main \notin {"direct", "directAwait"} \cup Left => batch = 1
  /\ \A k \in 1..NumBatches : k < batch => Direct(k) \in processed
  /\ succeeded > 0 => processed # {}
  /\ streamed /\ succeeded > 0 => outcome = "none" /\ ~err
  /\ main \in Left /\ outcome = "none" /\ ~err => AllProcessed

\* The terminal event is the summary of what was counted.
Verdict ==
  /\ main # "done" => report = NoReport
  /\ report.outcome = "succeeded" => main = "done" /\ outcome = "none" /\ ~err
  /\ report.outcome = "partial" =>
       main = "done" /\ succeeded > 0 /\ (outcome # "none" \/ err)

\* Once a gate is open the flag "rejected" is of an upload whose gate it is, or of
\* a refusal that was read late.  A retry is called safe only if no gate opened,
\* or the only one is of an upload that was refused, or of one that got no answer
\* while a refusal was read late.
Excused(u) == u \in refused \/ (call[u] = "unclear" /\ late # {})
Refusals ==
  /\ "rejected" \in facts /\ gate # {} => gate \cap refused # {} \/ late # {}
  /\ \A u \in Uploads : call[u] = "rejected" => u \in refused
  /\ main = "await" => transfer \in gate
  /\ main \in Left /\ outcome = "rejected" /\ gate # {} =>
       \E u \in gate : call[u] \in {"rejected", "unclear"}
  /\ report.safe => gate = {} \/ (report.state = "rejected" /\ \E u \in Uploads : gate = {u} /\ Excused(u))

\* What the events say of the flags that are set.
Events ==
  /\ events \in Seq({"attempt", "delivery_commit", "terminal"} \X (1..MaxAttempts))
  /\ \A i \in 1..Len(events) : events[i][2] <= attempt
  /\ facts \cap {"terminal", "possible"} = {} => \A i \in 1..Len(events) : events[i][1] = "attempt"
  /\ "terminal" \notin facts => \A i \in 1..Len(events) : events[i][1] # "terminal"

-----------------------------------------------------------------------------
(* Operators of the model *)

\* Uploads of transfers and requests of prepared media are told apart.
LEMMA ConstantFacts == /\ MaxAttempts \in Nat /\ MaxAttempts >= 1 /\ 1 \in Streams /\ NumBatches \in Nat
                       /\ None \notin Streams
                       /\ Streams \subseteq Nat /\ Streams \subseteq Uploads
                       /\ \A k \in 1..NumBatches : Direct(k) \in Uploads /\ Direct(k) \notin Streams
                       /\ \A t \in Streams : t < MaxAttempts => t + 1 \in Streams
  BY DeliveryAssumption DEF MaxAttempts, Streams, Uploads, Direct, None

\* No two requests of prepared media are the same.
LEMMA DirectFacts == \A j, k \in 1..NumBatches : Direct(j) = Direct(k) => j = k
  BY DeliveryAssumption DEF MaxAttempts, Direct

\* A retry that is granted, and what the operation knew then.
LEMMA RetryShape == ASSUME TypeOK, AllowRetry
                    PROVE  /\ attempt' = attempt + 1 /\ attempt' \in 1..MaxAttempts
                           /\ facts' = facts /\ ended' \in BOOLEAN
                           /\ facts \cap {"terminal", "possible"} = {}
<1>1. attempt \in 1..MaxAttempts /\ ended \in BOOLEAN
  BY DEF TypeOK
<1>2. /\ attempt < MaxAttempts /\ attempt' = attempt + 1 /\ facts' = facts
      /\ facts \cap {"terminal", "possible"} = {}
      /\ ended' = ended \/ ended' = TRUE
  BY DEF AllowRetry, MayRetry, Emit
<1>3. attempt' \in 1..MaxAttempts
  BY <1>1, <1>2, ConstantFacts
<1>4. ended' \in BOOLEAN
  BY <1>1, <1>2
<1> QED
  BY <1>2, <1>3, <1>4

\* A commit sets its flag.
LEMMA CommitShape == ASSUME TypeOK, BeforeDeliveryCommit
                     PROVE  /\ attempt' = attempt /\ ended' \in BOOLEAN
                            /\ facts' = (facts \cup {"possible"}) \ {"rejected"}
                            /\ facts' \subseteq Facts /\ "terminal" \notin facts
<1>1. ended \in BOOLEAN /\ facts \subseteq Facts
  BY DEF TypeOK
<1>2. /\ attempt' = attempt /\ "terminal" \notin facts
      /\ facts' = (facts \cup {"possible"}) \ {"rejected"}
      /\ ended' = ended \/ ended' = TRUE
  BY DEF BeforeDeliveryCommit, Emit
<1>3. ended' \in BOOLEAN
  BY <1>1, <1>2
<1> QED
  BY <1>1, <1>2, <1>3 DEF Facts

\* An upload that ended is counted once.
LEMMA RecordShape == ASSUME TypeOK, Counts, main \notin Left, NEW u \in Uploads, Record(u)
                     PROVE  /\ batch \in 1..NumBatches /\ succeeded \in Nat /\ batch = succeeded + 1
                            /\ succeeded' = IF call[u] = "ok" THEN batch ELSE succeeded
                            /\ succeeded' \in 0..NumBatches
                            /\ outcome' = IF call[u] \in {"rejected", "unclear"} THEN "rejected" ELSE "none"
                            /\ err' = (call[u] = "error") /\ err' \in BOOLEAN
<1>1. batch \in 1..NumBatches /\ succeeded \in 0..NumBatches /\ batch = succeeded + 1 /\ outcome = "none"
  BY DEF TypeOK, Counts
<1>2. /\ succeeded' = IF call[u] = "ok" THEN succeeded + 1 ELSE succeeded
      /\ outcome' = IF call[u] \in {"rejected", "unclear"} THEN "rejected" ELSE outcome
  BY DEF Record
<1>3. err' = (call[u] = "error") /\ err' \in BOOLEAN
  BY DEF Record
<1>4. succeeded' = (IF call[u] = "ok" THEN batch ELSE succeeded) /\ succeeded' \in 0..NumBatches
  BY <1>1, <1>2, ConstantFacts
<1> QED
  BY <1>1, <1>2, <1>3, <1>4

\* Every step keeps the types.
LEMMA TypeStep == TypeOK /\ Stages /\ Gates /\ Calls /\ Answers /\ Counts /\ [Next]_vars => TypeOK'
<1> SUFFICES ASSUME TypeOK, Stages, Gates, Calls, Answers, Counts, [Next]_vars PROVE TypeOK'
  OBVIOUS
<1> USE ConstantFacts DEF opVars, prepVars, resultVars, telegramVars
<1>1. ASSUME ExtractRetry PROVE TypeOK'
  <2>1. attempt' \in 1..MaxAttempts /\ facts' = facts /\ ended' \in BOOLEAN
    BY <1>1, RetryShape DEF ExtractRetry
  <2>2. {ended', streamed', leased', cancelled', err'} \subseteq BOOLEAN
    BY <1>1, <2>1 DEF ExtractRetry, TypeOK
  <2> QED
    BY <1>1, <2>1, <2>2 DEF ExtractRetry, TypeOK
<1>2. ASSUME ExtractFails PROVE TypeOK'
  BY <1>2 DEF ExtractFails, TypeOK, Facts
<1>3. ASSUME Prepare PROVE TypeOK'
  BY <1>3 DEF Prepare, Dead, TypeOK, Facts
<1>4. ASSUME Announce PROVE TypeOK'
  BY <1>4 DEF Announce, Set, Dead, TypeOK, Facts
<1>5. ASSUME NEW t \in Streams, Withdraw(t) PROVE TypeOK'
  BY <1>5 DEF Withdraw, Set, TypeOK, Facts
<1>6. ASSUME NEW to \in {"complete", "closed"}, TransferEnds(to) PROVE TypeOK'
  BY <1>6 DEF TransferEnds, TypeOK, Facts
<1>7. ASSUME RangeRetry PROVE TypeOK'
  <2>1. attempt' \in 1..MaxAttempts /\ facts' = facts /\ ended' \in BOOLEAN
    BY <1>7, RetryShape DEF RangeRetry
  <2>2. {ended', streamed', leased', cancelled', err'} \subseteq BOOLEAN
    BY <1>7, <2>1 DEF RangeRetry, TypeOK
  <2> QED
    BY <1>7, <2>1, <2>2 DEF RangeRetry, TypeOK
<1>8. ASSUME MediaRetry PROVE TypeOK'
  <2>1. attempt' \in 1..MaxAttempts /\ facts' = facts /\ ended' \in BOOLEAN
    BY <1>8, RetryShape DEF MediaRetry
  <2>2. {ended', streamed', leased', cancelled', err'} \subseteq BOOLEAN
    BY <1>8, <2>1 DEF MediaRetry, TypeOK
  <2> QED
    BY <1>8, <2>1, <2>2 DEF MediaRetry, Replace, Stages, TypeOK
<1>9. ASSUME DownloadFails PROVE TypeOK'
  BY <1>9 DEF DownloadFails, TypeOK, Facts
<1>10. ASSUME Recover PROVE TypeOK'
  <2>1. attempt' \in 1..MaxAttempts /\ facts' = facts /\ ended' \in BOOLEAN
    BY <1>10, RetryShape DEF Recover
  <2>2. {ended', streamed', leased', cancelled', err'} \subseteq BOOLEAN
    BY <1>10, <2>1 DEF Recover, TypeOK
  <2> QED
    BY <1>10, <2>1, <2>2 DEF Recover, Replace, Prepared, Stages, TypeOK
<1>11. ASSUME PrepEnds PROVE TypeOK'
  BY <1>11 DEF PrepEnds, Prepared, TypeOK, Facts
<1>12. ASSUME NEW u \in Uploads, Invoke(u) PROVE TypeOK'
  <2>1. {ended', streamed', leased', cancelled', err'} \subseteq BOOLEAN
    BY <1>12 DEF Invoke, Set, MarkDeliveryStarted, Mark, TypeOK
  <2>2. facts' \subseteq Facts
    BY <1>12 DEF Invoke, Set, MarkDeliveryStarted, Mark, TypeOK, Facts
  <2> QED
    BY <1>12, <2>1, <2>2 DEF Invoke, Set, MarkDeliveryStarted, Mark, Over, Replies, TypeOK
<1>13. ASSUME NEW u \in Uploads, CallFails(u) PROVE TypeOK'
  <2>1. {ended', streamed', leased', cancelled', err'} \subseteq BOOLEAN
    BY <1>13 DEF CallFails, Set, TypeOK
  <2>2. facts' \subseteq Facts
    BY <1>13 DEF CallFails, Set, TypeOK, Facts
  <2> QED
    BY <1>13, <2>1, <2>2 DEF CallFails, Set, Over, Replies, TypeOK
<1>14. ASSUME NEW u \in Uploads, BodySent(u) PROVE TypeOK'
  BY <1>14 DEF BodySent, TypeOK, Facts
<1>15. ASSUME NEW u \in Uploads, Process(u) PROVE TypeOK'
  BY <1>15 DEF Process, TypeOK, Facts
<1>16. ASSUME NEW u \in Uploads, ReplyOk(u) PROVE TypeOK'
  <2>1. {ended', streamed', leased', cancelled', err'} \subseteq BOOLEAN
    BY <1>16 DEF ReplyOk, Set, MarkDeliveryConfirmed, Mark, TypeOK
  <2>2. facts' \subseteq Facts
    BY <1>16 DEF ReplyOk, Set, MarkDeliveryConfirmed, Mark, TypeOK, Facts
  <2> QED
    BY <1>16, <2>1, <2>2 DEF ReplyOk, Set, MarkDeliveryConfirmed, Mark, Over, Replies, TypeOK
<1>17. ASSUME NEW u \in Uploads, ReplyRejected(u) PROVE TypeOK'
  <2>1. {ended', streamed', leased', cancelled', err'} \subseteq BOOLEAN
    BY <1>17 DEF ReplyRejected, Set, MarkDeliveryRejected, Mark, TypeOK
  <2>2. facts' \subseteq Facts
    BY <1>17 DEF ReplyRejected, Set, MarkDeliveryRejected, Mark, TypeOK, Facts
  <2> QED
    BY <1>17, <2>1, <2>2 DEF ReplyRejected, Set, MarkDeliveryRejected, Mark, Over, Replies, TypeOK
<1>18. ASSUME NEW u \in Uploads, ReplyUnclear(u) PROVE TypeOK'
  <2>1. {ended', streamed', leased', cancelled', err'} \subseteq BOOLEAN
    BY <1>18 DEF ReplyUnclear, Set, TypeOK
  <2>2. facts' \subseteq Facts
    BY <1>18 DEF ReplyUnclear, Set, TypeOK, Facts
  <2> QED
    BY <1>18, <2>1, <2>2 DEF ReplyUnclear, Set, Over, Replies, TypeOK
<1>19. ASSUME NEW t \in Streams, Launch(t) PROVE TypeOK'
  BY <1>19 DEF Launch, Set, TypeOK, Facts
<1>20. ASSUME NEW t \in Streams, EarlyEnd(t) PROVE TypeOK'
  <2>1. /\ batch \in 1..NumBatches /\ succeeded' \in 0..NumBatches
        /\ outcome' \in {"none", "rejected"} /\ err' \in BOOLEAN
    BY <1>20, RecordShape DEF EarlyEnd, Left
  <2>2. {ended', streamed', leased', cancelled', err'} \subseteq BOOLEAN
    BY <1>20, <2>1 DEF EarlyEnd, Leave, TypeOK
  <2> QED
    BY <1>20, <2>1, <2>2 DEF EarlyEnd, Leave, TypeOK
<1>21. ASSUME TakeFinished PROVE TypeOK'
  BY <1>21 DEF TakeFinished, Leave, TypeOK, Facts
<1>22. ASSUME CommitRefused PROVE TypeOK'
  BY <1>22 DEF CommitRefused, Leave, TypeOK, Facts
<1>23. ASSUME CommitStream PROVE TypeOK'
  <2>1. transfer \in Uploads
    BY <1>23 DEF CommitStream, Stages, Committing, TypeOK
  <2>2. attempt' = attempt /\ facts' \subseteq Facts /\ ended' \in BOOLEAN
    BY <1>23, CommitShape DEF CommitStream
  <2>3. {ended', streamed', leased', cancelled', err'} \subseteq BOOLEAN
    BY <1>23, <2>2 DEF CommitStream, Leave, TypeOK
  <2> QED
    BY <1>23, <2>1, <2>2, <2>3 DEF CommitStream, Leave, Set, TypeOK
<1>24. ASSUME AwaitStream PROVE TypeOK'
  <2>1. /\ batch \in 1..NumBatches /\ succeeded' \in 0..NumBatches
        /\ outcome' \in {"none", "rejected"} /\ err' \in BOOLEAN
    BY <1>24, RecordShape DEF AwaitStream, Left, Stages, Committing
  <2>2. {ended', streamed', leased', cancelled', err'} \subseteq BOOLEAN
    BY <1>24, <2>1 DEF AwaitStream, Leave, TypeOK
  <2> QED
    BY <1>24, <2>1, <2>2 DEF AwaitStream, Leave, TypeOK
<1>25. ASSUME CommitDirect PROVE TypeOK'
  <2>1. Direct(batch) \in Uploads
    BY <1>25 DEF CommitDirect, Stages, Committing, TypeOK
  <2>2. attempt' = attempt /\ facts' \subseteq Facts /\ ended' \in BOOLEAN
    BY <1>25, CommitShape DEF CommitDirect
  <2>3. {ended', streamed', leased', cancelled', err'} \subseteq BOOLEAN
    BY <1>25, <2>2 DEF CommitDirect, Leave, TypeOK
  <2> QED
    BY <1>25, <2>1, <2>2, <2>3 DEF CommitDirect, Leave, Set, TypeOK
<1>26. ASSUME AwaitDirect PROVE TypeOK'
  <2>1. Direct(batch) \in Uploads /\ batch \in 1..NumBatches
    BY DEF TypeOK
  <2>2. /\ batch \in 1..NumBatches /\ succeeded' \in 0..NumBatches
        /\ outcome' \in {"none", "rejected"} /\ err' \in BOOLEAN
    BY <1>26, <2>1, RecordShape DEF AwaitDirect, Left
  <2>3. {ended', streamed', leased', cancelled', err'} \subseteq BOOLEAN
    BY <1>26, <2>2 DEF AwaitDirect, Leave, TypeOK
  <2>4. batch' \in 1..NumBatches
    BY <1>26, <2>1 DEF AwaitDirect
  <2> QED
    BY <1>26, <2>2, <2>3, <2>4 DEF AwaitDirect, Leave, TypeOK
<1>27. ASSUME Terminal PROVE TypeOK'
  BY <1>27 DEF Terminal, Joined, Finish, Emit, TypeOK, Facts
<1>28. ASSUME ContextEnds PROVE TypeOK'
  BY <1>28 DEF ContextEnds, EndContext, TypeOK, Facts
<1>29. CASE UNCHANGED vars
  BY <1>29 DEF vars, TypeOK, Facts
<1> QED
  BY <1>1, <1>2, <1>3, <1>4, <1>5, <1>6, <1>7, <1>8, <1>9, <1>10, <1>11, <1>12, <1>13, <1>14, <1>15, <1>16, <1>17, <1>18, <1>19, <1>20, <1>21, <1>22, <1>23, <1>24, <1>25, <1>26, <1>27, <1>28, <1>29 DEF Next, Preparation, Call, Main

\* Preparation and the main goroutine stay in step.
LEMMA StagesStep == TypeOK /\ Stages /\ Gates /\ Calls /\ [Next]_vars => Stages'
<1> SUFFICES ASSUME TypeOK, Stages, Gates, Calls, [Next]_vars PROVE Stages'
  OBVIOUS
<1> USE ConstantFacts DEF opVars, prepVars, resultVars, telegramVars
<1>1. ASSUME ExtractRetry PROVE Stages'
  BY <1>1 DEF ExtractRetry, AllowRetry, MayRetry, Emit, Stages, Announced, Committing, Left, TypeOK
<1>2. ASSUME ExtractFails PROVE Stages'
  BY <1>2 DEF ExtractFails, Stages, Announced, Committing, Left, TypeOK
<1>3. ASSUME Prepare PROVE Stages'
  BY <1>3 DEF Prepare, Dead, Stages, Announced, Committing, Left, TypeOK
<1>4. ASSUME Announce PROVE Stages'
  BY <1>4 DEF Announce, Set, Dead, Stages, Announced, Committing, Left, TypeOK
<1>5. ASSUME NEW t \in Streams, Withdraw(t) PROVE Stages'
  BY <1>5 DEF Withdraw, Set, Stages, Announced, Committing, Left, TypeOK
<1>6. ASSUME NEW to \in {"complete", "closed"}, TransferEnds(to) PROVE Stages'
  BY <1>6 DEF TransferEnds, Stages, Announced, Committing, Left, TypeOK
<1>7. ASSUME RangeRetry PROVE Stages'
  BY <1>7 DEF RangeRetry, AllowRetry, MayRetry, Emit, Stages, Announced, Committing, Left, TypeOK
<1>8. ASSUME MediaRetry PROVE Stages'
  BY <1>8 DEF MediaRetry, Replace, AllowRetry, MayRetry, Emit, Stages, Announced, Committing, Left, TypeOK
<1>9. ASSUME DownloadFails PROVE Stages'
  BY <1>9 DEF DownloadFails, Stages, Announced, Committing, Left, TypeOK
<1>10. ASSUME Recover PROVE Stages'
  BY <1>10 DEF Recover, Replace, Prepared, AllowRetry, MayRetry, Emit, Stages, Announced, Committing, Left, TypeOK
<1>11. ASSUME PrepEnds PROVE Stages'
  BY <1>11 DEF PrepEnds, Prepared, Stages, Announced, Committing, Left, TypeOK
<1>12. ASSUME NEW u \in Uploads, Invoke(u) PROVE Stages'
  BY <1>12 DEF Invoke, Set, MarkDeliveryStarted, Mark, Stages, Announced, Committing, Left, TypeOK
<1>13. ASSUME NEW u \in Uploads, CallFails(u) PROVE Stages'
  BY <1>13 DEF CallFails, Set, Stages, Announced, Committing, Left, TypeOK
<1>14. ASSUME NEW u \in Uploads, BodySent(u) PROVE Stages'
  BY <1>14 DEF BodySent, Stages, Announced, Committing, Left, TypeOK
<1>15. ASSUME NEW u \in Uploads, Process(u) PROVE Stages'
  BY <1>15 DEF Process, Stages, Announced, Committing, Left, TypeOK
<1>16. ASSUME NEW u \in Uploads, ReplyOk(u) PROVE Stages'
  BY <1>16 DEF ReplyOk, Set, MarkDeliveryConfirmed, Mark, Stages, Announced, Committing, Left, TypeOK
<1>17. ASSUME NEW u \in Uploads, ReplyRejected(u) PROVE Stages'
  BY <1>17 DEF ReplyRejected, Set, MarkDeliveryRejected, Mark, Stages, Announced, Committing, Left, TypeOK
<1>18. ASSUME NEW u \in Uploads, ReplyUnclear(u) PROVE Stages'
  BY <1>18 DEF ReplyUnclear, Set, Stages, Announced, Committing, Left, TypeOK
<1>19. ASSUME NEW t \in Streams, Launch(t) PROVE Stages'
  BY <1>19 DEF Launch, Set, Stages, Announced, Committing, Left, TypeOK
<1>20. ASSUME NEW t \in Streams, EarlyEnd(t) PROVE Stages'
  BY <1>20 DEF EarlyEnd, Record, Leave, Over, Replies, Stages, Announced, Committing, Left, TypeOK
<1>21. ASSUME TakeFinished PROVE Stages'
  BY <1>21 DEF TakeFinished, Leave, Stages, Announced, Committing, Left, TypeOK
<1>22. ASSUME CommitRefused PROVE Stages'
  BY <1>22 DEF CommitRefused, Leave, Stages, Announced, Committing, Left, TypeOK
<1>23. ASSUME CommitStream PROVE Stages'
  BY <1>23 DEF CommitStream, Leave, BeforeDeliveryCommit, Emit, Stages, Announced, Committing, Left, TypeOK
<1>24. ASSUME AwaitStream PROVE Stages'
  BY <1>24 DEF AwaitStream, Record, Leave, Over, Replies, Stages, Announced, Committing, Left, TypeOK
<1>25. ASSUME CommitDirect PROVE Stages'
  BY <1>25 DEF CommitDirect, Leave, Set, BeforeDeliveryCommit, Emit, Stages, Announced, Committing, Left, TypeOK
<1>26. ASSUME AwaitDirect PROVE Stages'
  BY <1>26 DEF AwaitDirect, Record, Leave, Over, Replies, Stages, Announced, Committing, Left, TypeOK
<1>27. ASSUME Terminal PROVE Stages'
  BY <1>27 DEF Terminal, Joined, Finish, Emit, Stages, Announced, Committing, Left, TypeOK
<1>28. ASSUME ContextEnds PROVE Stages'
  BY <1>28 DEF ContextEnds, EndContext, Stages, Announced, Committing, Left, TypeOK
<1>29. CASE UNCHANGED vars
  BY <1>29 DEF vars, Stages, Announced, Committing, Left, TypeOK
<1> QED
  BY <1>1, <1>2, <1>3, <1>4, <1>5, <1>6, <1>7, <1>8, <1>9, <1>10, <1>11, <1>12, <1>13, <1>14, <1>15, <1>16, <1>17, <1>18, <1>19, <1>20, <1>21, <1>22, <1>23, <1>24, <1>25, <1>26, <1>27, <1>28, <1>29 DEF Next, Preparation, Call, Main

\* Gates open one at a time, and only for what is final.
LEMMA GatesStep == TypeOK /\ Stages /\ Gates /\ Counts /\ [Next]_vars => Gates'
<1> SUFFICES ASSUME TypeOK, Stages, Gates, Counts, [Next]_vars PROVE Gates'
  OBVIOUS
<1> USE ConstantFacts DEF opVars, prepVars, resultVars, telegramVars
<1>1. ASSUME ExtractRetry PROVE Gates'
  BY <1>1 DEF ExtractRetry, AllowRetry, MayRetry, Emit, Gates, Stages, Counts, Committing, Left, TypeOK
<1>2. ASSUME ExtractFails PROVE Gates'
  BY <1>2 DEF ExtractFails, Gates, Stages, Counts, Committing, Left, TypeOK
<1>3. ASSUME Prepare PROVE Gates'
  BY <1>3 DEF Prepare, Dead, Gates, Stages, Counts, Committing, Left, TypeOK
<1>4. ASSUME Announce PROVE Gates'
  BY <1>4 DEF Announce, Set, Dead, Gates, Stages, Counts, Committing, Left, TypeOK
<1>5. ASSUME NEW t \in Streams, Withdraw(t) PROVE Gates'
  BY <1>5 DEF Withdraw, Set, Gates, Stages, Counts, Committing, Left, TypeOK
<1>6. ASSUME NEW to \in {"complete", "closed"}, TransferEnds(to) PROVE Gates'
  BY <1>6 DEF TransferEnds, Gates, Stages, Counts, Committing, Left, TypeOK
<1>7. ASSUME RangeRetry PROVE Gates'
  BY <1>7 DEF RangeRetry, AllowRetry, MayRetry, Emit, Gates, Stages, Counts, Committing, Left, TypeOK
<1>8. ASSUME MediaRetry PROVE Gates'
  BY <1>8 DEF MediaRetry, Replace, AllowRetry, MayRetry, Emit, Gates, Stages, Counts, Committing, Left, TypeOK
<1>9. ASSUME DownloadFails PROVE Gates'
  BY <1>9 DEF DownloadFails, Gates, Stages, Counts, Committing, Left, TypeOK
<1>10. ASSUME Recover PROVE Gates'
  BY <1>10 DEF Recover, Replace, Prepared, AllowRetry, MayRetry, Emit, Gates, Stages, Counts, Committing, Left, TypeOK
<1>11. ASSUME PrepEnds PROVE Gates'
  BY <1>11 DEF PrepEnds, Prepared, Gates, Stages, Counts, Committing, Left, TypeOK
<1>12. ASSUME NEW u \in Uploads, Invoke(u) PROVE Gates'
  BY <1>12 DEF Invoke, Set, MarkDeliveryStarted, Mark, Gates, Stages, Counts, Committing, Left, TypeOK
<1>13. ASSUME NEW u \in Uploads, CallFails(u) PROVE Gates'
  BY <1>13 DEF CallFails, Set, Gates, Stages, Counts, Committing, Left, TypeOK
<1>14. ASSUME NEW u \in Uploads, BodySent(u) PROVE Gates'
  BY <1>14 DEF BodySent, Gates, Stages, Counts, Committing, Left, TypeOK
<1>15. ASSUME NEW u \in Uploads, Process(u) PROVE Gates'
  BY <1>15 DEF Process, Gates, Stages, Counts, Committing, Left, TypeOK
<1>16. ASSUME NEW u \in Uploads, ReplyOk(u) PROVE Gates'
  BY <1>16 DEF ReplyOk, Set, MarkDeliveryConfirmed, Mark, Gates, Stages, Counts, Committing, Left, TypeOK
<1>17. ASSUME NEW u \in Uploads, ReplyRejected(u) PROVE Gates'
  BY <1>17 DEF ReplyRejected, Set, MarkDeliveryRejected, Mark, Gates, Stages, Counts, Committing, Left, TypeOK
<1>18. ASSUME NEW u \in Uploads, ReplyUnclear(u) PROVE Gates'
  BY <1>18 DEF ReplyUnclear, Set, Gates, Stages, Counts, Committing, Left, TypeOK
<1>19. ASSUME NEW t \in Streams, Launch(t) PROVE Gates'
  BY <1>19 DEF Launch, Set, Gates, Stages, Counts, Committing, Left, TypeOK
<1>20. ASSUME NEW t \in Streams, EarlyEnd(t) PROVE Gates'
  BY <1>20 DEF EarlyEnd, Record, Leave, Over, Replies, Gates, Stages, Counts, Committing, Left, TypeOK
<1>21. ASSUME TakeFinished PROVE Gates'
  BY <1>21 DEF TakeFinished, Leave, Gates, Stages, Counts, Committing, Left, TypeOK
<1>22. ASSUME CommitRefused PROVE Gates'
  BY <1>22 DEF CommitRefused, Leave, Gates, Stages, Counts, Committing, Left, TypeOK
<1>23. ASSUME CommitStream PROVE Gates'
  BY <1>23 DEF CommitStream, Leave, BeforeDeliveryCommit, Emit, Gates, Stages, Counts, Committing, Left, TypeOK
<1>24. ASSUME AwaitStream PROVE Gates'
  BY <1>24 DEF AwaitStream, Record, Leave, Over, Replies, Gates, Stages, Counts, Committing, Left, TypeOK
<1>25. ASSUME CommitDirect PROVE Gates'
  <2>1. main = "direct" /\ batch \in 1..NumBatches /\ UNCHANGED <<prepVars, batch, streamed>>
    BY <1>25 DEF CommitDirect, TypeOK
  <2>2. prep = "ok" /\ gate \cap Streams = {} /\ gate \subseteq {Direct(k) : k \in 1..batch}
    BY <2>1 DEF Stages, Gates, Committing
  <2>3. "possible" \in facts'
    BY <1>25, CommitShape DEF CommitDirect
  <2>4. CASE gate' = gate /\ main' = "cleanup"
    BY <2>1, <2>2, <2>3, <2>4 DEF Gates
  <2>5. CASE gate' = gate \cup {Direct(batch)} /\ main' = "directAwait"
    <3>1. Direct(batch) \notin Streams
      BY <2>1
    <3>2. gate' \cap Streams = {} /\ gate' \subseteq {Direct(k) : k \in 1..batch}
      BY <2>1, <2>2, <2>5, <3>1
    <3> QED
      BY <2>1, <2>2, <2>3, <2>5, <3>2 DEF Gates
  <2> QED
    BY <1>25, <2>4, <2>5 DEF CommitDirect, Leave
<1>26. ASSUME AwaitDirect PROVE Gates'
  <2>1. main = "directAwait" /\ batch \in 1..NumBatches /\ UNCHANGED <<prepVars, streamed, gate, facts>>
    BY <1>26 DEF AwaitDirect, TypeOK
  <2>2. gate \cap Streams = {} /\ gate \subseteq Streams \cup {Direct(k) : k \in 1..batch}
    BY <2>1 DEF Gates
  <2>3. CASE main' = "direct" /\ batch' = batch + 1 /\ ~streamed /\ batch < NumBatches
    <3>1. batch + 1 \in 1..NumBatches /\ \A k \in 1..batch : k \in 1..NumBatches /\ k # batch + 1 /\ k \in 1..(batch + 1)
      BY <2>1, <2>3
    <3>2. Direct(batch + 1) \notin gate
      BY <2>2, <3>1, DirectFacts
    <3>3. gate \subseteq Streams \cup {Direct(k) : k \in 1..(batch + 1)}
      BY <2>2, <3>1
    <3> QED
      BY <2>1, <2>2, <2>3, <3>2, <3>3 DEF Gates
  <2>4. CASE main' = "cleanup" /\ batch' = batch
    BY <2>1, <2>2, <2>4 DEF Gates
  <2> QED
    BY <1>26, <2>3, <2>4 DEF AwaitDirect, Leave
<1>27. ASSUME Terminal PROVE Gates'
  BY <1>27 DEF Terminal, Joined, Finish, Emit, Gates, Stages, Counts, Committing, Left, TypeOK
<1>28. ASSUME ContextEnds PROVE Gates'
  BY <1>28 DEF ContextEnds, EndContext, Gates, Stages, Counts, Committing, Left, TypeOK
<1>29. CASE UNCHANGED vars
  BY <1>29 DEF vars, Gates, Stages, Counts, Committing, Left, TypeOK
<1> QED
  BY <1>1, <1>2, <1>3, <1>4, <1>5, <1>6, <1>7, <1>8, <1>9, <1>10, <1>11, <1>12, <1>13, <1>14, <1>15, <1>16, <1>17, <1>18, <1>19, <1>20, <1>21, <1>22, <1>23, <1>24, <1>25, <1>26, <1>27, <1>28, <1>29 DEF Next, Preparation, Call, Main

\* Uploads that do not count are stopped before a gate opens.
LEMMA CallsStep == TypeOK /\ Stages /\ Gates /\ Calls /\ [Next]_vars => Calls'
<1> SUFFICES ASSUME TypeOK, Stages, Gates, Calls, [Next]_vars PROVE Calls'
  OBVIOUS
<1> USE ConstantFacts DEF opVars, prepVars, resultVars, telegramVars
<1>1. ASSUME ExtractRetry PROVE Calls'
  BY <1>1 DEF ExtractRetry, AllowRetry, MayRetry, Emit, Calls, Gates, Stages, Announced, Committing, Left, TypeOK
<1>2. ASSUME ExtractFails PROVE Calls'
  BY <1>2 DEF ExtractFails, Calls, Gates, Stages, Announced, Committing, Left, TypeOK
<1>3. ASSUME Prepare PROVE Calls'
  BY <1>3 DEF Prepare, Dead, Calls, Gates, Stages, Announced, Committing, Left, TypeOK
<1>4. ASSUME Announce PROVE Calls'
  BY <1>4 DEF Announce, Set, Dead, Calls, Gates, Stages, Announced, Committing, Left, TypeOK
<1>5. ASSUME NEW t \in Streams, Withdraw(t) PROVE Calls'
  BY <1>5 DEF Withdraw, Set, Calls, Gates, Stages, Announced, Committing, Left, TypeOK
<1>6. ASSUME NEW to \in {"complete", "closed"}, TransferEnds(to) PROVE Calls'
  BY <1>6 DEF TransferEnds, Calls, Gates, Stages, Announced, Committing, Left, TypeOK
<1>7. ASSUME RangeRetry PROVE Calls'
  BY <1>7 DEF RangeRetry, AllowRetry, MayRetry, Emit, Calls, Gates, Stages, Announced, Committing, Left, TypeOK
<1>8. ASSUME MediaRetry PROVE Calls'
  BY <1>8 DEF MediaRetry, Replace, AllowRetry, MayRetry, Emit, Calls, Gates, Stages, Announced, Committing, Left, TypeOK
<1>9. ASSUME DownloadFails PROVE Calls'
  BY <1>9 DEF DownloadFails, Calls, Gates, Stages, Announced, Committing, Left, TypeOK
<1>10. ASSUME Recover PROVE Calls'
  BY <1>10 DEF Recover, Replace, Prepared, AllowRetry, MayRetry, Emit, Calls, Gates, Stages, Announced, Committing, Left, TypeOK
<1>11. ASSUME PrepEnds PROVE Calls'
  BY <1>11 DEF PrepEnds, Prepared, Calls, Gates, Stages, Announced, Committing, Left, TypeOK
<1>12. ASSUME NEW u \in Uploads, Invoke(u) PROVE Calls'
  BY <1>12 DEF Invoke, Set, MarkDeliveryStarted, Mark, Calls, Gates, Stages, Announced, Committing, Left, TypeOK
<1>13. ASSUME NEW u \in Uploads, CallFails(u) PROVE Calls'
  BY <1>13 DEF CallFails, Set, Calls, Gates, Stages, Announced, Committing, Left, TypeOK
<1>14. ASSUME NEW u \in Uploads, BodySent(u) PROVE Calls'
  BY <1>14 DEF BodySent, Calls, Gates, Stages, Announced, Committing, Left, TypeOK
<1>15. ASSUME NEW u \in Uploads, Process(u) PROVE Calls'
  BY <1>15 DEF Process, Calls, Gates, Stages, Announced, Committing, Left, TypeOK
<1>16. ASSUME NEW u \in Uploads, ReplyOk(u) PROVE Calls'
  BY <1>16 DEF ReplyOk, Set, MarkDeliveryConfirmed, Mark, Calls, Gates, Stages, Announced, Committing, Left, TypeOK
<1>17. ASSUME NEW u \in Uploads, ReplyRejected(u) PROVE Calls'
  BY <1>17 DEF ReplyRejected, Set, MarkDeliveryRejected, Mark, Calls, Gates, Stages, Announced, Committing, Left, TypeOK
<1>18. ASSUME NEW u \in Uploads, ReplyUnclear(u) PROVE Calls'
  BY <1>18 DEF ReplyUnclear, Set, Calls, Gates, Stages, Announced, Committing, Left, TypeOK
<1>19. ASSUME NEW t \in Streams, Launch(t) PROVE Calls'
  BY <1>19 DEF Launch, Set, Calls, Gates, Stages, Announced, Committing, Left, TypeOK
<1>20. ASSUME NEW t \in Streams, EarlyEnd(t) PROVE Calls'
  BY <1>20 DEF EarlyEnd, Record, Leave, Over, Replies, Calls, Gates, Stages, Announced, Committing, Left, TypeOK
<1>21. ASSUME TakeFinished PROVE Calls'
  BY <1>21 DEF TakeFinished, Leave, Calls, Gates, Stages, Announced, Committing, Left, TypeOK
<1>22. ASSUME CommitRefused PROVE Calls'
  BY <1>22 DEF CommitRefused, Leave, Calls, Gates, Stages, Announced, Committing, Left, TypeOK
<1>23. ASSUME CommitStream PROVE Calls'
  BY <1>23 DEF CommitStream, Leave, BeforeDeliveryCommit, Emit, Calls, Gates, Stages, Announced, Committing, Left, TypeOK
<1>24. ASSUME AwaitStream PROVE Calls'
  BY <1>24 DEF AwaitStream, Record, Leave, Over, Replies, Calls, Gates, Stages, Announced, Committing, Left, TypeOK
<1>25. ASSUME CommitDirect PROVE Calls'
  BY <1>25 DEF CommitDirect, Leave, Set, BeforeDeliveryCommit, Emit, Calls, Gates, Stages, Announced, Committing, Left, TypeOK
<1>26. ASSUME AwaitDirect PROVE Calls'
  BY <1>26 DEF AwaitDirect, Record, Leave, Over, Replies, Calls, Gates, Stages, Announced, Committing, Left, TypeOK
<1>27. ASSUME Terminal PROVE Calls'
  BY <1>27 DEF Terminal, Joined, Finish, Emit, Calls, Gates, Stages, Announced, Committing, Left, TypeOK
<1>28. ASSUME ContextEnds PROVE Calls'
  BY <1>28 DEF ContextEnds, EndContext, Calls, Gates, Stages, Announced, Committing, Left, TypeOK
<1>29. CASE UNCHANGED vars
  BY <1>29 DEF vars, Calls, Gates, Stages, Announced, Committing, Left, TypeOK
<1> QED
  BY <1>1, <1>2, <1>3, <1>4, <1>5, <1>6, <1>7, <1>8, <1>9, <1>10, <1>11, <1>12, <1>13, <1>14, <1>15, <1>16, <1>17, <1>18, <1>19, <1>20, <1>21, <1>22, <1>23, <1>24, <1>25, <1>26, <1>27, <1>28, <1>29 DEF Next, Preparation, Call, Main

\* Telegram refuses or processes a request, never both.
LEMMA AnswersStep == TypeOK /\ Gates /\ Answers /\ [Next]_vars => Answers'
<1> SUFFICES ASSUME TypeOK, Gates, Answers, [Next]_vars PROVE Answers'
  OBVIOUS
<1> USE ConstantFacts DEF opVars, prepVars, resultVars, telegramVars
<1>1. ASSUME ExtractRetry PROVE Answers'
  BY <1>1 DEF ExtractRetry, AllowRetry, MayRetry, Emit, Answers, TypeOK
<1>2. ASSUME ExtractFails PROVE Answers'
  BY <1>2 DEF ExtractFails, Answers, TypeOK
<1>3. ASSUME Prepare PROVE Answers'
  BY <1>3 DEF Prepare, Dead, Answers, TypeOK
<1>4. ASSUME Announce PROVE Answers'
  BY <1>4 DEF Announce, Set, Dead, Answers, TypeOK
<1>5. ASSUME NEW t \in Streams, Withdraw(t) PROVE Answers'
  BY <1>5 DEF Withdraw, Set, Answers, TypeOK
<1>6. ASSUME NEW to \in {"complete", "closed"}, TransferEnds(to) PROVE Answers'
  BY <1>6 DEF TransferEnds, Answers, TypeOK
<1>7. ASSUME RangeRetry PROVE Answers'
  BY <1>7 DEF RangeRetry, AllowRetry, MayRetry, Emit, Answers, TypeOK
<1>8. ASSUME MediaRetry PROVE Answers'
  BY <1>8 DEF MediaRetry, Replace, AllowRetry, MayRetry, Emit, Answers, TypeOK
<1>9. ASSUME DownloadFails PROVE Answers'
  BY <1>9 DEF DownloadFails, Answers, TypeOK
<1>10. ASSUME Recover PROVE Answers'
  BY <1>10 DEF Recover, Replace, Prepared, AllowRetry, MayRetry, Emit, Answers, TypeOK
<1>11. ASSUME PrepEnds PROVE Answers'
  BY <1>11 DEF PrepEnds, Prepared, Answers, TypeOK
<1>12. ASSUME NEW u \in Uploads, Invoke(u) PROVE Answers'
  BY <1>12 DEF Invoke, Set, MarkDeliveryStarted, Mark, Answers, TypeOK
<1>13. ASSUME NEW u \in Uploads, CallFails(u) PROVE Answers'
  BY <1>13 DEF CallFails, Set, Answers, TypeOK
<1>14. ASSUME NEW u \in Uploads, BodySent(u) PROVE Answers'
  BY <1>14 DEF BodySent, Answers, TypeOK
<1>15. ASSUME NEW u \in Uploads, Process(u) PROVE Answers'
  BY <1>15 DEF Process, Answers, TypeOK
<1>16. ASSUME NEW u \in Uploads, ReplyOk(u) PROVE Answers'
  BY <1>16 DEF ReplyOk, Set, MarkDeliveryConfirmed, Mark, Answers, TypeOK
<1>17. ASSUME NEW u \in Uploads, ReplyRejected(u) PROVE Answers'
  BY <1>17 DEF ReplyRejected, Set, MarkDeliveryRejected, Mark, Answers, TypeOK
<1>18. ASSUME NEW u \in Uploads, ReplyUnclear(u) PROVE Answers'
  BY <1>18 DEF ReplyUnclear, Set, Answers, TypeOK
<1>19. ASSUME NEW t \in Streams, Launch(t) PROVE Answers'
  BY <1>19 DEF Launch, Set, Answers, TypeOK
<1>20. ASSUME NEW t \in Streams, EarlyEnd(t) PROVE Answers'
  BY <1>20 DEF EarlyEnd, Record, Leave, Over, Replies, Answers, TypeOK
<1>21. ASSUME TakeFinished PROVE Answers'
  BY <1>21 DEF TakeFinished, Leave, Answers, TypeOK
<1>22. ASSUME CommitRefused PROVE Answers'
  BY <1>22 DEF CommitRefused, Leave, Answers, TypeOK
<1>23. ASSUME CommitStream PROVE Answers'
  BY <1>23 DEF CommitStream, Leave, BeforeDeliveryCommit, Emit, Answers, TypeOK
<1>24. ASSUME AwaitStream PROVE Answers'
  BY <1>24 DEF AwaitStream, Record, Leave, Over, Replies, Answers, TypeOK
<1>25. ASSUME CommitDirect PROVE Answers'
  BY <1>25 DEF CommitDirect, Leave, Set, BeforeDeliveryCommit, Emit, Answers, TypeOK
<1>26. ASSUME AwaitDirect PROVE Answers'
  BY <1>26 DEF AwaitDirect, Record, Leave, Over, Replies, Answers, TypeOK
<1>27. ASSUME Terminal PROVE Answers'
  BY <1>27 DEF Terminal, Joined, Finish, Emit, Answers, TypeOK
<1>28. ASSUME ContextEnds PROVE Answers'
  BY <1>28 DEF ContextEnds, EndContext, Answers, TypeOK
<1>29. CASE UNCHANGED vars
  BY <1>29 DEF vars, Answers, TypeOK
<1> QED
  BY <1>1, <1>2, <1>3, <1>4, <1>5, <1>6, <1>7, <1>8, <1>9, <1>10, <1>11, <1>12, <1>13, <1>14, <1>15, <1>16, <1>17, <1>18, <1>19, <1>20, <1>21, <1>22, <1>23, <1>24, <1>25, <1>26, <1>27, <1>28, <1>29 DEF Next, Preparation, Call, Main

\* Only messages count as successes.
LEMMA CountsStep == TypeOK /\ Stages /\ Gates /\ Calls /\ Answers /\ Counts /\ [Next]_vars => Counts'
<1> SUFFICES ASSUME TypeOK, Stages, Gates, Calls, Answers, Counts, [Next]_vars PROVE Counts'
  OBVIOUS
<1> USE ConstantFacts DEF opVars, prepVars, resultVars, telegramVars
<1>1. ASSUME ExtractRetry PROVE Counts'
  BY <1>1 DEF ExtractRetry, AllowRetry, MayRetry, Emit, Counts, AllProcessed, Calls, Answers, Gates, Committing, Left, TypeOK
<1>2. ASSUME ExtractFails PROVE Counts'
  BY <1>2 DEF ExtractFails, Counts, AllProcessed, Calls, Answers, Gates, Committing, Left, TypeOK
<1>3. ASSUME Prepare PROVE Counts'
  BY <1>3 DEF Prepare, Dead, Counts, AllProcessed, Calls, Answers, Gates, Committing, Left, TypeOK
<1>4. ASSUME Announce PROVE Counts'
  BY <1>4 DEF Announce, Set, Dead, Counts, AllProcessed, Calls, Answers, Gates, Committing, Left, TypeOK
<1>5. ASSUME NEW t \in Streams, Withdraw(t) PROVE Counts'
  BY <1>5 DEF Withdraw, Set, Counts, AllProcessed, Calls, Answers, Gates, Committing, Left, TypeOK
<1>6. ASSUME NEW to \in {"complete", "closed"}, TransferEnds(to) PROVE Counts'
  BY <1>6 DEF TransferEnds, Counts, AllProcessed, Calls, Answers, Gates, Committing, Left, TypeOK
<1>7. ASSUME RangeRetry PROVE Counts'
  BY <1>7 DEF RangeRetry, AllowRetry, MayRetry, Emit, Counts, AllProcessed, Calls, Answers, Gates, Committing, Left, TypeOK
<1>8. ASSUME MediaRetry PROVE Counts'
  BY <1>8 DEF MediaRetry, Replace, AllowRetry, MayRetry, Emit, Counts, AllProcessed, Calls, Answers, Gates, Committing, Left, TypeOK
<1>9. ASSUME DownloadFails PROVE Counts'
  BY <1>9 DEF DownloadFails, Counts, AllProcessed, Calls, Answers, Gates, Committing, Left, TypeOK
<1>10. ASSUME Recover PROVE Counts'
  BY <1>10 DEF Recover, Replace, Prepared, AllowRetry, MayRetry, Emit, Counts, AllProcessed, Calls, Answers, Gates, Committing, Left, TypeOK
<1>11. ASSUME PrepEnds PROVE Counts'
  BY <1>11 DEF PrepEnds, Prepared, Counts, AllProcessed, Calls, Answers, Gates, Committing, Left, TypeOK
<1>12. ASSUME NEW u \in Uploads, Invoke(u) PROVE Counts'
  BY <1>12 DEF Invoke, Set, MarkDeliveryStarted, Mark, Counts, AllProcessed, Calls, Answers, Gates, Committing, Left, TypeOK
<1>13. ASSUME NEW u \in Uploads, CallFails(u) PROVE Counts'
  BY <1>13 DEF CallFails, Set, Counts, AllProcessed, Calls, Answers, Gates, Committing, Left, TypeOK
<1>14. ASSUME NEW u \in Uploads, BodySent(u) PROVE Counts'
  BY <1>14 DEF BodySent, Counts, AllProcessed, Calls, Answers, Gates, Committing, Left, TypeOK
<1>15. ASSUME NEW u \in Uploads, Process(u) PROVE Counts'
  BY <1>15 DEF Process, Counts, AllProcessed, Calls, Answers, Gates, Committing, Left, TypeOK
<1>16. ASSUME NEW u \in Uploads, ReplyOk(u) PROVE Counts'
  BY <1>16 DEF ReplyOk, Set, MarkDeliveryConfirmed, Mark, Counts, AllProcessed, Calls, Answers, Gates, Committing, Left, TypeOK
<1>17. ASSUME NEW u \in Uploads, ReplyRejected(u) PROVE Counts'
  BY <1>17 DEF ReplyRejected, Set, MarkDeliveryRejected, Mark, Counts, AllProcessed, Calls, Answers, Gates, Committing, Left, TypeOK
<1>18. ASSUME NEW u \in Uploads, ReplyUnclear(u) PROVE Counts'
  BY <1>18 DEF ReplyUnclear, Set, Counts, AllProcessed, Calls, Answers, Gates, Committing, Left, TypeOK
<1>19. ASSUME NEW t \in Streams, Launch(t) PROVE Counts'
  BY <1>19 DEF Launch, Set, Counts, AllProcessed, Calls, Answers, Gates, Committing, Left, TypeOK
<1>20. ASSUME NEW t \in Streams, EarlyEnd(t) PROVE Counts'
  <2>1. main = "select" /\ t \in Uploads /\ call[t] \in Over /\ streamed
    BY <1>20 DEF EarlyEnd, Over, Replies, Calls
  <2>2. /\ batch = succeeded + 1 /\ succeeded \in Nat
        /\ succeeded' = (IF call[t] = "ok" THEN batch ELSE succeeded)
        /\ outcome' = (IF call[t] \in {"rejected", "unclear"} THEN "rejected" ELSE "none")
        /\ err' = (call[t] = "error")
    BY <1>20, <2>1, RecordShape DEF EarlyEnd, Left
  <2>3. batch = 1
    BY <2>1 DEF Counts, Left
  <2>4. UNCHANGED <<batch, telegramVars, streamed>> /\ main' = "cleanup"
    BY <1>20 DEF EarlyEnd, Leave
  <2>5. \A k \in 1..NumBatches : ~(k < batch)
    BY <2>3
  <2>6. CASE call[t] = "ok"
    <3>1. succeeded' = 1 /\ outcome' = "none" /\ ~err' /\ processed # {}
      BY <2>1, <2>2, <2>3, <2>6 DEF Answers
    <3> QED
      BY <2>1, <2>3, <2>4, <2>5, <3>1 DEF Counts, Left, AllProcessed
  <2>7. CASE call[t] # "ok"
    <3>1. succeeded' = 0
      BY <2>2, <2>3, <2>7
    <3>2. outcome' # "none" \/ err'
      BY <2>1, <2>2, <2>7 DEF Over, Replies
    <3> QED
      BY <2>3, <2>4, <2>5, <3>1, <3>2 DEF Counts, Left
  <2> QED
    BY <2>6, <2>7
<1>21. ASSUME TakeFinished PROVE Counts'
  BY <1>21 DEF TakeFinished, Leave, Counts, AllProcessed, Calls, Answers, Gates, Committing, Left, TypeOK
<1>22. ASSUME CommitRefused PROVE Counts'
  <2>1. main \in {"commit", "direct"} /\ main' = "cleanup" /\ err'
        /\ UNCHANGED <<batch, outcome, succeeded, telegramVars, streamed>>
    BY <1>22 DEF CommitRefused, Leave
  <2>2. batch = succeeded + 1 /\ succeeded \in 0..NumBatches /\ (streamed => batch = 1)
    BY <2>1 DEF Counts, Gates, Left, TypeOK
  <2>3. ~(streamed /\ succeeded > 0)
    BY <2>2
  <2> QED
    BY <2>1, <2>2, <2>3 DEF Counts, Left
<1>23. ASSUME CommitStream PROVE Counts'
  BY <1>23 DEF CommitStream, Leave, BeforeDeliveryCommit, Emit, Counts, AllProcessed, Calls, Answers, Gates, Committing, Left, TypeOK
<1>24. ASSUME AwaitStream PROVE Counts'
  <2>1. main = "await" /\ transfer \in Uploads /\ call[transfer] \in Over /\ streamed
    BY <1>24 DEF AwaitStream, Over, Replies, Calls, Stages, Committing
  <2>2. /\ batch = succeeded + 1 /\ succeeded \in Nat
        /\ succeeded' = (IF call[transfer] = "ok" THEN batch ELSE succeeded)
        /\ outcome' = (IF call[transfer] \in {"rejected", "unclear"} THEN "rejected" ELSE "none")
        /\ err' = (call[transfer] = "error")
    BY <1>24, <2>1, RecordShape DEF AwaitStream, Left
  <2>3. batch = 1
    BY <2>1 DEF Counts, Left
  <2>4. UNCHANGED <<batch, telegramVars, streamed>> /\ main' = "cleanup"
    BY <1>24 DEF AwaitStream, Leave
  <2>5. \A k \in 1..NumBatches : ~(k < batch)
    BY <2>3
  <2>6. CASE call[transfer] = "ok"
    <3>1. succeeded' = 1 /\ outcome' = "none" /\ ~err' /\ processed # {}
      BY <2>1, <2>2, <2>3, <2>6 DEF Answers
    <3> QED
      BY <2>1, <2>3, <2>4, <2>5, <3>1 DEF Counts, Left, AllProcessed
  <2>7. CASE call[transfer] # "ok"
    <3>1. succeeded' = 0
      BY <2>2, <2>3, <2>7
    <3>2. outcome' # "none" \/ err'
      BY <2>1, <2>2, <2>7 DEF Over, Replies
    <3> QED
      BY <2>3, <2>4, <2>5, <3>1, <3>2 DEF Counts, Left
  <2> QED
    BY <2>6, <2>7
<1>25. ASSUME CommitDirect PROVE Counts'
  <2>1. main = "direct" /\ UNCHANGED <<batch, outcome, succeeded, telegramVars, streamed>>
    BY <1>25 DEF CommitDirect
  <2>2. batch = succeeded + 1 /\ succeeded \in 0..NumBatches /\ (streamed => batch = 1)
    BY <2>1 DEF Counts, Gates, Left, TypeOK
  <2>3. ~(streamed /\ succeeded > 0)
    BY <2>2
  <2>4. CASE ended'
    <3>1. main' = "cleanup" /\ err'
      BY <1>25, <2>4 DEF CommitDirect, Leave
    <3> QED
      BY <2>1, <2>2, <2>3, <3>1 DEF Counts, Left
  <2>5. CASE ~ended'
    <3>1. main' = "directAwait" /\ UNCHANGED err
      BY <1>25, <2>5 DEF CommitDirect
    <3> QED
      BY <2>1, <2>2, <2>3, <3>1 DEF Counts, Left
  <2> QED
    BY <2>4, <2>5
<1>26. ASSUME AwaitDirect PROVE Counts'
  <2> DEFINE u == Direct(batch)
  <2>1. main = "directAwait" /\ u \in Uploads /\ call[u] \in Over /\ batch \in 1..NumBatches
    BY <1>26 DEF AwaitDirect, TypeOK
  <2>2. /\ batch = succeeded + 1 /\ succeeded \in Nat
        /\ succeeded' = (IF call[u] = "ok" THEN batch ELSE succeeded)
        /\ outcome' = (IF call[u] \in {"rejected", "unclear"} THEN "rejected" ELSE "none")
        /\ err' = (call[u] = "error")
    BY <1>26, <2>1, RecordShape DEF AwaitDirect, Left
  <2>3. UNCHANGED <<telegramVars, streamed>>
    BY <1>26 DEF AwaitDirect
  <2>4. /\ call[u] = "ok" => u \in processed
        /\ \A k \in 1..NumBatches : k < batch => Direct(k) \in processed
        /\ succeeded > 0 => processed # {}
        /\ streamed => batch = 1
    BY <2>1 DEF Answers, Counts, Gates, Left
  <2>5. CASE call[u] = "ok"
    <3>1. succeeded' = batch /\ outcome' = "none" /\ ~err' /\ processed # {}
      BY <2>2, <2>4, <2>5
    <3>2. \A k \in 1..NumBatches : k <= batch => Direct(k) \in processed
      BY <2>1, <2>4, <2>5
    <3>3. CASE main' = "direct" /\ batch' = batch + 1 /\ ~streamed
      <4>1. \A k \in 1..NumBatches : k < batch' => Direct(k) \in processed
        BY <2>1, <3>2, <3>3
      <4> QED
        BY <2>3, <3>1, <3>3, <4>1 DEF Counts, Left
    <3>4. CASE main' = "cleanup" /\ batch' = batch /\ (streamed \/ ~(batch < NumBatches))
      <4>1. ~streamed => batch = NumBatches
        BY <2>1, <3>4
      <4> QED
        BY <2>1, <2>3, <2>4, <3>1, <3>2, <3>4, <4>1 DEF Counts, Left, AllProcessed
    <3> QED
      BY <1>26, <2>5, <3>3, <3>4 DEF AwaitDirect, Leave
  <2>6. CASE call[u] # "ok"
    <3>1. /\ succeeded' = succeeded /\ (outcome' # "none" \/ err')
          /\ main' = "cleanup" /\ batch' = batch
      BY <1>26, <2>1, <2>2, <2>6 DEF AwaitDirect, Leave, Over, Replies
    <3>2. ~(streamed /\ succeeded > 0)
      BY <2>2, <2>4
    <3> QED
      BY <2>2, <2>3, <2>4, <3>1, <3>2 DEF Counts, Left
  <2> QED
    BY <2>5, <2>6
<1>27. ASSUME Terminal PROVE Counts'
  BY <1>27 DEF Terminal, Joined, Finish, Emit, Counts, AllProcessed, Calls, Answers, Gates, Committing, Left, TypeOK
<1>28. ASSUME ContextEnds PROVE Counts'
  BY <1>28 DEF ContextEnds, EndContext, Counts, AllProcessed, Calls, Answers, Gates, Committing, Left, TypeOK
<1>29. CASE UNCHANGED vars
  BY <1>29 DEF vars, Counts, AllProcessed, Calls, Answers, Gates, Committing, Left, TypeOK
<1> QED
  BY <1>1, <1>2, <1>3, <1>4, <1>5, <1>6, <1>7, <1>8, <1>9, <1>10, <1>11, <1>12, <1>13, <1>14, <1>15, <1>16, <1>17, <1>18, <1>19, <1>20, <1>21, <1>22, <1>23, <1>24, <1>25, <1>26, <1>27, <1>28, <1>29 DEF Next, Preparation, Call, Main

\* The terminal event says what was counted.
LEMMA VerdictStep == TypeOK /\ Verdict /\ [Next]_vars => Verdict'
<1> SUFFICES ASSUME TypeOK, Verdict, [Next]_vars PROVE Verdict'
  OBVIOUS
<1> USE ConstantFacts DEF opVars, prepVars, resultVars, telegramVars
<1>1. ASSUME ExtractRetry PROVE Verdict'
  BY <1>1 DEF ExtractRetry, AllowRetry, MayRetry, Emit, Verdict, TypeOK, NoReport
<1>2. ASSUME ExtractFails PROVE Verdict'
  BY <1>2 DEF ExtractFails, Verdict, TypeOK, NoReport
<1>3. ASSUME Prepare PROVE Verdict'
  BY <1>3 DEF Prepare, Dead, Verdict, TypeOK, NoReport
<1>4. ASSUME Announce PROVE Verdict'
  BY <1>4 DEF Announce, Set, Dead, Verdict, TypeOK, NoReport
<1>5. ASSUME NEW t \in Streams, Withdraw(t) PROVE Verdict'
  BY <1>5 DEF Withdraw, Set, Verdict, TypeOK, NoReport
<1>6. ASSUME NEW to \in {"complete", "closed"}, TransferEnds(to) PROVE Verdict'
  BY <1>6 DEF TransferEnds, Verdict, TypeOK, NoReport
<1>7. ASSUME RangeRetry PROVE Verdict'
  BY <1>7 DEF RangeRetry, AllowRetry, MayRetry, Emit, Verdict, TypeOK, NoReport
<1>8. ASSUME MediaRetry PROVE Verdict'
  BY <1>8 DEF MediaRetry, Replace, AllowRetry, MayRetry, Emit, Verdict, TypeOK, NoReport
<1>9. ASSUME DownloadFails PROVE Verdict'
  BY <1>9 DEF DownloadFails, Verdict, TypeOK, NoReport
<1>10. ASSUME Recover PROVE Verdict'
  BY <1>10 DEF Recover, Replace, Prepared, AllowRetry, MayRetry, Emit, Verdict, TypeOK, NoReport
<1>11. ASSUME PrepEnds PROVE Verdict'
  BY <1>11 DEF PrepEnds, Prepared, Verdict, TypeOK, NoReport
<1>12. ASSUME NEW u \in Uploads, Invoke(u) PROVE Verdict'
  BY <1>12 DEF Invoke, Set, MarkDeliveryStarted, Mark, Verdict, TypeOK, NoReport
<1>13. ASSUME NEW u \in Uploads, CallFails(u) PROVE Verdict'
  BY <1>13 DEF CallFails, Set, Verdict, TypeOK, NoReport
<1>14. ASSUME NEW u \in Uploads, BodySent(u) PROVE Verdict'
  BY <1>14 DEF BodySent, Verdict, TypeOK, NoReport
<1>15. ASSUME NEW u \in Uploads, Process(u) PROVE Verdict'
  BY <1>15 DEF Process, Verdict, TypeOK, NoReport
<1>16. ASSUME NEW u \in Uploads, ReplyOk(u) PROVE Verdict'
  BY <1>16 DEF ReplyOk, Set, MarkDeliveryConfirmed, Mark, Verdict, TypeOK, NoReport
<1>17. ASSUME NEW u \in Uploads, ReplyRejected(u) PROVE Verdict'
  BY <1>17 DEF ReplyRejected, Set, MarkDeliveryRejected, Mark, Verdict, TypeOK, NoReport
<1>18. ASSUME NEW u \in Uploads, ReplyUnclear(u) PROVE Verdict'
  BY <1>18 DEF ReplyUnclear, Set, Verdict, TypeOK, NoReport
<1>19. ASSUME NEW t \in Streams, Launch(t) PROVE Verdict'
  BY <1>19 DEF Launch, Set, Verdict, TypeOK, NoReport
<1>20. ASSUME NEW t \in Streams, EarlyEnd(t) PROVE Verdict'
  BY <1>20 DEF EarlyEnd, Record, Leave, Over, Replies, Verdict, TypeOK, NoReport
<1>21. ASSUME TakeFinished PROVE Verdict'
  BY <1>21 DEF TakeFinished, Leave, Verdict, TypeOK, NoReport
<1>22. ASSUME CommitRefused PROVE Verdict'
  BY <1>22 DEF CommitRefused, Leave, Verdict, TypeOK, NoReport
<1>23. ASSUME CommitStream PROVE Verdict'
  BY <1>23 DEF CommitStream, Leave, BeforeDeliveryCommit, Emit, Verdict, TypeOK, NoReport
<1>24. ASSUME AwaitStream PROVE Verdict'
  BY <1>24 DEF AwaitStream, Record, Leave, Over, Replies, Verdict, TypeOK, NoReport
<1>25. ASSUME CommitDirect PROVE Verdict'
  BY <1>25 DEF CommitDirect, Leave, Set, BeforeDeliveryCommit, Emit, Verdict, TypeOK, NoReport
<1>26. ASSUME AwaitDirect PROVE Verdict'
  BY <1>26 DEF AwaitDirect, Record, Leave, Over, Replies, Verdict, TypeOK, NoReport
<1>27. ASSUME Terminal PROVE Verdict'
  <2>1. /\ main' = "done" /\ report' = TerminalEvent
        /\ UNCHANGED <<outcome, err, succeeded>>
    BY <1>27 DEF Terminal
  <2>2. /\ TerminalEvent.outcome = "succeeded" => outcome = "none" /\ ~err
        /\ TerminalEvent.outcome = "partial" => succeeded > 0 /\ (outcome # "none" \/ err)
    <3>1. TerminalEvent.outcome \in {EventOutcome, "failed"}
      BY DEF TerminalEvent
    <3>2. outcome \in {"none", "rejected"}
      BY DEF TypeOK
    <3> QED
      BY <3>1, <3>2 DEF EventOutcome
  <2> QED
    BY <2>1, <2>2 DEF Verdict
<1>28. ASSUME ContextEnds PROVE Verdict'
  BY <1>28 DEF ContextEnds, EndContext, Verdict, TypeOK, NoReport
<1>29. CASE UNCHANGED vars
  BY <1>29 DEF vars, Verdict, TypeOK, NoReport
<1> QED
  BY <1>1, <1>2, <1>3, <1>4, <1>5, <1>6, <1>7, <1>8, <1>9, <1>10, <1>11, <1>12, <1>13, <1>14, <1>15, <1>16, <1>17, <1>18, <1>19, <1>20, <1>21, <1>22, <1>23, <1>24, <1>25, <1>26, <1>27, <1>28, <1>29 DEF Next, Preparation, Call, Main

\* Without late replies of stopped uploads, a refusal is of what was to be
\* delivered.
LEMMA RefusalsStep == TypeOK /\ Stages /\ Gates /\ Calls /\ Counts /\ Verdict /\ Refusals /\ [Next]_vars => Refusals'
<1> SUFFICES ASSUME TypeOK, Stages, Gates, Calls, Counts, Verdict, Refusals, [Next]_vars PROVE Refusals'
  OBVIOUS
<1> USE ConstantFacts DEF opVars, prepVars, resultVars, telegramVars
<1>1. ASSUME ExtractRetry PROVE Refusals'
  BY <1>1 DEF ExtractRetry, AllowRetry, MayRetry, Emit, Refusals, Excused, Verdict, NoReport, Left, TypeOK
<1>2. ASSUME ExtractFails PROVE Refusals'
  <2>1. /\ main \notin Left /\ gate = {} /\ outcome' = "none" /\ main' # "await"
        /\ UNCHANGED <<facts, gate, call, refused, late, report>>
    BY <1>2 DEF ExtractFails, Left, Gates, Counts
  <2> QED
    BY <2>1 DEF Refusals, Verdict, NoReport, Left
<1>3. ASSUME Prepare PROVE Refusals'
  BY <1>3 DEF Prepare, Dead, Refusals, Excused, Verdict, NoReport, Left, TypeOK
<1>4. ASSUME Announce PROVE Refusals'
  BY <1>4 DEF Announce, Set, Dead, Refusals, Excused, Verdict, NoReport, Left, TypeOK
<1>5. ASSUME NEW t \in Streams, Withdraw(t) PROVE Refusals'
  BY <1>5 DEF Withdraw, Set, Refusals, Excused, Verdict, NoReport, Left, TypeOK
<1>6. ASSUME NEW to \in {"complete", "closed"}, TransferEnds(to) PROVE Refusals'
  BY <1>6 DEF TransferEnds, Refusals, Excused, Verdict, NoReport, Left, TypeOK
<1>7. ASSUME RangeRetry PROVE Refusals'
  BY <1>7 DEF RangeRetry, AllowRetry, MayRetry, Emit, Refusals, Excused, Verdict, NoReport, Left, TypeOK
<1>8. ASSUME MediaRetry PROVE Refusals'
  <2>1. facts' = facts
    BY <1>8, RetryShape DEF MediaRetry
  <2>2. /\ main # "await" /\ UNCHANGED <<main, gate, call, refused, late, report, outcome>>
    BY <1>8 DEF MediaRetry, Prepared, Stages, Committing
  <2> QED
    BY <2>1, <2>2 DEF Refusals, Excused
<1>9. ASSUME DownloadFails PROVE Refusals'
  BY <1>9 DEF DownloadFails, Refusals, Excused, Verdict, NoReport, Left, TypeOK
<1>10. ASSUME Recover PROVE Refusals'
  <2>1. facts' = facts
    BY <1>10, RetryShape DEF Recover
  <2>2. /\ main # "await" /\ UNCHANGED <<main, gate, call, refused, late, report, outcome>>
    BY <1>10 DEF Recover, Prepared, Stages, Committing
  <2> QED
    BY <2>1, <2>2 DEF Refusals, Excused
<1>11. ASSUME PrepEnds PROVE Refusals'
  BY <1>11 DEF PrepEnds, Prepared, Refusals, Excused, Verdict, NoReport, Left, TypeOK
<1>12. ASSUME NEW u \in Uploads, Invoke(u) PROVE Refusals'
  BY <1>12 DEF Invoke, Set, MarkDeliveryStarted, Mark, Refusals, Excused, Verdict, NoReport, Left, TypeOK
<1>13. ASSUME NEW u \in Uploads, CallFails(u) PROVE Refusals'
  BY <1>13 DEF CallFails, Set, Refusals, Excused, Verdict, NoReport, Left, TypeOK
<1>14. ASSUME NEW u \in Uploads, BodySent(u) PROVE Refusals'
  BY <1>14 DEF BodySent, Refusals, Excused, Verdict, NoReport, Left, TypeOK
<1>15. ASSUME NEW u \in Uploads, Process(u) PROVE Refusals'
  BY <1>15 DEF Process, Refusals, Excused, Verdict, NoReport, Left, TypeOK
<1>16. ASSUME NEW u \in Uploads, ReplyOk(u) PROVE Refusals'
  BY <1>16 DEF ReplyOk, Set, MarkDeliveryConfirmed, Mark, Refusals, Excused, Verdict, NoReport, Left, TypeOK
<1>17. ASSUME NEW u \in Uploads, ReplyRejected(u) PROVE Refusals'
  <2>1. /\ call[u] = "sending" /\ refused' = refused \cup {u}
        /\ late' = IF "possible" \in facts /\ u \notin gate THEN late \cup {u} ELSE late
        /\ call' = [call EXCEPT ![u] = "rejected"]
        /\ UNCHANGED <<gate, report, main, transfer, outcome>>
    BY <1>17 DEF ReplyRejected, Set
  <2>2. gate # {} => u \in gate \/ u \in late'
    BY <2>1 DEF Gates
  <2>3. \A v \in Uploads : call'[v] = "rejected" => v \in refused'
    BY <2>1 DEF Refusals, TypeOK
  <2>4. ASSUME NEW v \in Uploads, Excused(v) PROVE Excused(v)'
    BY <2>1, <2>4 DEF Excused, TypeOK
  <2>5. ASSUME NEW v \in gate, call[v] \in {"rejected", "unclear"} PROVE call'[v] \in {"rejected", "unclear"}
    BY <2>1, <2>5 DEF TypeOK
  <2> QED
    BY <2>1, <2>2, <2>3, <2>4, <2>5 DEF Refusals
<1>18. ASSUME NEW u \in Uploads, ReplyUnclear(u) PROVE Refusals'
  BY <1>18 DEF ReplyUnclear, Set, Refusals, Excused, Verdict, NoReport, Left, TypeOK
<1>19. ASSUME NEW t \in Streams, Launch(t) PROVE Refusals'
  BY <1>19 DEF Launch, Set, Refusals, Excused, Verdict, NoReport, Left, TypeOK
<1>20. ASSUME NEW t \in Streams, EarlyEnd(t) PROVE Refusals'
  <2>1. /\ main = "select" /\ gate = {} /\ main' = "cleanup"
        /\ UNCHANGED <<facts, gate, call, refused, late, report>>
    BY <1>20 DEF EarlyEnd, Leave, Gates
  <2> QED
    BY <2>1 DEF Refusals, Verdict, NoReport, Left
<1>21. ASSUME TakeFinished PROVE Refusals'
  <2>1. /\ main \notin Left /\ gate = {} /\ outcome' = "none" /\ main' # "await"
        /\ UNCHANGED <<facts, gate, call, refused, late, report>>
    BY <1>21 DEF TakeFinished, Leave, Left, Gates, Counts
  <2> QED
    BY <2>1 DEF Refusals, Verdict, NoReport, Left
<1>22. ASSUME CommitRefused PROVE Refusals'
  <2>1. /\ main \notin Left /\ main' = "cleanup" /\ outcome' = "none"
        /\ UNCHANGED <<facts, gate, call, refused, late, report>>
    BY <1>22 DEF CommitRefused, Leave, Left, Counts
  <2> QED
    BY <2>1 DEF Refusals, Verdict, NoReport, Left
<1>23. ASSUME CommitStream PROVE Refusals'
  <2>1. /\ "rejected" \notin facts' /\ main = "commit" /\ outcome' = "none"
        /\ UNCHANGED <<report, refused, late, call, transfer>>
    BY <1>23, CommitShape DEF CommitStream, Counts, Left
  <2>2. main' = "await" => transfer' \in gate'
    BY <1>23, <2>1 DEF CommitStream, Leave
  <2> QED
    BY <2>1, <2>2 DEF Refusals, Verdict, NoReport, Left
<1>24. ASSUME AwaitStream PROVE Refusals'
  <2>1. /\ main = "await" /\ main' = "cleanup" /\ transfer \in gate
        /\ UNCHANGED <<facts, gate, call, refused, late, report>>
    BY <1>24 DEF AwaitStream, Leave, Refusals
  <2>2. outcome' = "rejected" => call[transfer] \in {"rejected", "unclear"}
    BY <1>24, <2>1 DEF AwaitStream, Record, Counts, Left
  <2> QED
    BY <2>1, <2>2 DEF Refusals, Verdict, NoReport, Left
<1>25. ASSUME CommitDirect PROVE Refusals'
  <2>1. /\ "rejected" \notin facts' /\ main = "direct" /\ outcome' = "none"
        /\ UNCHANGED <<report, refused, late>>
    BY <1>25, CommitShape DEF CommitDirect, Counts, Left
  <2>2. main' # "await" /\ (call' = call \/ call' = [call EXCEPT ![Direct(batch)] = "launched"])
    BY <1>25 DEF CommitDirect, Leave, Set
  <2>3. \A u \in Uploads : call'[u] = "rejected" => u \in refused'
    BY <2>1, <2>2 DEF Refusals, TypeOK
  <2> QED
    BY <2>1, <2>2, <2>3 DEF Refusals, Verdict, NoReport, Left
<1>26. ASSUME AwaitDirect PROVE Refusals'
  <2>1. /\ main = "directAwait" /\ call[Direct(batch)] \in Over /\ main' \in {"direct", "cleanup"}
        /\ UNCHANGED <<facts, gate, call, refused, late, report>>
    BY <1>26 DEF AwaitDirect, Leave
  <2>2. Direct(batch) \in Uploads \ Streams
    BY DEF TypeOK
  <2>3. Direct(batch) \in gate
    BY <2>1, <2>2 DEF Calls, Over, Replies
  <2>4. outcome' = "rejected" => call[Direct(batch)] \in {"rejected", "unclear"}
    BY <1>26, <2>1 DEF AwaitDirect, Record, Counts, Left
  <2> QED
    BY <2>1, <2>3, <2>4 DEF Refusals, Verdict, NoReport, Left
<1>27. ASSUME Terminal PROVE Refusals'
  <2>1. /\ main = "cleanup" /\ report' = TerminalEvent /\ facts' = facts \cup {"terminal"}
        /\ main' = "done" /\ UNCHANGED <<gate, refused, late, call, outcome>>
    BY <1>27 DEF Terminal, Finish
  <2>2. /\ "rejected" \in facts' /\ gate' # {} => gate' \cap refused' # {} \/ late' # {}
        /\ \A u \in Uploads : call'[u] = "rejected" => u \in refused'
        /\ outcome' = "rejected" /\ gate' # {} => \E u \in gate' : call'[u] \in {"rejected", "unclear"}
    BY <2>1 DEF Refusals, Left
  <2>3. ASSUME TerminalEvent.safe, gate # {}
        PROVE  TerminalEvent.state = "rejected" /\ \E u \in Uploads : gate = {u} /\ Excused(u)
    <3>1. "possible" \in facts
      BY <2>3 DEF Gates
    <3>2. TerminalEvent.state = "rejected" /\ EventOutcome = "rejected" /\ "rejected" \in facts
      BY <2>3, <3>1 DEF TerminalEvent
    <3>3. ~(succeeded > 0) /\ succeeded \in Nat /\ outcome = "rejected"
      BY <3>2 DEF EventOutcome, TypeOK
    <3>4. batch = 1
      <4>1. batch \in {succeeded, succeeded + 1} /\ batch \in Nat /\ batch >= 1
        BY <2>1 DEF Counts, Left, TypeOK
      <4> QED
        BY <3>3, <4>1
    <3>5. PICK u \in gate : call[u] \in {"rejected", "unclear"}
      BY <2>1, <2>3, <3>3 DEF Refusals, Left
    <3>6. gate = {u} /\ u \in Uploads
      <4>1. CASE gate \cap Streams # {}
        BY <3>5, <4>1 DEF Gates, TypeOK
      <4>2. CASE gate \cap Streams = {}
        <5>1. gate \subseteq {Direct(k) : k \in 1..1}
          BY <3>4, <4>2 DEF Gates
        <5>2. gate \subseteq {Direct(1)}
          BY <5>1
        <5> QED
          BY <3>5, <5>2 DEF TypeOK
      <4> QED
        BY <4>1, <4>2
    <3>7. Excused(u)
      BY <2>3, <3>2, <3>5, <3>6 DEF Excused, Refusals
    <3> QED
      BY <3>2, <3>6, <3>7
  <2> QED
    BY <2>1, <2>2, <2>3 DEF Refusals, Excused
<1>28. ASSUME ContextEnds PROVE Refusals'
  BY <1>28 DEF ContextEnds, EndContext, Refusals, Excused, Verdict, NoReport, Left, TypeOK
<1>29. CASE UNCHANGED vars
  BY <1>29 DEF vars, Refusals, Excused, Verdict, NoReport, Left, TypeOK
<1> QED
  BY <1>1, <1>2, <1>3, <1>4, <1>5, <1>6, <1>7, <1>8, <1>9, <1>10, <1>11, <1>12, <1>13, <1>14, <1>15, <1>16, <1>17, <1>18, <1>19, <1>20, <1>21, <1>22, <1>23, <1>24, <1>25, <1>26, <1>27, <1>28, <1>29 DEF Next, Preparation, Call, Main

-----------------------------------------------------------------------------
(* Events *)

\* The order of two events, as EventOrder has it.
Ordered(a, b) ==
  /\ b[1] = "attempt" => a[1] = "attempt" /\ a[2] < b[2]
  /\ b[2] <= MaxAttempts
  /\ a[1] # "terminal"

\* An event that may follow all others keeps the order.
LEMMA AppendOrdered ==
  ASSUME EventOrder, Events, NEW e \in {"attempt", "delivery_commit", "terminal"} \X (1..MaxAttempts),
         events' = Append(events, e),
         \A i \in 1..Len(events) : Ordered(events[i], e)
  PROVE  EventOrder'
<1>1. /\ Len(events') = Len(events) + 1 /\ Len(events) \in Nat
      /\ \A i \in 1..Len(events) : events'[i] = events[i]
      /\ events'[Len(events) + 1] = e
  BY DEF Events
<1> SUFFICES ASSUME NEW i \in 1..Len(events'), NEW j \in 1..Len(events'), i < j
             PROVE  Ordered(events'[i], events'[j])
  BY DEF EventOrder, Ordered
<1>2. i \in 1..Len(events)
  BY <1>1
<1>3. CASE j \in 1..Len(events)
  BY <1>1, <1>2, <1>3 DEF EventOrder, Ordered
<1>4. CASE j = Len(events) + 1
  BY <1>1, <1>2, <1>4
<1> QED
  BY <1>1, <1>3, <1>4

\* What appending to a sequence changes.
LEMMA AppendCases ==
  ASSUME NEW E, NEW e \in E, NEW s \in Seq(E), NEW t, t = s \/ t = Append(s, e)
  PROVE  /\ t \in Seq(E) /\ Len(s) \in Nat
         /\ \A i \in 1..Len(t) : t[i] = e \/ (i \in 1..Len(s) /\ t[i] = s[i])
<1>1. CASE t = s
  BY <1>1
<1>2. CASE t = Append(s, e)
  <2>1. /\ Len(s) \in Nat /\ t \in Seq(E) /\ Len(t) = Len(s) + 1
        /\ \A i \in 1..(Len(s) + 1) : t[i] = IF i = Len(s) + 1 THEN e ELSE s[i]
    BY <1>2
  <2>2. \A i \in 1..Len(t) : i = Len(s) + 1 \/ i \in 1..Len(s)
    BY <2>1
  <2>3. ASSUME NEW i \in 1..Len(t) PROVE t[i] = e \/ (i \in 1..Len(s) /\ t[i] = s[i])
    <3>1. i \in 1..(Len(s) + 1) /\ t[i] = IF i = Len(s) + 1 THEN e ELSE s[i]
      BY <2>1
    <3>2. i = Len(s) + 1 \/ i \in 1..Len(s)
      BY <2>2
    <3> QED
      BY <3>1, <3>2
  <2> QED
    BY <2>1, <2>3
<1> QED
  BY <1>1, <1>2

\* Emit adds an event or none.
LEMMA EmitShape ==
  ASSUME Events, NEW type \in {"attempt", "delivery_commit", "terminal"}, NEW n \in 1..MaxAttempts,
         Emit(type, n)
  PROVE  /\ <<type, n>> \in {"attempt", "delivery_commit", "terminal"} \X (1..MaxAttempts)
         /\ events' \in Seq({"attempt", "delivery_commit", "terminal"} \X (1..MaxAttempts))
         /\ events' = events \/ events' = Append(events, <<type, n>>)
         /\ Len(events) \in Nat
         /\ \A i \in 1..Len(events') : events'[i] = <<type, n>>
                                         \/ (i \in 1..Len(events) /\ events'[i] = events[i])
<1> DEFINE E == {"attempt", "delivery_commit", "terminal"} \X (1..MaxAttempts)
           e == <<type, n>>
<1>1. e \in E /\ events \in Seq(E) /\ (events' = events \/ events' = Append(events, e))
  BY DEF Events, Emit
<1> HIDE DEF E, e
<1>2. /\ events' \in Seq(E) /\ Len(events) \in Nat
      /\ \A i \in 1..Len(events') : events'[i] = e \/ (i \in 1..Len(events) /\ events'[i] = events[i])
  BY <1>1, AppendCases
<1> QED
  BY <1>1, <1>2 DEF E, e

\* An attempt after attempts.
LEMMA RetryEvents == TypeOK /\ Events /\ EventOrder /\ AllowRetry => Events' /\ EventOrder'
<1> SUFFICES ASSUME TypeOK, Events, EventOrder, AllowRetry PROVE Events' /\ EventOrder'
  OBVIOUS
<1> DEFINE e == <<"attempt", attempt + 1>>
<1>1. /\ attempt' = attempt + 1 /\ attempt' \in 1..MaxAttempts
      /\ facts' = facts /\ facts \cap {"terminal", "possible"} = {}
  BY RetryShape
<1>2. Emit("attempt", attempt + 1)
  BY DEF AllowRetry
<1>3. /\ e \in {"attempt", "delivery_commit", "terminal"} \X (1..MaxAttempts)
      /\ events' \in Seq({"attempt", "delivery_commit", "terminal"} \X (1..MaxAttempts))
      /\ events' = events \/ events' = Append(events, e)
      /\ \A i \in 1..Len(events') : events'[i] = e \/ (i \in 1..Len(events) /\ events'[i] = events[i])
  BY <1>1, <1>2, EmitShape
<1>4. attempt \in 1..MaxAttempts /\ MaxAttempts \in Nat
  BY ConstantFacts DEF TypeOK
<1>5. \A i \in 1..Len(events) : /\ events[i][1] = "attempt"
                                /\ events[i] \in {"attempt", "delivery_commit", "terminal"} \X (1..MaxAttempts)
                                /\ events[i][2] <= attempt /\ events[i][2] \in Nat
  <2>1. \A i \in 1..Len(events) : events[i] \in {"attempt", "delivery_commit", "terminal"} \X (1..MaxAttempts)
    BY DEF Events
  <2> QED
    BY <1>1, <1>4, <2>1 DEF Events
<1>6. Events'
  <2>1. \A i \in 1..Len(events') : events'[i][1] = "attempt" /\ events'[i][2] <= attempt'
    <3> SUFFICES ASSUME NEW i \in 1..Len(events')
                 PROVE  events'[i][1] = "attempt" /\ events'[i][2] <= attempt'
      OBVIOUS
    <3>1. CASE events'[i] = e
      BY <1>1, <1>4, <3>1
    <3>2. CASE i \in 1..Len(events) /\ events'[i] = events[i]
      <4>1. events[i][1] = "attempt" /\ events[i][2] <= attempt /\ events[i][2] \in Nat
        BY <1>5, <3>2
      <4> QED
        BY <1>1, <1>4, <3>2, <4>1
    <3> QED
      BY <1>3, <3>1, <3>2
  <2> QED
    BY <1>1, <1>3, <2>1 DEF Events
<1>7. EventOrder'
  <2>1. CASE events' = events
    BY <2>1 DEF EventOrder
  <2>2. CASE events' = Append(events, e)
    <3>1. \A i \in 1..Len(events) : Ordered(events[i], e)
      BY <1>1, <1>4, <1>5 DEF Ordered
    <3> QED
      BY <1>3, <2>2, <3>1, AppendOrdered
  <2> QED
    BY <1>3, <2>1, <2>2
<1> QED
  BY <1>6, <1>7

\* A commit or the end, while nothing ended before.
LEMMA OtherEvents ==
  ASSUME TypeOK, Events, EventOrder, "terminal" \notin facts, UNCHANGED attempt,
         NEW type \in {"delivery_commit", "terminal"}, Emit(type, attempt),
         facts' \cap {"terminal", "possible"} # {},
         type = "terminal" => "terminal" \in facts'
  PROVE  Events' /\ EventOrder'
<1> DEFINE e == <<type, attempt>>
<1>1. attempt \in 1..MaxAttempts /\ MaxAttempts \in Nat
  BY ConstantFacts DEF TypeOK
<1>2. /\ e \in {"attempt", "delivery_commit", "terminal"} \X (1..MaxAttempts)
      /\ events' \in Seq({"attempt", "delivery_commit", "terminal"} \X (1..MaxAttempts))
      /\ events' = events \/ events' = Append(events, e)
      /\ \A i \in 1..Len(events') : events'[i] = e \/ (i \in 1..Len(events) /\ events'[i] = events[i])
  BY <1>1, EmitShape
<1>3. \A i \in 1..Len(events) : events[i][1] # "terminal" /\ events[i][2] <= attempt
  BY DEF Events
<1>4. Events'
  <2>1. \A i \in 1..Len(events') : /\ events'[i][2] <= attempt'
                                   /\ "terminal" \notin facts' => events'[i][1] # "terminal"
    BY <1>1, <1>2, <1>3
  <2> QED
    BY <1>2, <2>1 DEF Events
<1>5. EventOrder'
  <2>1. CASE events' = events
    BY <2>1 DEF EventOrder
  <2>2. CASE events' = Append(events, e)
    <3>1. \A i \in 1..Len(events) : Ordered(events[i], e)
      BY <1>1, <1>3 DEF Ordered
    <3> QED
      BY <1>2, <2>2, <3>1, AppendOrdered
  <2> QED
    BY <1>2, <2>1, <2>2
<1> QED
  BY <1>4, <1>5

\* Every step keeps the order of the events.
LEMMA EventsStep == TypeOK /\ Events /\ EventOrder /\ [Next]_vars => (Events /\ EventOrder)'
<1> SUFFICES ASSUME TypeOK, Events, EventOrder, [Next]_vars PROVE (Events /\ EventOrder)'
  OBVIOUS
<1> USE ConstantFacts DEF opVars, prepVars, resultVars, telegramVars
<1>1. ASSUME ExtractRetry PROVE (Events /\ EventOrder)'
  BY <1>1, RetryEvents DEF ExtractRetry
<1>2. ASSUME ExtractFails PROVE (Events /\ EventOrder)'
  BY <1>2 DEF ExtractFails, Events, EventOrder
<1>3. ASSUME Prepare PROVE (Events /\ EventOrder)'
  BY <1>3 DEF Prepare, Dead, Events, EventOrder
<1>4. ASSUME Announce PROVE (Events /\ EventOrder)'
  BY <1>4 DEF Announce, Set, Dead, Events, EventOrder
<1>5. ASSUME NEW t \in Streams, Withdraw(t) PROVE (Events /\ EventOrder)'
  BY <1>5 DEF Withdraw, Set, Events, EventOrder
<1>6. ASSUME NEW to \in {"complete", "closed"}, TransferEnds(to) PROVE (Events /\ EventOrder)'
  BY <1>6 DEF TransferEnds, Events, EventOrder
<1>7. ASSUME RangeRetry PROVE (Events /\ EventOrder)'
  BY <1>7, RetryEvents DEF RangeRetry
<1>8. ASSUME MediaRetry PROVE (Events /\ EventOrder)'
  BY <1>8, RetryEvents DEF MediaRetry
<1>9. ASSUME DownloadFails PROVE (Events /\ EventOrder)'
  BY <1>9 DEF DownloadFails, Events, EventOrder
<1>10. ASSUME Recover PROVE (Events /\ EventOrder)'
  BY <1>10, RetryEvents DEF Recover
<1>11. ASSUME PrepEnds PROVE (Events /\ EventOrder)'
  BY <1>11 DEF PrepEnds, Prepared, Events, EventOrder
<1>12. ASSUME NEW u \in Uploads, Invoke(u) PROVE (Events /\ EventOrder)'
  BY <1>12 DEF Invoke, Set, MarkDeliveryStarted, Mark, Events, EventOrder
<1>13. ASSUME NEW u \in Uploads, CallFails(u) PROVE (Events /\ EventOrder)'
  BY <1>13 DEF CallFails, Set, Events, EventOrder
<1>14. ASSUME NEW u \in Uploads, BodySent(u) PROVE (Events /\ EventOrder)'
  BY <1>14 DEF BodySent, Events, EventOrder
<1>15. ASSUME NEW u \in Uploads, Process(u) PROVE (Events /\ EventOrder)'
  BY <1>15 DEF Process, Events, EventOrder
<1>16. ASSUME NEW u \in Uploads, ReplyOk(u) PROVE (Events /\ EventOrder)'
  BY <1>16 DEF ReplyOk, Set, MarkDeliveryConfirmed, Mark, Events, EventOrder
<1>17. ASSUME NEW u \in Uploads, ReplyRejected(u) PROVE (Events /\ EventOrder)'
  BY <1>17 DEF ReplyRejected, Set, MarkDeliveryRejected, Mark, Events, EventOrder
<1>18. ASSUME NEW u \in Uploads, ReplyUnclear(u) PROVE (Events /\ EventOrder)'
  BY <1>18 DEF ReplyUnclear, Set, Events, EventOrder
<1>19. ASSUME NEW t \in Streams, Launch(t) PROVE (Events /\ EventOrder)'
  BY <1>19 DEF Launch, Set, Events, EventOrder
<1>20. ASSUME NEW t \in Streams, EarlyEnd(t) PROVE (Events /\ EventOrder)'
  BY <1>20 DEF EarlyEnd, Record, Leave, Over, Replies, Events, EventOrder
<1>21. ASSUME TakeFinished PROVE (Events /\ EventOrder)'
  BY <1>21 DEF TakeFinished, Leave, Events, EventOrder
<1>22. ASSUME CommitRefused PROVE (Events /\ EventOrder)'
  BY <1>22 DEF CommitRefused, Leave, Events, EventOrder
<1>23. ASSUME CommitStream PROVE (Events /\ EventOrder)'
  <2>1. /\ "terminal" \notin facts /\ UNCHANGED attempt /\ Emit("delivery_commit", attempt)
        /\ facts' = (facts \cup {"possible"}) \ {"rejected"}
    BY <1>23 DEF CommitStream, BeforeDeliveryCommit
  <2> QED
    BY <2>1, OtherEvents
<1>24. ASSUME AwaitStream PROVE (Events /\ EventOrder)'
  BY <1>24 DEF AwaitStream, Record, Leave, Over, Replies, Events, EventOrder
<1>25. ASSUME CommitDirect PROVE (Events /\ EventOrder)'
  <2>1. /\ "terminal" \notin facts /\ UNCHANGED attempt /\ Emit("delivery_commit", attempt)
        /\ facts' = (facts \cup {"possible"}) \ {"rejected"}
    BY <1>25 DEF CommitDirect, BeforeDeliveryCommit
  <2> QED
    BY <2>1, OtherEvents
<1>26. ASSUME AwaitDirect PROVE (Events /\ EventOrder)'
  BY <1>26 DEF AwaitDirect, Record, Leave, Over, Replies, Events, EventOrder
<1>27. ASSUME Terminal PROVE (Events /\ EventOrder)'
  <2>1. /\ "terminal" \notin facts /\ UNCHANGED attempt /\ Emit("terminal", attempt)
        /\ facts' = facts \cup {"terminal"}
    BY <1>27 DEF Terminal, Finish
  <2> QED
    BY <2>1, OtherEvents
<1>28. ASSUME ContextEnds PROVE (Events /\ EventOrder)'
  BY <1>28 DEF ContextEnds, EndContext, Events, EventOrder
<1>29. CASE UNCHANGED vars
  BY <1>29 DEF vars, Events, EventOrder
<1> QED
  BY <1>1, <1>2, <1>3, <1>4, <1>5, <1>6, <1>7, <1>8, <1>9, <1>10, <1>11, <1>12, <1>13, <1>14, <1>15, <1>16, <1>17, <1>18, <1>19, <1>20, <1>21, <1>22, <1>23, <1>24, <1>25, <1>26, <1>27, <1>28, <1>29 DEF Next, Preparation, Call, Main

-----------------------------------------------------------------------------
(* The invariant and what follows from it *)

\* The types, and everything above but Refusals.
IInv == TypeOK /\ Stages /\ Gates /\ Calls /\ Answers /\ Counts /\ Verdict /\ Events /\ EventOrder

\* It holds at the start.
LEMMA DeliveryInit == Init => IInv /\ Refusals
<1> SUFFICES ASSUME Init PROVE IInv /\ Refusals
  OBVIOUS
<1> USE ConstantFacts
<1>1. TypeOK
  <2>1. {ended, streamed, leased, cancelled, err} \subseteq BOOLEAN
    BY DEF Init, OperationInit
  <2>2. batch \in 1..NumBatches /\ succeeded \in 0..NumBatches
    BY DeliveryAssumption DEF Init
  <2> QED
    BY <2>1, <2>2 DEF Init, OperationInit, TypeOK
<1>2. Stages /\ Gates /\ Calls /\ Answers /\ Verdict /\ Refusals
  BY DEF Init, OperationInit, Stages, Gates, Calls, Answers, Verdict, Refusals, NoReport, Committing, Left
<1>3. Counts
  BY DEF Init, Counts, Left
<1>4. Events /\ EventOrder
  <2>1. attempt \in 1..MaxAttempts /\ events = <<<<"attempt", attempt>>>>
    BY DEF Init, OperationInit
  <2>2. Len(events) = 1 /\ events[1] = <<"attempt", attempt>>
    BY <2>1
  <2>3. events \in Seq({"attempt", "delivery_commit", "terminal"} \X (1..MaxAttempts))
    BY <2>1
  <2> QED
    BY <2>1, <2>2, <2>3 DEF Events, EventOrder
<1> QED
  BY <1>1, <1>2, <1>3, <1>4 DEF IInv

\* Every step keeps it.
LEMMA DeliveryStep == IInv /\ [Next]_vars => IInv'
<1> SUFFICES ASSUME IInv, [Next]_vars PROVE IInv'
  OBVIOUS
<1>1. /\ TypeOK /\ Stages /\ Gates /\ Calls /\ Answers /\ Counts /\ Verdict
      /\ Events /\ EventOrder
  BY DEF IInv
<1>2. TypeOK' /\ Stages' /\ Gates' /\ Calls' /\ Answers' /\ Counts' /\ Verdict' /\ (Events /\ EventOrder)'
  BY <1>1, TypeStep, StagesStep, GatesStep, CallsStep, AnswersStep, CountsStep, VerdictStep,
     EventsStep
<1> QED
  BY <1>2 DEF IInv

\* The invariant holds at all times.
THEOREM Invariance == Spec => []IInv
  BY DeliveryInit, DeliveryStep, PTL DEF Spec

\* Every variable keeps its type; in particular nothing is sent whose gate is
\* shut, and nothing is processed that was not sent.
THEOREM DeliveryTyped == Spec => []TypeOK
<1>1. IInv => TypeOK
  BY DEF IInv
<1> QED
  BY <1>1, Invariance, PTL

\* The attempts that the caller reads grow to at most three, none follows a
\* commit, and nothing follows the terminal event.
THEOREM EventsInOrder == Spec => []EventOrder
<1>1. IInv => EventOrder
  BY DEF IInv
<1> QED
  BY <1>1, Invariance, PTL

\* A message is made only of the final transfer, after preparation succeeded and
\* the lease was returned, and only once.
THEOREM MessageOnce == Spec => []DeliveredOnce
<1>1. ASSUME IInv PROVE DeliveredOnce
  <2>1. /\ TypeOK /\ Stages /\ Gates /\ processed \subseteq gate
    BY <1>1 DEF IInv, Answers
  <2>2. \A u \in processed : prep = "ok" /\ ~leased
    BY <2>1 DEF Gates, Stages
  <2>3. \A t \in processed \cap Streams : t = transfer /\ buffer[t] = "complete"
    BY <2>1, <2>2 DEF Gates, Stages
  <2>4. ASSUME streamed PROVE Cardinality(processed) <= 1
    <3>1. \E x : processed \subseteq {x}
      <4>1. CASE gate \cap Streams # {}
        BY <2>1, <4>1 DEF Gates
      <4>2. CASE gate \cap Streams = {}
        <5>1. gate \subseteq {Direct(k) : k \in 1..1}
          BY <2>1, <2>4, <4>2 DEF Gates
        <5>2. processed \subseteq {Direct(1)}
          BY <2>1, <5>1
        <5> QED
          BY <5>2
      <4> QED
        BY <4>1, <4>2
    <3>2. PICK x : processed \subseteq {x}
      BY <3>1
    <3>3. processed = {} \/ processed = {x}
      BY <3>2
    <3>4. Cardinality({}) = 0 /\ Cardinality({x}) = 1
      BY FS_EmptySet, FS_Singleton
    <3> QED
      BY <3>3, <3>4
  <2> QED
    BY <2>2, <2>3, <2>4 DEF DeliveredOnce
<1> QED
  BY <1>1, Invariance, PTL

\* A reported success is of everything that was asked for, a reported part of
\* something.
THEOREM SuccessIsWhole == Spec => []SucceededMeansAll
<1>1. IInv => SucceededMeansAll
  BY DEF IInv, Verdict, Counts, Left, AllProcessed, SucceededMeansAll
<1> QED
  BY <1>1, Invariance, PTL

\* What a terminal event calls safe to retry never became a message, and never
\* will, unless a refusal of a stopped upload was read after the commit and the
\* message itself got no answer.
THEOREM SafeIsSafe == Spec => []SafeUnlessSuperseded
<1>1. Init => IInv /\ Refusals
  BY DeliveryInit
<1>2. IInv /\ Refusals /\ [Next]_vars => IInv' /\ Refusals'
  BY DeliveryStep, RefusalsStep DEF IInv
<1>3. IInv /\ Refusals => SafeUnlessSuperseded
  <2> SUFFICES ASSUME IInv, Refusals, report.safe, processed # {}
               PROVE  /\ report.state = "rejected" /\ late # {}
                      /\ \A u \in processed : call[u] = "unclear"
    BY DEF SafeUnlessSuperseded
  <2>1. processed \subseteq gate /\ refused \cap processed = {}
    BY DEF IInv, Answers
  <2>2. report.state = "rejected" /\ \E u \in Uploads : gate = {u} /\ Excused(u)
    BY <2>1 DEF Refusals
  <2>3. PICK u \in Uploads : gate = {u} /\ Excused(u)
    BY <2>2
  <2>4. processed = {u} /\ u \notin refused
    BY <2>1, <2>3
  <2> QED
    BY <2>2, <2>3, <2>4 DEF Excused
<1> QED
  BY <1>1, <1>2, <1>3, PTL DEF Spec
=============================================================================
