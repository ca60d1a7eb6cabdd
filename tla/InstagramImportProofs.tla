----------------------- MODULE InstagramImportProofs -----------------------
(***************************************************************************)
(* Proofs about InstagramImport, for every batch, every pool and whatever  *)
(* happens in it while the import runs.                                    *)
(*                                                                         *)
(* Import reports every row of its batch once and in order.  The import    *)
(* waits for an update of the pool (updateExisting), so the invariant is   *)
(* one of the import, Good, and one of the update it waits for, Verdict.   *)
(*                                                                         *)
(* What it reports is true.  Of the pool this only needs that nothing it   *)
(* does takes an account or a password away (PoolStays), and that an       *)
(* update has done what its verdict says (Served).  ReportIInv joins these *)
(* with where the import stands against the table (Placed).                *)
(***************************************************************************)
EXTENDS InstagramImport, SequenceTheorems, FiniteSetTheorems, TLAPS

-----------------------------------------------------------------------------
(* The update an import waits for.                                         *)

\* updateExisting returns with a verdict: the one it had when it settled a
\* cooldown, or the one it ended with.
Verdict ==
    /\ {"pc", "result"} \subseteq DOMAIN upd
    /\ upd.pc \in {"settle", "finish"} => upd.result \in Results \ {"none"}

\* A call of Detail is no business of the update.
LEMMA DetailVerdict ==
    ASSUME Verdict, NEW r \in Details, DetailStep(r)
    PROVE  Verdict'
<1>1. upd' = upd
  BY DEF DetailStep, Acquire, Wait, Refuse, ReadSession, CheckAccount, Answer,
         Renew, Login, SaveRenewal, Publish, Judge, Mark, FlushHealth, Settle,
         Persist, Release
<1> QED
  BY <1>1 DEF Verdict

\* Nor is a call of WithMedia.
LEMMA MediaVerdict ==
    ASSUME Verdict, NEW m \in Media, MediaStep(m)
    PROVE  Verdict'
<1>1. upd' = upd
  BY DEF MediaStep, MediaAcquire, MediaWait, MediaRefuse, MediaRelease
<1> QED
  BY <1>1 DEF Verdict

\* The update gives its verdict when it ends or begins to settle a cooldown.
LEMMA UpdateVerdict ==
    ASSUME Verdict, UpdateStep
    PROVE  Verdict'
<1>1. CASE Drain
  BY <1>1 DEF Verdict, Drain, UpdateTo
<1>2. CASE UpdateFlush
  BY <1>2 DEF Verdict, UpdateFlush, UpdateTo, UpdateEnds, Results
<1>3. CASE UpdateGate
  <2>1. \/ UpdateEnds("duplicate") \/ UpdateEnds("stop")
        \/ upd' = [upd EXCEPT !.pc = "verify", !.gate = TRUE]
        \/ upd' = [upd EXCEPT !.pc = "setlogin", !.gate = TRUE]
    BY <1>3 DEF UpdateGate
  <2> QED
    BY <2>1 DEF Verdict, UpdateEnds, Results
<1>4. CASE Verified
  BY <1>4 DEF Verdict, Verified
<1>5. CASE NotVerified
  BY <1>5 DEF Verdict, NotVerified, UpdateEnds, Results
<1>6. CASE MarkCooldown
  BY <1>6 DEF Verdict, MarkCooldown, UpdateTo
<1>7. CASE FlushCooldown
  BY <1>7 DEF Verdict, FlushCooldown, Results
<1>8. CASE SettleCooldown
  BY <1>8 DEF Verdict, SettleCooldown, UpdateTo
<1>9. CASE Replace
  BY <1>9 DEF Verdict, Replace, UpdateTo, UpdateEnds, Results
<1>10. CASE PublishUpdate
  BY <1>10 DEF Verdict, PublishUpdate, UpdateEnds, Results
<1>11. CASE UpdateLogin
  BY <1>11 DEF Verdict, UpdateLogin, UpdateEnds, Results
<1> QED
  BY <1>1, <1>2, <1>3, <1>4, <1>5, <1>6, <1>7, <1>8, <1>9, <1>10, <1>11
     DEF UpdateStep

\* So does the caller that cancels it; nothing else outside touches it.
LEMMA EnvironmentVerdict ==
    ASSUME Verdict, Environment
    PROVE  Verdict'
<1>1. CASE CancelUpdate
  BY <1>1 DEF Verdict, CancelUpdate, UpdateEnds, Results
<1>2. CASE ~CancelUpdate
  <2>1. upd' = upd
    BY <1>2 DEF Environment, Detail, CancelWait, CancelRequest, MediaCancel,
                WithMedia, Close, CloseStore, Tick, callVars
  <2> QED
    BY <2>1 DEF Verdict
<1> QED
  BY <1>1, <1>2

\* Every step of the pool keeps the verdict.
LEMMA PoolVerdict ==
    ASSUME Verdict, PoolNext
    PROVE  Verdict'
  BY DetailVerdict, MediaVerdict, UpdateVerdict, EnvironmentVerdict DEF PoolNext

\* An update that begins or has returned owes none.
LEMMA FreshVerdict ==
    ASSUME \/ upd' = NoUpdate
           \/ \E a, c : upd' = [NoUpdate EXCEPT !.pc = "drain", !.a = a,
                                   !.cookies = c.cookies, !.backup = c.backup]
    PROVE  Verdict'
<1>1. CASE upd' = NoUpdate
  BY <1>1 DEF Verdict, NoUpdate
<1>2. ASSUME NEW a, NEW c,
             upd' = [NoUpdate EXCEPT !.pc = "drain", !.a = a,
                        !.cookies = c.cookies, !.backup = c.backup]
      PROVE  Verdict'
  <2> DEFINE ck == c.cookies
             bk == c.backup
  <2>1. upd' = [NoUpdate EXCEPT !.pc = "drain", !.a = a, !.cookies = ck, !.backup = bk]
    BY <1>2
  <2> HIDE DEF ck, bk
  <2> QED
    BY <2>1 DEF Verdict, NoUpdate
<1> QED
  BY <1>1, <1>2

-----------------------------------------------------------------------------
(* The import.                                                             *)

Lines == [row : Nat, status : Statuses]

\* What an import is made of; its results are those of the first rows.
IsBatch(i) ==
    /\ {"pc", "rows", "n", "results", "known", "noRoute", "late", "session",
        "error", "count"} \subseteq DOMAIN i
    /\ i.rows \in Seq(BatchRow) /\ i.n \in Nat /\ i.results \in Seq(Lines)
    /\ \A k \in 1..Len(i.results) : i.results[k].row = k

\* While it runs, the rows before the current one are reported and nothing has
\* failed; when it has ended, all are, or those before the one it stopped at.
InHand(i) == i.n >= 1 /\ i.n <= Len(i.rows) /\ Len(i.results) = i.n - 1
             /\ i.error = FALSE
Ended(i)  == /\ i.error = FALSE => Len(i.results) = Len(i.rows)
             /\ i.error # FALSE => i.error = TRUE /\ Len(i.results) = i.n - 1
Good(i)   == /\ IsBatch(i)
             /\ i.pc # "idle" => InHand(i)
             /\ i.pc = "idle" => Ended(i)

\* Moving on within a row.
LEMMA GoodMoves ==
    ASSUME NEW i, IsBatch(i), InHand(i), NEW p, p # "idle", NEW x, NEW y
    PROVE  /\ Good([i EXCEPT !.pc = p])
           /\ Good([i EXCEPT !.pc = p, !.late = x])
           /\ Good([i EXCEPT !.pc = p, !.session = x])
           /\ Good([i EXCEPT !.pc = p, !.known = x])
<1>1. Good([i EXCEPT !.pc = p])
  BY DEF Good, IsBatch, InHand, Ended
<1>2. Good([i EXCEPT !.pc = p, !.late = x])
  BY DEF Good, IsBatch, InHand, Ended
<1>3. Good([i EXCEPT !.pc = p, !.session = x])
  BY DEF Good, IsBatch, InHand, Ended
<1>4. Good([i EXCEPT !.pc = p, !.known = x])
  BY DEF Good, IsBatch, InHand, Ended
<1> QED
  BY <1>1, <1>2, <1>3, <1>4

\* What the import learns besides is not in its report.
LEMMA GoodNotes ==
    ASSUME NEW i, Good(i), NEW x
    PROVE  Good([i EXCEPT !.noRoute = x]) /\ Good([i EXCEPT !.known = x])
  BY DEF Good, IsBatch, InHand, Ended

\* The next row, once the current one is reported.
LEMMA GoodNext ==
    ASSUME NEW i, IsBatch(i), i.n >= 1, i.n <= Len(i.rows),
           Len(i.results) = i.n, i.error = FALSE
    PROVE  Good(NextRow(i))
<1>0. i.n \in Nat /\ Len(i.rows) \in Nat
  BY LenProperties DEF IsBatch
<1>1. CASE i.n < Len(i.rows)
  <2> DEFINE j == [i EXCEPT !.pc = "row", !.n = @ + 1, !.late = FALSE,
                            !.session = NoSession]
  <2>1. NextRow(i) = j
    BY <1>1 DEF NextRow
  <2>2. /\ DOMAIN j = DOMAIN i /\ j.pc = "row" /\ j.n = i.n + 1
        /\ j.rows = i.rows /\ j.results = i.results /\ j.error = i.error
    BY DEF IsBatch
  <2> HIDE DEF j
  <2> QED
    BY <1>0, <1>1, <2>1, <2>2 DEF Good, IsBatch, InHand
<1>2. CASE ~(i.n < Len(i.rows))
  <2> DEFINE j == [i EXCEPT !.pc = "idle", !.late = FALSE, !.session = NoSession]
  <2>1. NextRow(i) = j
    BY <1>2 DEF NextRow
  <2>2. /\ DOMAIN j = DOMAIN i /\ j.pc = "idle" /\ j.n = i.n
        /\ j.rows = i.rows /\ j.results = i.results /\ j.error = i.error
    BY DEF IsBatch
  <2> HIDE DEF j
  <2> QED
    <3>1. i.n = Len(i.rows)
      BY <1>0, <1>2
    <3>2. Len(j.results) = Len(j.rows)
      BY <2>2, <3>1
    <3>3. Ended(j)
      BY <2>2, <3>2 DEF Ended
    <3>4. IsBatch(j)
      BY <2>2 DEF IsBatch
    <3> QED
      BY <2>1, <2>2, <3>3, <3>4 DEF Good
<1> QED
  BY <1>1, <1>2

\* A row is reported and the import goes on to the next.
LEMMA GoodReport ==
    ASSUME Good(imp), imp.pc # "idle", NEW s \in Statuses
    PROVE  Good(Report(s))
<1> DEFINE x == Result(s)
           q == Append(imp.results, x)
           i == [imp EXCEPT !.results = q]
<1>0. IsBatch(imp) /\ InHand(imp) /\ imp.n \in Nat /\ imp.results \in Seq(Lines)
  BY DEF Good, IsBatch
<1>1. x \in Lines /\ x.row = imp.n
  BY <1>0 DEF Result, Lines
<1>2. Report(s) = NextRow(i)
  BY DEF Report
<1> HIDE DEF x
<1>3. /\ q \in Seq(Lines) /\ Len(q) = imp.n
      /\ \A k \in 1..Len(q) : q[k].row = k
  <2>1. q \in Seq(Lines) /\ Len(q) = Len(imp.results) + 1
        /\ (\A k \in 1..Len(imp.results) : q[k] = imp.results[k])
        /\ q[Len(imp.results) + 1] = x
    BY <1>0, <1>1, AppendProperties
  <2>2. Len(imp.results) \in Nat /\ Len(imp.results) = imp.n - 1
    BY <1>0, LenProperties DEF InHand
  <2> HIDE DEF q
  <2>3. Len(q) = imp.n
    BY <1>0, <2>1, <2>2
  <2>4. ASSUME NEW k \in 1..Len(q)
        PROVE  q[k].row = k
    <3>1. CASE k = imp.n
      BY <3>1, <1>0, <1>1, <2>1, <2>2
    <3>2. CASE k # imp.n
      <4>1. k \in 1..Len(imp.results)
        BY <3>2, <1>0, <2>2, <2>3
      <4> QED
        BY <4>1, <1>0, <2>1 DEF IsBatch
    <3> QED
      BY <3>1, <3>2
  <2> QED
    BY <2>1, <2>3, <2>4
<1> HIDE DEF q
<1>4. /\ DOMAIN i = DOMAIN imp /\ i.results = q /\ i.n = imp.n
      /\ i.rows = imp.rows /\ i.error = imp.error
  BY <1>0 DEF IsBatch
<1> HIDE DEF i
<1> QED
  BY <1>0, <1>2, <1>3, <1>4, GoodNext DEF IsBatch, InHand

\* The import stops at the current row, with an error.
LEMMA GoodAbort ==
    ASSUME Good(imp), imp.pc # "idle"
    PROVE  Good(Abort)
<1>0. IsBatch(imp) /\ InHand(imp)
  BY DEF Good
<1>1. /\ DOMAIN Abort = DOMAIN imp /\ Abort.pc = "idle" /\ Abort.n = imp.n
      /\ Abort.rows = imp.rows /\ Abort.results = imp.results /\ Abort.error = TRUE
  BY <1>0 DEF Abort, IsBatch
<1> HIDE DEF Abort
<1> QED
  BY <1>0, <1>1 DEF Good, IsBatch, InHand, Ended

\* The current row is reported as failed and every later one as skipped.
LEMMA GoodSkip ==
    ASSUME Good(imp), imp.pc # "idle"
    PROVE  Good(SkipRest)
<1> DEFINE rest == [k \in 1..Len(imp.rows) - imp.n + 1 |->
                       [row |-> imp.n + k - 1,
                        status |-> IF k = 1 THEN "failed" ELSE "skipped"]]
           q == imp.results \o rest
<1>0. IsBatch(imp) /\ InHand(imp) /\ imp.n \in Nat /\ imp.results \in Seq(Lines)
  BY DEF Good, IsBatch
<1>1. /\ Len(imp.rows) \in Nat /\ Len(imp.results) \in Nat
      /\ Len(imp.rows) - imp.n + 1 \in Nat
  BY <1>0, LenProperties DEF IsBatch, InHand
<1>2. /\ rest \in Seq(Lines) /\ Len(rest) = Len(imp.rows) - imp.n + 1
      /\ \A k \in 1..Len(rest) : rest[k].row = imp.n + k - 1
  <2>1. \A k \in 1..Len(imp.rows) - imp.n + 1 : rest[k] \in Lines
    BY <1>0, <1>1 DEF Lines, Statuses
  <2>2. rest \in [1..Len(imp.rows) - imp.n + 1 -> Lines]
    BY <2>1
  <2>3. rest \in Seq(Lines)
    <3> HIDE DEF rest
    <3>1. \E m \in Nat : rest \in [1..m -> Lines]
      BY <2>2, <1>1
    <3> QED
      BY <3>1, SeqDef
  <2>4. Len(rest) = Len(imp.rows) - imp.n + 1
    BY <2>2, <2>3, <1>1, LenProperties
  <2> QED
    BY <2>3, <2>4
<1> HIDE DEF rest
<1>3. /\ q \in Seq(Lines) /\ Len(q) = Len(imp.rows)
      /\ \A k \in 1..Len(q) : q[k].row = k
  <2>1. q \in Seq(Lines) /\ Len(q) = Len(imp.results) + Len(rest)
        /\ \A k \in 1..Len(imp.results) + Len(rest) :
              q[k] = IF k <= Len(imp.results) THEN imp.results[k]
                     ELSE rest[k - Len(imp.results)]
    BY <1>0, <1>2, ConcatProperties
  <2> HIDE DEF q
  <2>2. Len(imp.results) = imp.n - 1
    BY <1>0 DEF InHand
  <2>3. Len(q) = Len(imp.rows)
    BY <1>0, <1>1, <1>2, <2>1, <2>2
  <2>4. ASSUME NEW k \in 1..Len(q)
        PROVE  q[k].row = k
    <3>1. CASE k <= Len(imp.results)
      <4>1. q[k] = imp.results[k] /\ k \in 1..Len(imp.results)
        BY <3>1, <1>1, <2>1
      <4> QED
        BY <4>1, <1>0 DEF IsBatch
    <3>2. CASE ~(k <= Len(imp.results))
      <4> DEFINE l == k - Len(imp.results)
      <4>1. k \in Nat /\ k <= Len(imp.results) + Len(rest) /\ k >= 1 /\ Len(rest) \in Nat
        BY <1>1, <1>2, <2>1
      <4>2. l \in 1..Len(rest)
        BY <3>2, <4>1, <1>1
      <4>3. q[k] = rest[l]
        BY <3>2, <4>1, <1>1, <2>1
      <4>4. rest[l].row = imp.n + l - 1
        BY <4>2, <1>2
      <4>5. imp.n + l - 1 = k
        BY <4>1, <1>0, <1>1, <2>2
      <4> QED
        BY <4>3, <4>4, <4>5
    <3> QED
      BY <3>1, <3>2
  <2> QED
    BY <2>1, <2>3, <2>4
<1>4. SkipRest = [imp EXCEPT !.pc = "idle", !.late = FALSE, !.session = NoSession,
                             !.results = q]
  BY DEF SkipRest, rest
<1> HIDE DEF q
<1>5. /\ DOMAIN SkipRest = DOMAIN imp /\ SkipRest.pc = "idle"
      /\ SkipRest.n = imp.n /\ SkipRest.rows = imp.rows
      /\ SkipRest.results = q /\ SkipRest.error = imp.error
  BY <1>0, <1>4 DEF IsBatch
<1> HIDE DEF SkipRest
<1> QED
  BY <1>0, <1>3, <1>5 DEF Good, IsBatch, InHand, Ended

-----------------------------------------------------------------------------
(* The steps.                                                              *)

ImportIInv == Verdict /\ Good(imp)

\* A batch begins at its first row, with nothing reported.
LEMMA ImportBegins ==
    ASSUME ImportIInv, NEW b \in Batches, Import(b)
    PROVE  ImportIInv'
<1>1. upd' = upd
  BY DEF Import, vars, callVars
<1>2. b \in Seq(BatchRow) /\ Len(b) \in Nat /\ Len(b) >= 1
  BY ImportAssumption, LenProperties, EmptySeq
<1>3. PICK c : imp' = [NoImport EXCEPT !.pc = "load", !.rows = b, !.n = 1, !.count = c]
  BY DEF Import
<1>4. /\ DOMAIN imp' = DOMAIN NoImport /\ imp'.pc = "load" /\ imp'.rows = b
      /\ imp'.n = 1 /\ imp'.results = <<>> /\ imp'.error = FALSE
  BY <1>3 DEF NoImport
<1>5. <<>> \in Seq(Lines) /\ Len(<<>>) = 0
  BY EmptySeq
<1>6. Good(imp')
  BY <1>2, <1>4, <1>5 DEF Good, IsBatch, InHand, NoImport
<1> QED
  BY <1>1, <1>6 DEF ImportIInv, Verdict

\* What becomes of the import when an update returns.
LEMMA ResultsOf ==
    ASSUME UpdateReturns,
           upd.result \in {"updated", "duplicate", "failed", "stop", "db", "ctx"}
    PROVE  \/ upd.result \in {"updated", "duplicate"} /\ imp' = Report(upd.result)
           \/ upd.result \notin {"updated", "duplicate"} /\ imp' \in {Report("failed"), SkipRest, Abort}
<1>1. CASE imp.late
  BY <1>1 DEF UpdateReturns, LateResult
<1>2. CASE ~imp.late
  <2>1. imp' \in EarlyResult
    BY <1>2 DEF UpdateReturns
  <2>2. CASE upd.result \in {"updated", "duplicate"}
    BY <2>1, <2>2 DEF EarlyResult
  <2>3. CASE upd.result \in {"db", "ctx"}
    BY <2>1, <2>3 DEF EarlyResult
  <2>4. CASE upd.result = "failed"
    BY <2>1, <2>4 DEF EarlyResult
  <2>5. CASE upd.result = "stop"
    BY <2>1, <2>5 DEF EarlyResult
  <2> QED
    BY <2>2, <2>3, <2>4, <2>5
<1> QED
  BY <1>1, <1>2


\* A step of an import keeps the report.
LEMMA ImportGoesOn ==
    ASSUME ImportIInv, ImportStep
    PROVE  ImportIInv'
<1>0. Verdict /\ Good(imp) /\ IsBatch(imp)
  BY DEF ImportIInv, Good
<1>1. CASE LoadKnown
  <2>1. upd' = upd /\ imp.pc # "idle"
        /\ (imp' = Abort \/ imp' = [imp EXCEPT !.pc = "row", !.known = Stored])
    BY <1>1 DEF LoadKnown, callVars
  <2>2. InHand(imp)
    BY <1>0, <2>1 DEF Good
  <2>3. Good(Abort) /\ Good([imp EXCEPT !.pc = "row", !.known = Stored])
    BY <1>0, <2>1, <2>2, GoodAbort, GoodMoves
  <2>4. Good(imp')
    BY <2>1, <2>3
  <2> QED
    BY <1>0, <2>1, <2>4 DEF ImportIInv, Verdict
<1>2. CASE UpdateKnown
  <2>1. imp.pc # "idle" /\ imp' = [imp EXCEPT !.pc = "update"]
        /\ \E a, c : BeginUpdate(a, c)
    BY <1>2 DEF UpdateKnown
  <2>2. InHand(imp)
    BY <1>0, <2>1 DEF Good
  <2>3. Good(imp')
    BY <1>0, <2>1, <2>2, GoodMoves
  <2>4. Verdict'
    BY <2>1, FreshVerdict DEF BeginUpdate
  <2> QED
    BY <2>3, <2>4 DEF ImportIInv
<1>3. CASE UpdateReturns
  <2>1. imp.pc # "idle" /\ upd.pc = "finish" /\ upd' = NoUpdate
    BY <1>3 DEF UpdateReturns, FinishUpdate
  <2>2. upd.result \in {"updated", "duplicate", "failed", "stop", "db", "ctx"}
    BY <1>0, <2>1 DEF Verdict, Results
  <2>3. \/ (\E s \in Statuses : imp' = Report(s)) \/ imp' = Abort \/ imp' = SkipRest
    <3>1. \/ upd.result \in {"updated", "duplicate"} /\ imp' = Report(upd.result)
          \/ imp' \in {Report("failed"), SkipRest, Abort}
      BY <1>3, <2>2, ResultsOf
    <3>2. {"updated", "duplicate", "failed"} \subseteq Statuses
      BY DEF Statuses
    <3> QED
      BY <3>1, <3>2
  <2>4. Good(imp')
    BY <1>0, <2>1, <2>3, GoodReport, GoodAbort, GoodSkip
  <2>5. Verdict'
    BY <2>1, FreshVerdict
  <2> QED
    BY <2>4, <2>5 DEF ImportIInv
<1>4. CASE ProbeRoutes
  <2>1. /\ imp.pc # "idle" /\ upd' = upd
        /\ (imp' = [imp EXCEPT !.pc = "login"]
            \/ imp' = [Report("failed") EXCEPT !.noRoute = TRUE])
    BY <1>4 DEF ProbeRoutes, vars, callVars
  <2>2. InHand(imp) /\ Good(Report("failed"))
    BY <1>0, <2>1, GoodReport DEF Good, Statuses
  <2>3. Good([imp EXCEPT !.pc = "login"])
    BY <1>0, <2>2, GoodMoves
  <2>4. Good([Report("failed") EXCEPT !.noRoute = TRUE])
    BY <2>2, GoodNotes
  <2>5. Good(imp')
    BY <2>1, <2>3, <2>4
  <2> QED
    BY <1>0, <2>1, <2>5 DEF ImportIInv, Verdict
<1>5. CASE ImportLogin
  <2>1. imp.pc # "idle"
    BY <1>5 DEF ImportLogin
  <2>2. InHand(imp) /\ Good(Report("failed")) /\ Good(SkipRest)
    BY <1>0, <2>1, GoodReport, GoodSkip DEF Good, Statuses
  <2>3. \/ (\E a, c : BeginUpdate(a, c))
           /\ imp' = [imp EXCEPT !.pc = "update", !.late = TRUE]
        \/ upd' = upd /\ imp' = [imp EXCEPT !.pc = "insert", !.session = minted + 1]
        \/ upd' = upd /\ (imp' = Report("failed") \/ imp' = SkipRest)
    BY <1>5 DEF ImportLogin, vars, callVars
  <2>4. /\ Good([imp EXCEPT !.pc = "update", !.late = TRUE])
        /\ Good([imp EXCEPT !.pc = "insert", !.session = minted + 1])
    <3> DEFINE s == minted + 1
    <3> HIDE DEF s
    <3>1. Good([imp EXCEPT !.pc = "update", !.late = TRUE])
      BY <1>0, <2>2, GoodMoves
    <3>2. Good([imp EXCEPT !.pc = "insert", !.session = s])
      BY <1>0, <2>2, GoodMoves
    <3> QED
      BY <3>1, <3>2 DEF s
  <2>6. Good(imp')
    BY <2>2, <2>3, <2>4
  <2>5. Verdict'
    <3>1. CASE upd' = upd
      BY <1>0, <3>1 DEF Verdict
    <3>2. CASE \E a, c : BeginUpdate(a, c)
      BY <3>2, FreshVerdict DEF BeginUpdate
    <3> QED
      BY <2>3, <3>1, <3>2
  <2> QED
    BY <2>5, <2>6 DEF ImportIInv
<1>6. CASE InsertRow
  <2>1. /\ imp.pc # "idle" /\ upd' = upd
        /\ (imp' = [imp EXCEPT !.pc = "add"] \/ imp' = Abort
            \/ imp' = Report("duplicate"))
    BY <1>6 DEF InsertRow, callVars
  <2>2. InHand(imp) /\ Good(Report("duplicate")) /\ Good(Abort)
    BY <1>0, <2>1, GoodReport, GoodAbort DEF Good, Statuses
  <2>3. Good([imp EXCEPT !.pc = "add"])
    BY <1>0, <2>2, GoodMoves
  <2>4. Good(imp')
    BY <2>1, <2>2, <2>3
  <2> QED
    BY <1>0, <2>1, <2>4 DEF ImportIInv, Verdict
<1>7. CASE AddRow
  <2>1. /\ imp.pc # "idle" /\ upd' = upd
        /\ (imp' = Abort \/ \E x : imp' = [Report("imported") EXCEPT !.known = x])
    BY <1>7 DEF AddRow, callVars
  <2>2. Good(Report("imported")) /\ Good(Abort)
    BY <1>0, <2>1, GoodReport, GoodAbort DEF Statuses
  <2>3. \A x : Good([Report("imported") EXCEPT !.known = x])
    BY <2>2, GoodNotes
  <2>4. Good(imp')
    BY <2>1, <2>2, <2>3
  <2> QED
    BY <1>0, <2>1, <2>4 DEF ImportIInv, Verdict
<1> QED
  BY <1>1, <1>2, <1>3, <1>4, <1>5, <1>6, <1>7 DEF ImportStep

\* Init establishes the invariant and every step of the import, the pool and
\* the process keeps it.
THEOREM ImportInvariance == ImportSpec => []ImportIInv
<1>1. ImportInit => ImportIInv
  <2> SUFFICES ASSUME ImportInit PROVE ImportIInv
    OBVIOUS
  <2>1. Verdict
    BY DEF ImportInit, Init, NoUpdate, Verdict
  <2>2. <<>> \in Seq(Lines) /\ <<>> \in Seq(BatchRow) /\ Len(<<>>) = 0
    BY EmptySeq
  <2>3. imp = NoImport
    BY DEF ImportInit
  <2>4. Good(imp)
    BY <2>2, <2>3 DEF NoImport, Good, IsBatch, Ended
  <2> QED
    BY <2>1, <2>4 DEF ImportIInv
<1>2. ImportIInv /\ [ImportNext]_importVars => ImportIInv'
  <2> SUFFICES ASSUME ImportIInv, [ImportNext]_importVars PROVE ImportIInv'
    OBVIOUS
  <2>1. CASE PoolNext /\ UNCHANGED imp
    BY <2>1, PoolVerdict DEF ImportIInv, Good, IsBatch, InHand, Ended
  <2>2. CASE ImportStep
    BY <2>2, ImportGoesOn
  <2>3. CASE \E b \in Batches : Import(b)
    BY <2>3, ImportBegins
  <2>4. CASE CancelImport
    <3>1. imp.pc # "idle" /\ imp' = Abort /\ upd' = upd
      BY <2>4 DEF CancelImport, vars, callVars
    <3> QED
      BY <3>1, GoodAbort DEF ImportIInv, Verdict
  <2>5. CASE ImportRestart
    <3>1. PICK c : imp' = [NoImport EXCEPT !.count = c]
      BY <2>5 DEF ImportRestart
    <3>2. /\ DOMAIN imp' = DOMAIN NoImport /\ imp'.pc = "idle" /\ imp'.rows = <<>>
          /\ imp'.n = 0 /\ imp'.results = <<>> /\ imp'.error = FALSE
      BY <3>1 DEF NoImport
    <3>3. <<>> \in Seq(Lines) /\ <<>> \in Seq(BatchRow) /\ Len(<<>>) = 0
      BY EmptySeq
    <3>4. IsBatch(imp')
      BY <3>2, <3>3 DEF NoImport, IsBatch
    <3>6. Good(imp')
      BY <3>2, <3>3, <3>4 DEF Good, Ended
    <3>5. Verdict'
      BY <2>5, FreshVerdict DEF ImportRestart, Restart
    <3> QED
      BY <3>5, <3>6 DEF ImportIInv
  <2>6. CASE UNCHANGED importVars
    <3>1. imp' = imp /\ upd' = upd
      BY <2>6 DEF importVars, vars, callVars
    <3> QED
      BY <3>1 DEF ImportIInv, Verdict
  <2> QED
    BY <2>1, <2>2, <2>3, <2>4, <2>5, <2>6 DEF ImportNext
<1> QED
  BY <1>1, <1>2, PTL DEF ImportSpec

\* Import answers every row of its batch once and in order, and an import that
\* fails answers the rows before the one it stopped at, for every batch and
\* however its updates, logins and statements end.
THEOREM EveryRowIsReported == ImportSpec => []EveryRowReported
<1>1. ImportIInv => EveryRowReported
  <2> SUFFICES ASSUME ImportIInv, imp.pc = "idle"
               PROVE  /\ \A i \in DOMAIN imp.results : imp.results[i].row = i
                      /\ Len(imp.results) = IF imp.error THEN imp.n - 1
                                            ELSE Len(imp.rows)
    BY DEF EveryRowReported
  <2>1. IsBatch(imp) /\ Ended(imp)
    BY DEF ImportIInv, Good
  <2>2. DOMAIN imp.results = 1..Len(imp.results)
    BY <2>1, LenProperties DEF IsBatch
  <2>3. \A i \in DOMAIN imp.results : imp.results[i].row = i
    BY <2>1, <2>2 DEF IsBatch
  <2>4. Len(imp.results) = IF imp.error THEN imp.n - 1 ELSE Len(imp.rows)
    BY <2>1 DEF Ended
  <2> QED
    BY <2>3, <2>4
<1> QED
  BY <1>1, ImportInvariance, PTL

-----------------------------------------------------------------------------
(* What the reports are worth: the table, the pool and the saved passwords *)
(* while requests, renewals and updates go on.                             *)

\* What rows and accounts are made of, as far as passwords go.
Rows     == /\ DOMAIN row = Accounts
            /\ \A b \in Accounts : "login" \in DOMAIN row[b]
Members  == /\ DOMAIN acc = Accounts
            /\ \A b \in Accounts : "login" \in DOMAIN acc[b]

\* A statement takes no saved password away, and a step of the pool takes none
\* from the pool.
RowsStay    == Rows' /\ \A b \in Accounts : row[b].login => row'[b].login
MembersStay == Members' /\ \A b \in Accounts : acc[b].login => acc'[b].login

\* A checkpoint of health writes other columns.
LEMMA FlushStays ==
    ASSUME Rows, NEW o, Flush(o)
    PROVE  table' = table /\ RowsStay
<1>1. CASE row' = row
  BY <1>1 DEF Flush, storeVars, RowsStay, Rows
<1>2. CASE dirty
  <2>1. PICK written : row' = [a \in Accounts |-> IF a \in written THEN Buried(a)
                                                  ELSE row[a]]
    BY <1>2 DEF Flush
  <2>2. ASSUME NEW b \in Accounts
        PROVE  "login" \in DOMAIN Buried(b) /\ Buried(b).login = row[b].login
    BY <2>2 DEF Rows, Buried
  <2>3. ASSUME NEW b \in Accounts
        PROVE  "login" \in DOMAIN row'[b] /\ row'[b].login = row[b].login
    BY <2>1, <2>2 DEF Rows
  <2>4. table' = table
    BY <1>2 DEF Flush
  <2> QED
    BY <2>1, <2>3, <2>4 DEF RowsStay, Rows
<1> QED
  BY <1>1, <1>2 DEF Flush, storeVars

\* So does the commit of a renewal, and that of a session's context.
LEMMA SessionStays ==
    ASSUME Rows, NEW a, NEW s, NEW o,
           SaveSession(a, s, o) \/ SaveSessionState(a, s, o)
    PROVE  table' = table /\ RowsStay
<1>1. \/ row' = row
      \/ row' = [row EXCEPT ![a].auth = s, ![a].ctx = s]
      \/ row' = [row EXCEPT ![a].ctx = s]
  BY DEF SaveSession, SaveSessionState
<1>2. RowsStay
  BY <1>1 DEF Rows, RowsStay
<1> QED
  BY <1>2 DEF SaveSession, SaveSessionState

\* The commit of an update adds the password it brings.
LEMMA ReplaceStays ==
    ASSUME Rows, NEW a, NEW s, NEW p, NEW o, ReplaceSession(a, s, p, o)
    PROVE  /\ table' = table /\ RowsStay
           /\ a \in Accounts /\ p /\ Confirmed(o) => row'[a].login
<1>1. CASE ~Commits(o)
  BY <1>1 DEF ReplaceSession, Rows, RowsStay, Commits, Confirmed
<1>2. CASE Commits(o)
  <2>1. row' = [row EXCEPT ![a].auth = s, ![a].ctx = s, ![a].login = @ \/ p,
                           ![a].dead = FALSE, ![a].reason = "none"]
    BY <1>2 DEF ReplaceSession
  <2>2. DOMAIN row' = Accounts
    BY <2>1 DEF Rows
  <2>3. ASSUME NEW b \in Accounts
        PROVE  /\ "login" \in DOMAIN row'[b] /\ (row[b].login => row'[b].login)
               /\ b = a /\ p => row'[b].login
    <3>1. CASE b # a
      BY <2>1, <3>1 DEF Rows
    <3>2. CASE b = a
      <4>1. row'[b] = [row[b] EXCEPT !.auth = s, !.ctx = s, !.login = @ \/ p,
                                     !.dead = FALSE, !.reason = "none"]
        BY <2>1, <3>2 DEF Rows
      <4>2. "login" \in DOMAIN row[b]
        BY DEF Rows
      <4>3. "login" \in DOMAIN row'[b] /\ row'[b].login = (row[b].login \/ p)
        BY <4>1, <4>2
      <4> QED
        BY <4>3
    <3> QED
      BY <3>1, <3>2
  <2> QED
    BY <2>2, <2>3 DEF ReplaceSession, Rows, RowsStay
<1> QED
  BY <1>1, <1>2

\* So does that of a password alone.
LEMMA SetLoginStays ==
    ASSUME Rows, NEW a, NEW o, SetLogin(a, o)
    PROVE  /\ table' = table /\ RowsStay
           /\ a \in Accounts /\ Confirmed(o) => row'[a].login
<1>1. CASE ~Commits(o)
  BY <1>1 DEF SetLogin, Rows, RowsStay, Commits, Confirmed
<1>2. CASE Commits(o)
  <2>1. row' = [row EXCEPT ![a].login = TRUE]
    BY <1>2 DEF SetLogin
  <2> QED
    BY <2>1 DEF SetLogin, Rows, RowsStay
<1> QED
  BY <1>1, <1>2

\* A step that leaves the accounts' passwords where they are.
PoolStays == table' = table /\ accounts' = accounts /\ RowsStay /\ MembersStay

\* The memory of an account changes in other fields.
LEMMA StaysPut ==
    ASSUME Rows, Members
    PROVE  /\ row' = row => RowsStay
           /\ acc' = acc => MembersStay
  BY DEF Rows, Members, RowsStay, MembersStay

\* A call of Detail touches health, sessions, gates and leases only.
LEMMA DetailStays ==
    ASSUME Rows, Members, NEW r \in Details, DetailStep(r)
    PROVE  PoolStays
<1>1. CASE Acquire(r)
  <2>1. PICK a : acc' = [acc EXCEPT ![a].busy = @ + 1]
    BY <1>1 DEF Acquire
  <2>2. MembersStay
    BY <2>1 DEF Members, MembersStay
  <2> QED
    BY <1>1, <2>2, StaysPut DEF Acquire, storeVars, PoolStays
<1>2. CASE Wait(r) \/ Refuse(r) \/ ReadSession(r) \/ CheckAccount(r)
           \/ \E out \in lookup : Answer(r, out)
  BY <1>2, StaysPut DEF Wait, Refuse, ReadSession, CheckAccount, Answer,
                        storeVars, poolVars, PoolStays
<1>3. CASE Renew(r)
  <2>1. acc' = acc \/ acc' = [acc EXCEPT ![req[r].a].gate = TRUE]
    BY <1>3 DEF Renew
  <2>2. MembersStay
    BY <2>1, StaysPut DEF Members, MembersStay
  <2> QED
    BY <1>3, <2>2, StaysPut DEF Renew, storeVars, otherPool, PoolStays
<1>4. ASSUME NEW out, NEW remember, RenewFails(r, out, remember)
      PROVE  MembersStay
  BY <1>4 DEF RenewFails, Members, MembersStay
<1>5. CASE Login(r)
  <2>1. acc' = acc \/ \E out, remember : RenewFails(r, out, remember)
    BY <1>5 DEF Login
  <2>2. MembersStay
    BY <1>4, <2>1, StaysPut
  <2> QED
    BY <1>5, <2>2, StaysPut DEF Login, storeVars, otherPool, PoolStays
<1>6. CASE SaveRenewal(r)
  <2>1. PICK o : SaveSession(req[r].a, req[r].session, o)
                 /\ (acc' = acc \/ \E out, remember : RenewFails(r, out, remember))
    BY <1>6 DEF SaveRenewal
  <2>2. MembersStay
    BY <1>4, <2>1, StaysPut
  <2>3. table' = table /\ RowsStay
    BY <2>1, SessionStays
  <2> QED
    BY <1>6, <2>2, <2>3 DEF SaveRenewal, otherPool, PoolStays
<1>7. CASE Publish(r)
  <2>1. PICK x, y : acc' = [acc EXCEPT ![req[r].a].auth = req[r].session,
                               ![req[r].a].gate = FALSE,
                               ![req[r].a].refreshAfter = IF x THEN @ ELSE clock + 1,
                               ![req[r].a].refreshErr = IF x THEN @ ELSE y]
    BY <1>7 DEF Publish
  <2>2. MembersStay
    BY <2>1 DEF Members, MembersStay
  <2> QED
    BY <1>7, <2>2, StaysPut DEF Publish, storeVars, otherPool, PoolStays
<1>8. CASE Judge(r)
  <2> DEFINE a == req[r].a
             d == req[r].out.disable /\ StillCurrent(r)
             y == IF acc[a].reason = "none"
                     \/ (~req[r].out.retry /\ acc[a].reason = "session_expired")
                  THEN req[r].out.reason ELSE acc[a].reason
             u == clock + req[r].out.cool
             l == req[r].out.cool > 0 /\ u > acc[a].cooldown
             x == IF d THEN y ELSE acc[a].reason
             t == IF l THEN u ELSE acc[a].cooldown
             h == acc[a].disabled \/ d
             g == d \/ l
  <2>1. \/ acc' = acc
        \/ acc' = [acc EXCEPT ![a].disabled = h, ![a].reason = x,
                              ![a].cooldown = t, ![a].gate = g]
    <3>1. CASE ~req[r].out.disable /\ req[r].out.cool = 0
      BY <1>8, <3>1 DEF Judge
    <3>2. CASE ~(~req[r].out.disable /\ req[r].out.cool = 0)
      <4>1. acc' = [acc EXCEPT ![a].disabled = @ \/ d,
                       ![a].reason = IF d THEN y ELSE @,
                       ![a].cooldown = IF l THEN u ELSE @, ![a].gate = d \/ l]
        BY <1>8, <3>2, Zenon DEF Judge
      <4> QED
        BY <4>1
    <3> QED
      BY <3>1, <3>2
  <2> HIDE DEF a, x, t, h, g
  <2>2. MembersStay
    BY <2>1, StaysPut DEF Members, MembersStay
  <2> QED
    BY <1>8, <2>2, StaysPut DEF Judge, storeVars, PoolStays
<1>9. CASE Mark(r)
  BY <1>9, StaysPut DEF Mark, MarkHealth, poolVars, PoolStays
<1>10. CASE FlushHealth(r)
  <2>1. (\E o \in Outcomes : Flush(o)) /\ acc' = acc /\ accounts' = accounts
    BY <1>10 DEF FlushHealth, poolVars
  <2> QED
    BY <2>1, FlushStays, StaysPut DEF PoolStays
<1>11. CASE Settle(r)
  <2>1. acc' = [acc EXCEPT ![req[r].a].gate = FALSE]
    BY <1>11 DEF Settle
  <2>2. MembersStay
    BY <2>1 DEF Members, MembersStay
  <2> QED
    BY <1>11, <2>2, StaysPut DEF Settle, storeVars, PoolStays
<1>12. CASE Persist(r)
  <2>1. \/ UNCHANGED storeVars
        \/ \E o \in Outcomes : SaveSessionState(req[r].a, acc[req[r].a].auth, o)
    BY <1>12 DEF Persist
  <2>2. table' = table /\ RowsStay
    BY <2>1, SessionStays, StaysPut DEF storeVars
  <2> QED
    BY <1>12, <2>2, StaysPut DEF Persist, poolVars, PoolStays
<1>13. CASE Release(r)
  <2>1. acc' = [acc EXCEPT ![req[r].a].busy = @ - 1]
    BY <1>13 DEF Release
  <2>2. MembersStay
    BY <2>1 DEF Members, MembersStay
  <2> QED
    BY <1>13, <2>2, StaysPut DEF Release, storeVars, PoolStays
<1> QED
  BY <1>1, <1>2, <1>3, <1>5, <1>6, <1>7, <1>8, <1>9, <1>10, <1>11, <1>12,
     <1>13 DEF DetailStep

\* A download touches its slot only.
LEMMA MediaStays ==
    ASSUME Rows, Members, NEW m \in Media, MediaStep(m)
    PROVE  PoolStays
<1>1. \/ acc' = acc
      \/ acc' = [acc EXCEPT ![med[m].a].mediaBusy = @ + 1]
      \/ acc' = [acc EXCEPT ![med[m].a].mediaBusy = @ - 1]
  BY DEF MediaStep, MediaAcquire, MediaWait, MediaRefuse, MediaRelease
<1>2. MembersStay
  BY <1>1, StaysPut DEF Members, MembersStay
<1>3. row' = row /\ table' = table /\ accounts' = accounts
  BY DEF MediaStep, MediaAcquire, MediaWait, MediaRefuse, MediaRelease, storeVars
<1> QED
  BY <1>2, <1>3, StaysPut DEF PoolStays

\* The world touches nothing but health; the update may be given up.
LEMMA EnvironmentStays ==
    ASSUME Rows, Members, Environment
    PROVE  PoolStays
<1>1. acc' = acc /\ accounts' = accounts
  BY DEF Environment, Detail, CancelWait, CancelRequest, MediaCancel, WithMedia,
         CancelUpdate, Close, CloseStore, Tick, poolVars
<1>2. \/ table' = table /\ row' = row
      \/ \E o : Flush(o)
  BY DEF Environment, Detail, CancelWait, CancelRequest, MediaCancel, WithMedia,
         CancelUpdate, Close, CloseStore, Tick, storeVars
<1>3. table' = table /\ RowsStay
  BY <1>2, FlushStays, StaysPut
<1> QED
  BY <1>1, <1>3, StaysPut DEF PoolStays

-----------------------------------------------------------------------------
(* What an update has done when it says so.                                *)

\* It works on an account of the pool; the password it brings is in the table
\* before it is published, and in both when the update is reported as made.
Served ==
    /\ {"pc", "a", "backup", "result"} \subseteq DOMAIN upd
    /\ upd.pc # "idle" => upd.a \in Loaded
    /\ upd.pc = "publish" /\ upd.backup => row[upd.a].login
    /\ upd.result = "updated" =>
         /\ upd.pc = "finish"
         /\ upd.backup => row[upd.a].login /\ acc[upd.a].login

SameUpdate == upd'.a = upd.a /\ upd'.backup = upd.backup

\* What is in the table and in the pool stays there, passwords included.
Lasting ==
    /\ Stored \subseteq Stored' /\ Loaded \subseteq Loaded'
    /\ \A b \in Loaded : /\ row[b].login => row'[b].login
                         /\ acc[b].login => acc'[b].login

\* Steps that leave the lists alone and take no password away are lasting.
LEMMA PoolLasts ==
    ASSUME Loaded \subseteq Accounts, PoolStays
    PROVE  Lasting /\ Stored' = Stored /\ Loaded' = Loaded
<1>1. Stored' = Stored /\ Loaded' = Loaded
  BY DEF PoolStays, Stored, Loaded
<1> QED
  BY <1>1 DEF PoolStays, Lasting, RowsStay, MembersStay

\* Others do not undo an update.
LEMMA ServedLasts ==
    ASSUME Served, Lasting, upd' = upd
    PROVE  Served' /\ SameUpdate
<1>1. upd.pc # "idle" => upd.a \in Loaded /\ upd.a \in Loaded'
  BY DEF Served, Lasting
<1>2. upd.pc = "publish" /\ upd.backup => row'[upd.a].login
  BY <1>1 DEF Served, Lasting
<1>3. upd.result = "updated" /\ upd.backup => row'[upd.a].login /\ acc'[upd.a].login
  BY <1>1 DEF Served, Lasting
<1> QED
  BY <1>1, <1>2, <1>3 DEF Served, SameUpdate

\* The same for the steps of the pool that are not the update's.
LEMMA ServedFrame ==
    ASSUME Served, Loaded \subseteq Accounts, PoolStays, upd' = upd
    PROVE  Served' /\ SameUpdate
  BY PoolLasts, ServedLasts

\* A step of the update that promises nothing.
LEMMA ServedMoves ==
    ASSUME Served, upd.pc # "idle", accounts' = accounts,
           DOMAIN upd' = DOMAIN upd, upd'.a = upd.a, upd'.backup = upd.backup,
           upd'.pc # "publish", upd'.result # "updated"
    PROVE  Served' /\ SameUpdate
  BY DEF Served, SameUpdate, Loaded

\* A step of the update keeps the account and the credentials it was called
\* with, takes nothing away, and says it is made only when it is.
LEMMA UpdateServes ==
    ASSUME Rows, Members, Served, Loaded \subseteq Accounts, UpdateStep
    PROVE  PoolStays /\ Served' /\ SameUpdate
<1>0. /\ upd.pc # "idle" /\ upd.pc # "finish" /\ upd.a \in Accounts
      /\ upd.result # "updated" /\ upd.a \in Loaded
      /\ {"pc", "a", "backup", "result"} \subseteq DOMAIN upd
  <2>1. upd.pc # "idle" /\ upd.pc # "finish"
    BY DEF UpdateStep, Drain, UpdateFlush, UpdateGate, Verified, NotVerified,
           MarkCooldown, FlushCooldown, SettleCooldown, Replace, PublishUpdate,
           UpdateLogin
  <2> QED
    BY <2>1 DEF Served
<1>1. CASE Drain
  <2>1. PoolStays
    BY <1>1, StaysPut DEF Drain, storeVars, PoolStays
  <2>2. CASE upd' = upd
    BY <2>1, <2>2, ServedFrame
  <2>3. CASE upd' = [upd EXCEPT !.pc = "flush"]
    BY <1>0, <2>1, <2>3, ServedMoves DEF PoolStays
  <2> QED
    BY <1>1, <2>1, <2>2, <2>3 DEF Drain, UpdateTo
<1>2. CASE UpdateFlush
  <2>1. (\E o \in Outcomes : Flush(o)) /\ acc' = acc /\ accounts' = accounts
    BY <1>2 DEF UpdateFlush, poolVars
  <2>2. PoolStays
    BY <2>1, FlushStays, StaysPut DEF PoolStays
  <2>3. \/ upd' = [upd EXCEPT !.pc = "gate"]
        \/ upd' = [upd EXCEPT !.pc = "finish", !.result = "db"]
    BY <1>2 DEF UpdateFlush, UpdateTo, UpdateEnds
  <2> QED
    BY <1>0, <2>1, <2>2, <2>3, ServedMoves
<1>3. CASE UpdateGate
  <2>1. acc' = acc \/ acc' = [acc EXCEPT ![upd.a].gate = TRUE]
    BY <1>3 DEF UpdateGate
  <2>2. MembersStay
    BY <2>1, StaysPut DEF Members, MembersStay
  <2>3. PoolStays
    BY <1>3, <2>2, StaysPut DEF UpdateGate, storeVars, otherPool, PoolStays
  <2>4. \/ upd' = [upd EXCEPT !.pc = "finish", !.result = "duplicate"]
        \/ upd' = [upd EXCEPT !.pc = "finish", !.result = "stop"]
        \/ upd' = [upd EXCEPT !.pc = "verify", !.gate = TRUE]
        \/ upd' = [upd EXCEPT !.pc = "setlogin", !.gate = TRUE]
    BY <1>3 DEF UpdateGate, UpdateEnds
  <2> QED
    BY <1>0, <2>3, <2>4, ServedMoves DEF PoolStays
<1>4. CASE Verified
  <2>1. PoolStays
    BY <1>4, StaysPut DEF Verified, storeVars, poolVars, PoolStays
  <2>2. \E s : upd' = [upd EXCEPT !.pc = "replace", !.session = s]
    BY <1>4 DEF Verified
  <2> QED
    BY <1>0, <2>1, <2>2, ServedMoves DEF PoolStays
<1>5. CASE NotVerified
  <2>1. acc' = acc \/ \E t : acc' = [acc EXCEPT ![upd.a].cooldown = t]
    BY <1>5 DEF NotVerified
  <2>2. MembersStay
    BY <2>1, StaysPut DEF Members, MembersStay
  <2>3. PoolStays
    BY <1>5, <2>2, StaysPut DEF NotVerified, storeVars, PoolStays
  <2>4. \/ \E x \in {"failed", "stop"} : upd' = [upd EXCEPT !.pc = "finish", !.result = x]
        \/ \E t : upd' = [upd EXCEPT !.pc = "mark", !.until = t]
    BY <1>5 DEF NotVerified, UpdateEnds
  <2> QED
    BY <1>0, <2>3, <2>4, ServedMoves DEF PoolStays
<1>6. CASE MarkCooldown
  <2>1. PoolStays
    BY <1>6, StaysPut DEF MarkCooldown, MarkHealth, poolVars, PoolStays
  <2>2. upd' = [upd EXCEPT !.pc = "flushHealth"]
    BY <1>6 DEF MarkCooldown, UpdateTo
  <2> QED
    BY <1>0, <2>1, <2>2, ServedMoves DEF PoolStays
<1>7. CASE FlushCooldown
  <2>1. (\E o \in Outcomes : Flush(o)) /\ acc' = acc /\ accounts' = accounts
    BY <1>7 DEF FlushCooldown, poolVars
  <2>2. PoolStays
    BY <2>1, FlushStays, StaysPut DEF PoolStays
  <2>3. \E x \in {"failed", "stop", "db"} : upd' = [upd EXCEPT !.pc = "settle", !.result = x]
    BY <1>7 DEF FlushCooldown
  <2> QED
    BY <1>0, <2>1, <2>2, <2>3, ServedMoves
<1>8. CASE SettleCooldown
  <2>1. PoolStays
    BY <1>8, StaysPut DEF SettleCooldown, storeVars, PoolStays
  <2>2. upd' = [upd EXCEPT !.pc = "finish"]
    BY <1>8 DEF SettleCooldown, UpdateTo
  <2> QED
    BY <1>0, <2>1, <2>2, ServedMoves DEF PoolStays
<1>9. CASE Replace
  <2>1. PICK o \in Outcomes :
            /\ ReplaceSession(upd.a, upd.session, upd.backup, o)
            /\ IF Confirmed(o) THEN UpdateTo("publish") ELSE UpdateEnds("db")
    BY <1>9 DEF Replace
  <2>2. acc' = acc /\ accounts' = accounts
    BY <1>9 DEF Replace, poolVars
  <2>3. /\ table' = table /\ RowsStay
        /\ upd.a \in Accounts /\ upd.backup /\ Confirmed(o) => row'[upd.a].login
    BY <2>1, ReplaceStays
  <2>4. PoolStays
    BY <2>2, <2>3, StaysPut DEF PoolStays
  <2>5. CASE Confirmed(o)
    <3>1. upd' = [upd EXCEPT !.pc = "publish"]
      BY <2>1, <2>5 DEF UpdateTo
    <3>2. /\ DOMAIN upd' = DOMAIN upd /\ upd'.pc = "publish" /\ upd'.a = upd.a
          /\ upd'.backup = upd.backup /\ upd'.result = upd.result
      BY <1>0, <3>1
    <3> QED
      BY <1>0, <2>2, <2>3, <2>4, <2>5, <3>2 DEF Served, SameUpdate, Loaded
  <2>6. CASE ~Confirmed(o)
    <3>1. upd' = [upd EXCEPT !.pc = "finish", !.result = "db"]
      BY <2>1, <2>6 DEF UpdateEnds
    <3> QED
      BY <1>0, <2>2, <2>4, <3>1, ServedMoves
  <2> QED
    BY <2>5, <2>6
<1>10. CASE PublishUpdate
  <2> DEFINE a == upd.a
  <2>1. /\ acc' = [acc EXCEPT ![a].auth = upd.session,
                      ![a].disabled = FALSE, ![a].reason = "none",
                      ![a].login = @ \/ upd.backup,
                      ![a].refreshAfter = 0, ![a].refreshErr = Failure]
        /\ upd' = [upd EXCEPT !.pc = "finish", !.result = "updated"]
        /\ table' = table /\ row' = row /\ accounts' = accounts /\ upd.pc = "publish"
    BY <1>10 DEF PublishUpdate, UpdateEnds, storeVars, otherPool
  <2>2. ASSUME NEW b \in Accounts
        PROVE  /\ "login" \in DOMAIN acc'[b] /\ (acc[b].login => acc'[b].login)
               /\ b = a /\ upd.backup => acc'[b].login
    <3>1. CASE b # a
      BY <2>1, <3>1 DEF Members
    <3>2. CASE b = a
      <4>1. acc'[b] = [acc[b] EXCEPT !.auth = upd.session,
                          !.disabled = FALSE, !.reason = "none",
                          !.login = @ \/ upd.backup,
                          !.refreshAfter = 0, !.refreshErr = Failure]
        BY <2>1, <3>2 DEF Members
      <4>2. "login" \in DOMAIN acc[b]
        BY DEF Members
      <4>3. "login" \in DOMAIN acc'[b] /\ acc'[b].login = (acc[b].login \/ upd.backup)
        BY <4>1, <4>2
      <4> QED
        BY <4>3
    <3> QED
      BY <3>1, <3>2
  <2>3. DOMAIN acc' = Accounts
    BY <2>1 DEF Members
  <2>4. MembersStay
    BY <2>2, <2>3 DEF Members, MembersStay
  <2>5. PoolStays
    BY <2>1, <2>4, StaysPut DEF PoolStays
  <2>6. /\ DOMAIN upd' = DOMAIN upd /\ upd'.pc = "finish" /\ upd'.a = upd.a
        /\ upd'.backup = upd.backup /\ upd'.result = "updated"
    BY <1>0, <2>1
  <2>7. upd.backup => row'[upd.a].login /\ acc'[upd.a].login
    BY <1>0, <2>1, <2>2 DEF Served
  <2> HIDE DEF a
  <2> QED
    BY <1>0, <2>1, <2>5, <2>6, <2>7 DEF Served, SameUpdate, Loaded
<1>11. CASE UpdateLogin
  <2>1. PICK o \in Outcomes :
            /\ SetLogin(upd.a, o)
            /\ UpdateEnds(IF Confirmed(o) THEN "updated" ELSE "db")
            /\ acc' = IF Confirmed(o)
                      THEN [acc EXCEPT ![upd.a].login = TRUE,
                               ![upd.a].refreshAfter = 0,
                               ![upd.a].refreshErr = Failure]
                      ELSE acc
    BY <1>11 DEF UpdateLogin
  <2>2. accounts' = accounts
    BY <1>11 DEF UpdateLogin, otherPool
  <2>3. /\ table' = table /\ RowsStay
        /\ upd.a \in Accounts /\ Confirmed(o) => row'[upd.a].login
    BY <2>1, SetLoginStays
  <2>4. CASE Confirmed(o)
    <3>1. /\ acc' = [acc EXCEPT ![upd.a].login = TRUE, ![upd.a].refreshAfter = 0,
                                ![upd.a].refreshErr = Failure]
          /\ upd' = [upd EXCEPT !.pc = "finish", !.result = "updated"]
      BY <2>1, <2>4 DEF UpdateEnds
    <3>2. MembersStay /\ acc'[upd.a].login
      BY <1>0, <3>1 DEF Members, MembersStay
    <3>3. /\ DOMAIN upd' = DOMAIN upd /\ upd'.pc = "finish" /\ upd'.a = upd.a
          /\ upd'.backup = upd.backup /\ upd'.result = "updated"
      BY <1>0, <3>1
    <3> QED
      BY <1>0, <2>2, <2>3, <2>4, <3>2, <3>3 DEF PoolStays, Served, SameUpdate, Loaded
  <2>5. CASE ~Confirmed(o)
    <3>1. acc' = acc /\ upd' = [upd EXCEPT !.pc = "finish", !.result = "db"]
      BY <2>1, <2>5 DEF UpdateEnds
    <3>2. PoolStays
      BY <2>2, <2>3, <3>1, StaysPut DEF PoolStays
    <3> QED
      BY <1>0, <2>2, <3>1, <3>2, ServedMoves
  <2> QED
    BY <2>4, <2>5
<1> QED
  BY <1>1, <1>2, <1>3, <1>4, <1>5, <1>6, <1>7, <1>8, <1>9, <1>10, <1>11
     DEF UpdateStep

\* So no step of the pool takes away what a report is about.
LEMMA PoolServes ==
    ASSUME Rows, Members, Served, Loaded \subseteq Accounts, PoolNext
    PROVE  PoolStays /\ Served' /\ SameUpdate
<1>1. ASSUME NEW r \in Details, DetailStep(r)
      PROVE  PoolStays /\ Served' /\ SameUpdate
  <2>1. upd' = upd
    BY <1>1 DEF DetailStep, Acquire, Wait, Refuse, ReadSession, CheckAccount,
                Answer, Renew, Login, SaveRenewal, Publish, Judge, Mark,
                FlushHealth, Settle, Persist, Release
  <2> QED
    BY <1>1, <2>1, DetailStays, ServedFrame
<1>2. ASSUME NEW m \in Media, MediaStep(m)
      PROVE  PoolStays /\ Served' /\ SameUpdate
  <2>1. upd' = upd
    BY <1>2 DEF MediaStep, MediaAcquire, MediaWait, MediaRefuse, MediaRelease
  <2> QED
    BY <1>2, <2>1, MediaStays, ServedFrame
<1>3. CASE UpdateStep
  BY <1>3, UpdateServes
<1>4. CASE Environment
  <2>1. PoolStays
    BY <1>4, EnvironmentStays
  <2>2. CASE CancelUpdate
    <3>1. upd' = [upd EXCEPT !.pc = "finish", !.result = "ctx"] /\ upd.pc # "idle"
      BY <2>2 DEF CancelUpdate, UpdateEnds
    <3> QED
      BY <2>1, <3>1, ServedMoves DEF PoolStays, Served
  <2>3. CASE ~CancelUpdate
    <3>1. upd' = upd
      BY <1>4, <2>3 DEF Environment, Detail, CancelWait, CancelRequest,
                        MediaCancel, WithMedia, Close, CloseStore, Tick, callVars
    <3> QED
      BY <2>1, <3>1, ServedFrame
  <2> QED
    BY <2>2, <2>3
<1> QED
  BY <1>1, <1>2, <1>3, <1>4 DEF PoolNext

\* An update that begins works on an account of the pool; one that returns
\* leaves none behind.  Neither touches a password.
LEMMA BeginServes ==
    ASSUME Rows, Members, NEW a, NEW k, NEW p,
           BeginUpdate(a, [cookies |-> k, backup |-> p])
    PROVE  PoolStays /\ Served' /\ upd'.a = a /\ upd'.backup = p
<1>1. /\ acc' = [acc EXCEPT ![a].updating = TRUE] /\ a \in Loaded
      /\ accounts' = accounts /\ table' = table /\ row' = row
      /\ upd' = [NoUpdate EXCEPT !.pc = "drain", !.a = a, !.cookies = k, !.backup = p]
  BY DEF BeginUpdate, storeVars
<1>2. MembersStay
  BY <1>1 DEF Members, MembersStay
<1>3. PoolStays
  BY <1>1, <1>2, StaysPut DEF PoolStays
<1>4. /\ DOMAIN upd' = DOMAIN NoUpdate /\ upd'.pc = "drain" /\ upd'.a = a
      /\ upd'.backup = p /\ upd'.result = "none"
  BY <1>1 DEF NoUpdate
<1>5. {"pc", "a", "backup", "result"} \subseteq DOMAIN NoUpdate
  BY DEF NoUpdate
<1>6. a \in Loaded'
  BY <1>1 DEF Loaded
<1> QED
  BY <1>3, <1>4, <1>5, <1>6 DEF Served

\* No update promises nothing.
LEMMA NoneServed ==
    ASSUME upd' = NoUpdate
    PROVE  Served'
<1>1. /\ {"pc", "a", "backup", "result"} \subseteq DOMAIN upd'
      /\ upd'.pc = "idle" /\ upd'.result = "none"
  BY DEF NoUpdate
<1> QED
  BY <1>1 DEF Served

\* The end of an update lets go of the account.
LEMMA FinishServes ==
    ASSUME Rows, Members, FinishUpdate
    PROVE  PoolStays /\ Served'
<1>1. \E x : acc' = [acc EXCEPT ![upd.a].updating = FALSE, ![upd.a].gate = @ /\ ~x]
  BY DEF FinishUpdate
<1>2. MembersStay
  BY <1>1 DEF Members, MembersStay
<1> QED
  BY <1>2, StaysPut, NoneServed DEF FinishUpdate, storeVars, PoolStays

-----------------------------------------------------------------------------
(* The lists: the table and the pool have an account once.                 *)

\* No element of a list is there twice; every account of the pool is in the table.
Once(s) == \A i, j \in DOMAIN s : s[i] = s[j] => i = j
Listed  == /\ table \in Seq(Accounts) /\ accounts \in Seq(Accounts)
           /\ Once(table) /\ Once(accounts) /\ Loaded \subseteq Stored

\* Two lists without repetitions and nothing in common, one after the other.
LEMMA JoinedOnce ==
    ASSUME NEW S, NEW s \in Seq(S), NEW t \in Seq(S), Once(s), Once(t),
           \A i \in DOMAIN s, j \in DOMAIN t : s[i] # t[j]
    PROVE  /\ s \o t \in Seq(S) /\ Once(s \o t)
           /\ Range(s \o t) = Range(s) \cup Range(t)
<1> DEFINE u == s \o t
           m == Len(s)
           n == Len(t)
<1>1. /\ u \in Seq(S) /\ Len(u) = m + n
      /\ \A k \in 1..m + n : u[k] = IF k <= m THEN s[k] ELSE t[k - m]
  BY ConcatProperties
<1>2. m \in Nat /\ n \in Nat /\ DOMAIN s = 1..m /\ DOMAIN t = 1..n /\ DOMAIN u = 1..m + n
  BY <1>1, LenProperties
<1> HIDE DEF u, m, n
<1>3. ASSUME NEW k \in DOMAIN u
      PROVE  \/ k \in DOMAIN s /\ u[k] = s[k]
             \/ k - m \in DOMAIN t /\ u[k] = t[k - m]
  BY <1>1, <1>2
<1>4. Once(u)
  <2> SUFFICES ASSUME NEW i \in DOMAIN u, NEW j \in DOMAIN u, u[i] = u[j]
               PROVE  i = j
    BY DEF Once
  <2>1. CASE i \in DOMAIN s /\ u[i] = s[i] /\ j \in DOMAIN s /\ u[j] = s[j]
    BY <2>1 DEF Once
  <2>2. CASE i - m \in DOMAIN t /\ u[i] = t[i - m] /\ j - m \in DOMAIN t /\ u[j] = t[j - m]
    <3>1. i - m = j - m
      BY <2>2 DEF Once
    <3> QED
      BY <3>1, <1>2
  <2> QED
    BY <1>3, <2>1, <2>2
<1>5. ASSUME NEW i \in DOMAIN s
      PROVE  i \in DOMAIN u /\ u[i] = s[i]
  BY <1>1, <1>2
<1>6. ASSUME NEW i \in DOMAIN t
      PROVE  i + m \in DOMAIN u /\ u[i + m] = t[i]
  <2>1. i + m \in 1..m + n /\ ~(i + m <= m) /\ (i + m) - m = i
    BY <1>2
  <2> QED
    BY <1>1, <1>2, <2>1
<1>7. Range(u) = Range(s) \cup Range(t)
  BY <1>3, <1>5, <1>6 DEF Range
<1> QED
  BY <1>1, <1>4, <1>7 DEF u

\* A new account at the end of a list (INSERT, addStoredAccount).
LEMMA AppendedOnce ==
    ASSUME NEW S, NEW s \in Seq(S), NEW e \in S, Once(s),
           e \notin Range(s)
    PROVE  /\ Append(s, e) \in Seq(S) /\ Once(Append(s, e))
           /\ Range(Append(s, e)) = Range(s) \cup {e}
<1> DEFINE u == Append(s, e)
           m == Len(s)
<1>1. /\ u \in Seq(S) /\ Len(u) = m + 1 /\ u[m + 1] = e
      /\ \A k \in 1..m : u[k] = s[k]
  BY AppendProperties
<1>2. m \in Nat /\ DOMAIN s = 1..m /\ DOMAIN u = 1..m + 1
  BY <1>1, LenProperties
<1> HIDE DEF u, m
<1>3. ASSUME NEW k \in DOMAIN u
      PROVE  (k \in DOMAIN s /\ u[k] = s[k]) \/ (k = m + 1 /\ u[k] = e)
  BY <1>1, <1>2
<1>4. Once(u)
  BY <1>3 DEF Once, Range
<1>5. ASSUME NEW i \in DOMAIN s
      PROVE  i \in DOMAIN u /\ u[i] = s[i]
  BY <1>1, <1>2
<1>6. m + 1 \in DOMAIN u
  BY <1>2
<1>7. Range(u) = Range(s) \cup {e}
  BY <1>1, <1>3, <1>5, <1>6 DEF Range
<1> QED
  BY <1>1, <1>4, <1>7 DEF u

\* A list without repetition is as long as what it lists.
LEMMA OnceIsAll ==
    ASSUME NEW S, NEW s \in Seq(S), Once(s)
    PROVE  Cardinality(Range(s)) = Len(s)
<1> DEFINE T == Range(s)
<1>1. Len(s) \in Nat /\ DOMAIN s = 1..Len(s) /\ s \in [1..Len(s) -> S]
  BY LenProperties
<1>2. s \in [1..Len(s) -> T]
  BY <1>1 DEF Range
<1>3. s \in Bijection(1..Len(s), T)
  <2>1. \A a, b \in 1..Len(s) : s[a] = s[b] => a = b
    BY <1>1 DEF Once
  <2>2. \A t \in T : \E i \in 1..Len(s) : s[i] = t
    BY <1>1 DEF Range
  <2> HIDE DEF T
  <2> QED
    BY <1>1, <1>2, <2>1, <2>2 DEF Bijection, Injection, IsInjective, Surjection
<1>4. IsFiniteSet(1..Len(s)) /\ Cardinality(1..Len(s)) = Len(s)
  <2>1. IsFiniteSet(1..Len(s)) /\ Cardinality(1..Len(s))
                                   = IF 1 > Len(s) THEN 0 ELSE Len(s) - 1 + 1
    BY <1>1, FS_Interval
  <2> QED
    BY <1>1, <2>1
<1>5. ExistsBijection(1..Len(s), T)
  BY <1>3 DEF ExistsBijection
<1> HIDE DEF T
<1>6. Cardinality(T) = Len(s)
  BY <1>4, <1>5, FS_Bijection
<1> QED
  BY <1>6 DEF T

\* The rows of the table the pool lacks are accounts, each once.
LEMMA MissingOnes ==
    ASSUME Listed, NEW more \in Missing
    PROVE  /\ more \in Seq(Accounts) /\ Once(more)
           /\ \A i \in DOMAIN more : more[i] \in Stored \ Loaded
<1> DEFINE n == Cardinality(Stored \ Loaded)
<1>1. Stored \ Loaded \subseteq Accounts
  <2>1. DOMAIN table = 1..Len(table) /\ \A i \in DOMAIN table : table[i] \in Accounts
    BY LenProperties, ElementOfSeq DEF Listed
  <2> QED
    BY <2>1 DEF Stored
<1>2. n \in Nat
  BY <1>1, StoreAssumption, FS_Subset, FS_CardinalityType
<1>3. /\ more \in [1..n -> Stored \ Loaded]
      /\ \A i, j \in 1..n : i # j => more[i] # more[j]
  BY DEF Missing, SetToSeqs
<1> HIDE DEF n
<1>4. more \in [1..n -> Accounts]
  BY <1>1, <1>3
<1>5. more \in Seq(Accounts)
  BY <1>2, <1>4, SeqDef
<1> QED
  BY <1>3, <1>5 DEF Once

-----------------------------------------------------------------------------
(* The import against the pool and the table.                              *)

\* While rows are looked up, what the import knows is what the table holds;
\* the update it waits for is that of the current row; the account it inserts
\* is in the table only, until it is added.
Placed ==
    /\ imp.pc \in {"row", "update", "login", "insert"} => imp.known = Stored
    /\ imp.pc = "update" => upd.a = Current.user /\ upd.backup = Current.backup
    /\ imp.pc = "insert" => Current.user \notin Stored
    /\ imp.pc = "add" =>
         /\ Stored = imp.known \cup {Current.user} /\ Current.user \notin Loaded
         /\ Current.backup => row[Current.user].login

\* A row that is true: its account is in the table and in the pool, and so is
\* the password it brought.
Backed(c) == /\ c.user \in Stored /\ c.user \in Loaded
             /\ c.backup => row[c.user].login /\ acc[c.user].login
Claims   == {"imported", "updated"}
BorneOut == \A k \in 1..Len(imp.results) :
                imp.results[k].status \in Claims => Backed(imp.rows[k])

ReportIInv == Rows /\ Members /\ Listed /\ Served /\ Placed /\ BorneOut

\* The report of a step is true when its new claims are.
LEMMA StaysBorneOut ==
    ASSUME BorneOut, Lasting, imp'.rows = imp.rows,
           \A k \in 1..Len(imp'.results) :
              imp'.results[k].status \in Claims =>
                 \/ k \in 1..Len(imp.results) /\ imp'.results[k] = imp.results[k]
                 \/ LET c == imp.rows[k] IN
                    /\ c.user \in Stored' /\ c.user \in Loaded'
                    /\ c.backup => row'[c.user].login /\ acc'[c.user].login
    PROVE  BorneOut'
<1> SUFFICES ASSUME NEW k \in 1..Len(imp'.results), imp'.results[k].status \in Claims
             PROVE  LET c == imp.rows[k] IN
                    /\ c.user \in Stored' /\ c.user \in Loaded'
                    /\ c.backup => row'[c.user].login /\ acc'[c.user].login
  BY DEF BorneOut, Backed
<1>1. CASE k \in 1..Len(imp.results) /\ imp'.results[k] = imp.results[k]
  BY <1>1 DEF BorneOut, Backed, Lasting
<1> QED
  BY <1>1

\* The accounts of the lists.
LEMMA ListedOnes ==
    ASSUME Listed
    PROVE  Stored \subseteq Accounts /\ Loaded \subseteq Accounts
<1>1. /\ \A i \in DOMAIN table : table[i] \in Accounts
      /\ \A i \in DOMAIN accounts : accounts[i] \in Accounts
  BY LenProperties, ElementOfSeq DEF Listed
<1> QED
  BY <1>1 DEF Stored, Loaded

\* The row an import is at.
LEMMA CurrentRow ==
    ASSUME Good(imp), imp.pc # "idle"
    PROVE  /\ imp.n \in Nat /\ imp.n >= 1 /\ Current \in BatchRow
           /\ Current.user \in Accounts /\ Current = imp.rows[imp.n]
           /\ Len(imp.results) = imp.n - 1
           /\ {"pc", "rows", "n", "results", "known", "noRoute", "late", "session",
               "error", "count"} \subseteq DOMAIN imp
<1>1. IsBatch(imp) /\ InHand(imp)
  BY DEF Good
<1>2. imp.n \in 1..Len(imp.rows) /\ imp.rows \in Seq(BatchRow) /\ imp.n \in Nat
  BY <1>1, LenProperties DEF IsBatch, InHand
<1>3. imp.rows[imp.n] \in BatchRow
  BY <1>2, ElementOfSeq
<1> QED
  BY <1>1, <1>2, <1>3 DEF IsBatch, InHand, Current, BatchRow

\* What a report leaves in the import's hands.
LEMMA ReportFx ==
    ASSUME Good(imp), imp.pc # "idle", NEW s
    PROVE  /\ Report(s).rows = imp.rows /\ Report(s).known = imp.known
           /\ Report(s).pc \in {"row", "idle"} /\ DOMAIN Report(s) = DOMAIN imp
           /\ Len(Report(s).results) = imp.n
           /\ \A k \in 1..imp.n - 1 : Report(s).results[k] = imp.results[k]
           /\ Report(s).results[imp.n].status = s
<1> DEFINE x == Result(s)
           q == Append(imp.results, x)
           i == [imp EXCEPT !.results = q]
<1>0. /\ IsBatch(imp) /\ InHand(imp) /\ imp.n \in Nat /\ imp.results \in Seq(Lines)
      /\ Len(imp.results) \in Nat /\ Len(imp.results) = imp.n - 1
  BY LenProperties DEF Good, IsBatch, InHand
<1>1. x.status = s
  BY DEF Result
<1>2. Report(s) = NextRow(i)
  BY DEF Report
<1> HIDE DEF x
<1>3. /\ Len(q) = imp.n /\ q[imp.n].status = s
      /\ \A k \in 1..imp.n - 1 : q[k] = imp.results[k]
  <2>1. /\ Len(q) = Len(imp.results) + 1
        /\ \A k \in 1..Len(imp.results) : q[k] = imp.results[k]
        /\ q[Len(imp.results) + 1] = x
    <3>1. imp.results \in Seq(Lines \cup {x}) /\ x \in Lines \cup {x}
      <4>1. \A k \in 1..Len(imp.results) : imp.results[k] \in Lines \cup {x}
        BY <1>0, ElementOfSeq
      <4>2. imp.results \in [1..Len(imp.results) -> Lines]
        BY <1>0, LenProperties
      <4>3. imp.results \in [1..Len(imp.results) -> Lines \cup {x}]
        BY <4>1, <4>2
      <4> QED
        BY <1>0, <4>3, SeqDef
    <3> QED
      BY <3>1, AppendProperties
  <2> HIDE DEF q
  <2> QED
    BY <1>0, <1>1, <2>1
<1> HIDE DEF q
<1>4. /\ DOMAIN i = DOMAIN imp /\ i.results = q /\ i.rows = imp.rows
      /\ i.known = imp.known
      /\ {"pc", "rows", "n", "results", "known", "late", "session"} \subseteq DOMAIN i
  BY <1>0 DEF IsBatch
<1> HIDE DEF i
<1>5. \/ NextRow(i) = [i EXCEPT !.pc = "row", !.n = @ + 1, !.late = FALSE,
                                !.session = NoSession]
      \/ NextRow(i) = [i EXCEPT !.pc = "idle", !.late = FALSE, !.session = NoSession]
  BY DEF NextRow
<1>6. /\ DOMAIN NextRow(i) = DOMAIN i /\ NextRow(i).results = i.results
      /\ NextRow(i).rows = i.rows /\ NextRow(i).known = i.known
      /\ NextRow(i).pc \in {"row", "idle"}
  BY <1>4, <1>5
<1> QED
  BY <1>2, <1>3, <1>4, <1>6

\* An import that stops claims no more.
LEMMA AbortFx ==
    ASSUME Good(imp)
    PROVE  /\ Abort.pc = "idle" /\ Abort.rows = imp.rows
           /\ Abort.results = imp.results
  BY DEF Abort, Good, IsBatch

\* A batch that stops claims nothing for the rows it skips.
LEMMA SkipFx ==
    ASSUME Good(imp), imp.pc # "idle"
    PROVE  /\ SkipRest.pc = "idle" /\ SkipRest.rows = imp.rows
           /\ \A k \in 1..Len(SkipRest.results) :
                 SkipRest.results[k].status \in Claims =>
                    k \in 1..Len(imp.results) /\ SkipRest.results[k] = imp.results[k]
<1> DEFINE m == Len(imp.rows) - imp.n + 1
           rest == [k \in 1..m |-> [row |-> imp.n + k - 1,
                                    status |-> IF k = 1 THEN "failed" ELSE "skipped"]]
           q == imp.results \o rest
<1>0. /\ IsBatch(imp) /\ InHand(imp) /\ imp.n \in Nat /\ imp.results \in Seq(Lines)
      /\ Len(imp.results) \in Nat /\ m \in Nat
  BY LenProperties DEF Good, IsBatch, InHand
<1>1. /\ rest \in Seq(Lines) /\ Len(rest) = m
      /\ \A k \in 1..m : rest[k].status \notin Claims
  <2>1. rest \in [1..m -> Lines]
    BY <1>0 DEF Lines, Statuses
  <2>2. \A k \in 1..m : rest[k].status \notin Claims
    BY DEF Claims
  <2> HIDE DEF rest, m
  <2>3. rest \in Seq(Lines)
    BY <1>0, <2>1, SeqDef
  <2>4. Len(rest) = m
    BY <1>0, <2>1, <2>3, LenProperties
  <2> QED
    BY <2>2, <2>3, <2>4
<1>2. SkipRest = [imp EXCEPT !.pc = "idle", !.late = FALSE, !.session = NoSession,
                             !.results = q]
  BY DEF SkipRest
<1> HIDE DEF rest, m
<1>3. /\ Len(q) = Len(imp.results) + m
      /\ \A k \in 1..Len(imp.results) + m :
            q[k] = IF k <= Len(imp.results) THEN imp.results[k]
                   ELSE rest[k - Len(imp.results)]
  BY <1>0, <1>1, ConcatProperties
<1> HIDE DEF q
<1>4. ASSUME NEW k \in 1..Len(q), q[k].status \in Claims
      PROVE  k \in 1..Len(imp.results) /\ q[k] = imp.results[k]
  <2>1. CASE k <= Len(imp.results)
    BY <1>0, <1>3, <2>1
  <2>2. CASE ~(k <= Len(imp.results))
    <3>1. k - Len(imp.results) \in 1..m /\ q[k] = rest[k - Len(imp.results)]
      BY <1>0, <1>3, <2>2
    <3> QED
      BY <1>1, <1>4, <3>1
  <2> QED
    BY <2>1, <2>2
<1>5. SkipRest.pc = "idle" /\ SkipRest.rows = imp.rows /\ SkipRest.results = q
  BY <1>0, <1>2 DEF IsBatch
<1> QED
  BY <1>4, <1>5

\* A row done, or the import ended, without a new claim.
LEMMA Unclaimed ==
    ASSUME Good(imp), imp.pc # "idle", BorneOut, Lasting,
           \/ imp' = Abort
           \/ imp' = SkipRest
           \/ \E s : /\ s \notin Claims
                     /\ imp'.rows = Report(s).rows /\ imp'.results = Report(s).results
                     /\ imp'.pc = Report(s).pc /\ imp'.known = Report(s).known
    PROVE  /\ BorneOut' /\ imp'.pc \in {"row", "idle"}
           /\ imp'.pc = "row" => imp'.known = imp.known
<1>1. CASE imp' = Abort
  BY <1>1, AbortFx, StaysBorneOut
<1>2. CASE imp' = SkipRest
  BY <1>2, SkipFx, StaysBorneOut
<1>3. ASSUME NEW s, s \notin Claims, imp'.rows = Report(s).rows,
             imp'.results = Report(s).results, imp'.pc = Report(s).pc,
             imp'.known = Report(s).known
      PROVE  /\ BorneOut' /\ imp'.pc \in {"row", "idle"}
             /\ imp'.pc = "row" => imp'.known = imp.known
  <2>1. imp.n \in Nat /\ imp.n >= 1 /\ Len(imp.results) = imp.n - 1
    BY CurrentRow
  <2>2. \A k \in 1..Len(imp'.results) : imp'.results[k].status \in Claims =>
           k \in 1..Len(imp.results) /\ imp'.results[k] = imp.results[k]
    <3> SUFFICES ASSUME NEW k \in 1..imp.n, imp'.results[k].status \in Claims
                 PROVE  k \in 1..Len(imp.results) /\ imp'.results[k] = imp.results[k]
      BY <1>3, ReportFx
    <3>1. k # imp.n
      BY <1>3, ReportFx
    <3>2. k \in 1..imp.n - 1
      BY <2>1, <3>1
    <3> QED
      BY <1>3, <2>1, <3>2, ReportFx
  <2>3. imp'.rows = imp.rows
    BY <1>3, ReportFx
  <2>4. BorneOut'
    BY <2>2, <2>3, StaysBorneOut
  <2> QED
    BY <1>3, <2>4, ReportFx
<1> QED
  BY <1>1, <1>2, <1>3

\* The import goes on within a row.
LEMMA StillClaimed ==
    ASSUME BorneOut, Lasting, imp'.rows = imp.rows, imp'.results = imp.results
    PROVE  BorneOut'
  BY StaysBorneOut

\* Between rows, only what is known matters.
LEMMA PlacedAtRow ==
    ASSUME imp'.pc \in {"row", "idle"}, imp'.pc = "row" => imp'.known = Stored'
    PROVE  Placed'
  BY DEF Placed

\* The table and the pool are left alone.
LEMMA SameLists ==
    ASSUME Listed, table' = table, accounts' = accounts
    PROVE  Listed' /\ Stored' = Stored /\ Loaded' = Loaded
  BY DEF Listed, Stored, Loaded

\* A step outside the import.
LEMMA PoolKeepsReport ==
    ASSUME ImportIInv, ReportIInv, PoolNext, imp' = imp
    PROVE  ReportIInv'
<1>0. Loaded \subseteq Accounts
  BY ListedOnes DEF ReportIInv
<1>1. PoolStays /\ Served' /\ SameUpdate
  BY <1>0, PoolServes DEF ReportIInv
<1>2. Lasting /\ Stored' = Stored /\ Loaded' = Loaded
  BY <1>0, <1>1, PoolLasts
<1>3. Listed'
  BY <1>1, SameLists DEF ReportIInv, PoolStays
<1>4. BorneOut'
  BY <1>2, StillClaimed DEF ReportIInv
<1>5. Current' = Current
  BY DEF Current
<1>6. Placed'
  <2>1. CASE imp.pc = "add"
    <3>1. Current.user \in Accounts
      BY <2>1, CurrentRow DEF ImportIInv
    <3>2. Current.backup => row'[Current.user].login
      BY <1>1, <2>1, <3>1 DEF ReportIInv, Placed, PoolStays, RowsStay
    <3> QED
      BY <1>2, <1>5, <2>1, <3>2 DEF ReportIInv, Placed
  <2>2. CASE imp.pc # "add"
    BY <1>1, <1>2, <1>5, <2>2 DEF ReportIInv, Placed, SameUpdate
  <2> QED
    BY <2>1, <2>2
<1> QED
  BY <1>1, <1>3, <1>4, <1>6 DEF ReportIInv, PoolStays, RowsStay, MembersStay

\* A step of the import that leaves table and pool alone, or only begins or
\* ends an update.
LEMMA ImportKeepsReport ==
    ASSUME ImportIInv, ReportIInv, PoolStays, Served', BorneOut', Placed'
    PROVE  ReportIInv'
  BY SameLists DEF ReportIInv, PoolStays, RowsStay, MembersStay

\* Nothing but the import moves.
LEMMA VarsStay ==
    ASSUME ReportIInv, UNCHANGED vars
    PROVE  /\ PoolStays /\ Served' /\ Lasting /\ Stored' = Stored /\ Loaded' = Loaded
           /\ SameUpdate
<1>1. row' = row /\ acc' = acc /\ table' = table /\ accounts' = accounts /\ upd' = upd
  BY DEF vars, storeVars, poolVars, callVars
<1>2. PoolStays
  BY <1>1, StaysPut DEF PoolStays, ReportIInv
<1>3. Loaded \subseteq Accounts
  BY ListedOnes DEF ReportIInv
<1> QED
  BY <1>1, <1>2, <1>3, ServedFrame, PoolLasts DEF ReportIInv

\* A batch begins: nothing is claimed yet.
LEMMA ImportReports ==
    ASSUME ImportIInv, ReportIInv, NEW b \in Batches, Import(b)
    PROVE  ReportIInv'
<1>1. PoolStays /\ Served'
  BY VarsStay DEF Import
<1>2. PICK c : imp' = [NoImport EXCEPT !.pc = "load", !.rows = b, !.n = 1, !.count = c]
  BY DEF Import
<1>3. imp'.pc = "load" /\ imp'.results = <<>>
  BY <1>2 DEF NoImport
<1>4. Len(<<>>) = 0
  BY EmptySeq
<1>5. BorneOut' /\ Placed'
  BY <1>3, <1>4 DEF BorneOut, Placed
<1> QED
  BY <1>1, <1>5, ImportKeepsReport

\* Rows of the table that the pool lacks join it with the password they have.
LEMMA LoadReports ==
    ASSUME ImportIInv, ReportIInv, LoadKnown
    PROVE  ReportIInv'
<1>0. /\ Rows /\ Members /\ Listed /\ Served /\ BorneOut /\ Good(imp)
      /\ imp.pc # "idle" /\ table' = table /\ row' = row /\ upd' = upd
      /\ Stored \subseteq Accounts /\ Loaded \subseteq Accounts
  BY ListedOnes DEF ReportIInv, ImportIInv, LoadKnown, callVars
<1>1. CASE imp' = Abort /\ accounts' = accounts /\ acc' = acc
  <2>1. PoolStays
    BY <1>0, <1>1, StaysPut DEF PoolStays
  <2>2. Lasting
    BY <1>0, <2>1, PoolLasts
  <2>3. BorneOut' /\ imp'.pc = "idle"
    BY <1>0, <1>1, <2>2, Unclaimed, AbortFx
  <2> QED
    BY <1>0, <2>1, <2>3, ServedFrame, PlacedAtRow, ImportKeepsReport
<1>2. ASSUME imp' = [imp EXCEPT !.pc = "row", !.known = Stored],
             NEW more \in Missing, accounts' = accounts \o more,
             NEW stale,
             acc' = [a \in Accounts |-> IF a \in Stored \ Loaded
                                        THEN addStoredAccount(a, a \in stale)
                                        ELSE acc[a]]
      PROVE  ReportIInv'
  <2>1. /\ more \in Seq(Accounts) /\ Once(more)
        /\ \A i \in DOMAIN more : more[i] \in Stored \ Loaded
    BY <1>0, MissingOnes
  <2>2. \A i \in DOMAIN accounts, j \in DOMAIN more : accounts[i] # more[j]
    BY <2>1 DEF Loaded
  <2>3. /\ accounts \o more \in Seq(Accounts) /\ Once(accounts \o more)
        /\ Range(accounts \o more) = Range(accounts) \cup Range(more)
    BY <1>0, <2>1, <2>2, JoinedOnce DEF Listed
  <2>4. /\ Loaded' = Loaded \cup Range(more) /\ Stored' = Stored
        /\ Range(more) \subseteq Stored
    BY <1>0, <1>2, <2>1, <2>3 DEF Loaded, Stored, Range
  <2>5. Listed'
    BY <1>0, <1>2, <2>1, <2>3, <2>4 DEF Listed
  <2>6. ASSUME NEW b \in Accounts
        PROVE  "login" \in DOMAIN acc'[b] /\ (b \in Loaded => acc'[b] = acc[b])
    <3>1. "login" \in DOMAIN addStoredAccount(b, b \in stale)
      BY DEF addStoredAccount
    <3> QED
      BY <1>0, <1>2, <3>1 DEF Members
  <2>7. Members' /\ Rows'
    BY <1>0, <1>2, <2>6 DEF Members, Rows
  <2>8. Lasting
    BY <1>0, <2>4, <2>6 DEF Lasting
  <2>9. imp'.rows = imp.rows /\ imp'.results = imp.results /\ imp'.pc = "row"
        /\ imp'.known = Stored
    BY <1>0, <1>2 DEF Good, IsBatch
  <2>10. BorneOut' /\ Placed' /\ Served'
    BY <1>0, <2>4, <2>8, <2>9, StillClaimed, PlacedAtRow, ServedLasts
  <2> QED
    BY <2>5, <2>7, <2>10 DEF ReportIInv
<1> QED
  <2>1. PICK o : IF Confirmed(o) /\ (~closed \/ Stored = {})
            THEN /\ imp' = [imp EXCEPT !.pc = "row", !.known = Stored]
                 /\ \E more \in Missing : accounts' = accounts \o more
                 /\ \E stale \in SUBSET (Stored \ Loaded) :
                      acc' = [a \in Accounts |->
                                 IF a \in Stored \ Loaded
                                 THEN addStoredAccount(a, a \in stale)
                                 ELSE acc[a]]
            ELSE imp' = Abort /\ UNCHANGED <<accounts, acc, asleep>>
    BY DEF LoadKnown
  <2> QED
    BY <1>1, <1>2, <2>1

\* The update of a known account begins.
LEMMA KnownReports ==
    ASSUME ImportIInv, ReportIInv, NEW k, imp.known = Stored,
           BeginUpdate(Current.user, [cookies |-> k, backup |-> Current.backup]),
           imp'.rows = imp.rows, imp'.results = imp.results, imp'.pc = "update",
           imp'.known = imp.known, imp'.n = imp.n
    PROVE  ReportIInv'
<1>0. /\ Rows /\ Members /\ Listed /\ BorneOut /\ Good(imp) /\ Loaded \subseteq Accounts
  BY ListedOnes DEF ReportIInv, ImportIInv
<1>1. PoolStays /\ Served' /\ upd'.a = Current.user /\ upd'.backup = Current.backup
  <2> DEFINE a == Current.user
             p == Current.backup
  <2> HIDE DEF a, p
  <2>1. BeginUpdate(a, [cookies |-> k, backup |-> p])
    BY DEF a, p
  <2>2. PoolStays /\ Served' /\ upd'.a = a /\ upd'.backup = p
    BY <1>0, <2>1, BeginServes
  <2> QED
    BY <2>2 DEF a, p
<1>2. Lasting /\ Stored' = Stored
  BY <1>0, <1>1, PoolLasts
<1>3. BorneOut'
  BY <1>0, <1>2, StillClaimed
<1>4. Current' = Current
  BY DEF Current
<1>5. Placed'
  BY <1>1, <1>2, <1>4 DEF Placed
<1> QED
  BY <1>1, <1>3, <1>5, ImportKeepsReport

\* The update returns; it is reported as made when it is.
LEMMA ReturnReports ==
    ASSUME ImportIInv, ReportIInv, UpdateReturns
    PROVE  ReportIInv'
<1>0. /\ Rows /\ Members /\ Listed /\ Served /\ Placed /\ BorneOut /\ Good(imp)
      /\ imp.pc = "update" /\ upd.pc = "finish" /\ imp.known = Stored
      /\ Loaded \subseteq Accounts
  BY ListedOnes DEF ReportIInv, ImportIInv, UpdateReturns, FinishUpdate, Placed
<1>1. PoolStays /\ Served'
  BY <1>0, FinishServes DEF UpdateReturns
<1>2. Lasting /\ Stored' = Stored /\ Loaded' = Loaded
  BY <1>0, <1>1, PoolLasts
<1>3. CASE upd.result = "updated"
  <2>1. imp' = Report("updated")
    BY <1>3, ResultsOf
  <2>2. /\ imp.n \in Nat /\ imp.n >= 1 /\ Len(imp.results) = imp.n - 1
        /\ Current = imp.rows[imp.n]
    BY <1>0, CurrentRow
  <2>3. /\ Current.user \in Stored' /\ Current.user \in Loaded'
        /\ Current.backup => row'[Current.user].login /\ acc'[Current.user].login
    <3>1. upd.a = Current.user /\ upd.backup = Current.backup /\ upd.a \in Loaded
      BY <1>0 DEF Placed, Served
    <3>2. upd.backup => row'[upd.a].login /\ acc'[upd.a].login
      BY <1>0, <1>2, <1>3, <3>1 DEF Served, Lasting
    <3> QED
      BY <1>0, <1>2, <3>1, <3>2 DEF Listed
  <2>4. ASSUME NEW k \in 1..Len(imp'.results)
        PROVE  \/ k \in 1..Len(imp.results) /\ imp'.results[k] = imp.results[k]
               \/ k = imp.n
    <3>1. k \in 1..imp.n
      BY <1>0, <2>1, ReportFx
    <3>2. CASE k # imp.n
      <4>1. k \in 1..imp.n - 1
        BY <2>2, <3>1, <3>2
      <4> QED
        BY <1>0, <2>1, <2>2, <4>1, ReportFx
    <3> QED
      BY <3>2
  <2>5. imp'.rows = imp.rows /\ imp'.known = imp.known /\ imp'.pc \in {"row", "idle"}
    BY <1>0, <2>1, ReportFx
  <2>6. BorneOut'
    BY <1>0, <1>2, <2>2, <2>3, <2>4, <2>5, StaysBorneOut
  <2> QED
    BY <1>0, <1>1, <1>2, <2>5, <2>6, PlacedAtRow, ImportKeepsReport
<1>4. CASE upd.result # "updated"
  <2>1. upd.result \in {"duplicate", "failed", "stop", "db", "ctx"}
    BY <1>0, <1>4 DEF ImportIInv, Verdict, Results
  <2>2. imp' = Report("duplicate") \/ imp' = Report("failed") \/ imp' = Abort
        \/ imp' = SkipRest
    BY <2>1, ResultsOf
  <2>3. "duplicate" \notin Claims /\ "failed" \notin Claims
    BY DEF Claims
  <2>4. /\ BorneOut' /\ imp'.pc \in {"row", "idle"}
        /\ imp'.pc = "row" => imp'.known = imp.known
    BY <1>0, <1>2, <2>2, <2>3, Unclaimed
  <2> QED
    BY <1>0, <1>1, <1>2, <2>4, PlacedAtRow, ImportKeepsReport
<1> QED
  BY <1>3, <1>4

\* A route is probed: the table and the pool stay as they are.
LEMMA ProbeReports ==
    ASSUME ImportIInv, ReportIInv, ProbeRoutes
    PROVE  ReportIInv'
<1>0. /\ Placed /\ BorneOut /\ Good(imp) /\ imp.pc = "row" /\ imp.known = Stored
      /\ IsBatch(imp)
  BY DEF ReportIInv, ImportIInv, ProbeRoutes, Placed, Good
<1>1. PoolStays /\ Served' /\ Lasting /\ Stored' = Stored
  BY VarsStay DEF ProbeRoutes
<1>2. CASE imp' = [imp EXCEPT !.pc = "login"]
  <2>1. /\ imp'.rows = imp.rows /\ imp'.results = imp.results /\ imp'.pc = "login"
        /\ imp'.known = imp.known
    BY <1>0, <1>2 DEF IsBatch
  <2>2. BorneOut'
    BY <1>0, <1>1, <2>1, StillClaimed
  <2>3. Placed'
    BY <1>0, <1>1, <2>1 DEF Placed
  <2> QED
    BY <1>1, <2>2, <2>3, ImportKeepsReport
<1>3. CASE imp' = [Report("failed") EXCEPT !.noRoute = TRUE]
  <2>1. DOMAIN Report("failed") = DOMAIN imp
    BY <1>0, ReportFx
  <2>2. /\ imp'.rows = Report("failed").rows /\ imp'.known = Report("failed").known
        /\ imp'.results = Report("failed").results /\ imp'.pc = Report("failed").pc
    <3> DEFINE j == Report("failed")
    <3> HIDE DEF j
    <3>1. DOMAIN j = DOMAIN imp /\ imp' = [j EXCEPT !.noRoute = TRUE]
      BY <1>3, <2>1 DEF j
    <3>2. imp'.rows = j.rows /\ imp'.known = j.known /\ imp'.results = j.results
          /\ imp'.pc = j.pc
      BY <1>0, <3>1 DEF IsBatch
    <3> QED
      BY <3>2 DEF j
  <2>3. "failed" \notin Claims
    BY DEF Claims
  <2>4. /\ BorneOut' /\ imp'.pc \in {"row", "idle"}
        /\ imp'.pc = "row" => imp'.known = imp.known
    BY <1>0, <1>1, <2>2, <2>3, Unclaimed
  <2> QED
    BY <1>0, <1>1, <2>4, PlacedAtRow, ImportKeepsReport
<1> QED
  BY <1>2, <1>3 DEF ProbeRoutes

\* The login of an unknown account, or of one that is known after all.
LEMMA LoginReports ==
    ASSUME ImportIInv, ReportIInv, ImportLogin
    PROVE  ReportIInv'
<1>0. /\ Placed /\ BorneOut /\ Good(imp) /\ imp.pc = "login" /\ imp.known = Stored
      /\ IsBatch(imp) /\ Rows /\ Members /\ Served /\ Loaded \subseteq Accounts
  BY ListedOnes DEF ReportIInv, ImportIInv, ImportLogin, Placed, Good
<1>1. CASE /\ BeginUpdate(Current.user, [cookies |-> "none", backup |-> Current.backup])
           /\ imp' = [imp EXCEPT !.pc = "update", !.late = TRUE]
  <2>1. /\ imp'.rows = imp.rows /\ imp'.results = imp.results /\ imp'.pc = "update"
        /\ imp'.known = imp.known /\ imp'.n = imp.n
    BY <1>0, <1>1 DEF IsBatch
  <2> QED
    BY <1>0, <1>1, <2>1, KnownReports, Zenon
<1>2. CASE /\ Current.user \notin imp.known
           /\ imp' = [imp EXCEPT !.pc = "insert", !.session = minted + 1]
           /\ UNCHANGED <<storeVars, poolVars, callVars, rejected, env>>
  <2>1. row' = row /\ acc' = acc /\ table' = table /\ accounts' = accounts /\ upd' = upd
    BY <1>2 DEF storeVars, poolVars, callVars
  <2>2. PoolStays
    BY <1>0, <2>1, StaysPut DEF PoolStays
  <2>3. Served' /\ Lasting /\ Stored' = Stored
    BY <1>0, <2>1, <2>2, ServedFrame, PoolLasts
  <2>4. /\ imp'.rows = imp.rows /\ imp'.results = imp.results /\ imp'.pc = "insert"
        /\ imp'.known = imp.known /\ imp'.n = imp.n
    BY <1>0, <1>2 DEF IsBatch
  <2>5. Current' = Current
    BY <2>4 DEF Current
  <2>6. BorneOut'
    BY <1>0, <2>3, <2>4, StillClaimed
  <2>7. Placed'
    BY <1>0, <1>2, <2>3, <2>4, <2>5 DEF Placed
  <2> QED
    BY <2>2, <2>3, <2>6, <2>7, ImportKeepsReport
<1>3. CASE (imp' = Report("failed") \/ imp' = SkipRest) /\ UNCHANGED vars
  <2>1. PoolStays /\ Served' /\ Lasting /\ Stored' = Stored
    BY <1>3, VarsStay
  <2>2. "failed" \notin Claims
    BY DEF Claims
  <2>3. /\ BorneOut' /\ imp'.pc \in {"row", "idle"}
        /\ imp'.pc = "row" => imp'.known = imp.known
    BY <1>0, <1>3, <2>1, <2>2, Unclaimed
  <2> QED
    BY <1>0, <2>1, <2>3, PlacedAtRow, ImportKeepsReport
<1> QED
  BY <1>1, <1>2, <1>3 DEF ImportLogin

\* The row of an unknown account is new to the table, and the only one that
\* changes.
LEMMA InsertReports ==
    ASSUME ImportIInv, ReportIInv, InsertRow
    PROVE  ReportIInv'
<1> DEFINE a == Current.user
           p == Current.backup
<1>0. /\ Placed /\ BorneOut /\ Good(imp) /\ imp.pc = "insert" /\ imp.known = Stored
      /\ IsBatch(imp) /\ Rows /\ Members /\ Served /\ Listed /\ a \notin Stored
      /\ Loaded \subseteq Accounts
  BY ListedOnes DEF ReportIInv, ImportIInv, InsertRow, Placed, Good
<1>1. accounts' = accounts /\ acc' = acc /\ upd' = upd /\ a \in Accounts
  BY <1>0, CurrentRow DEF InsertRow, poolVars, callVars
<1>2. CASE imp' = Report("duplicate") /\ UNCHANGED storeVars
  <2>1. row' = row /\ table' = table
    BY <1>2 DEF storeVars
  <2>2. PoolStays
    BY <1>0, <1>1, <2>1, StaysPut DEF PoolStays
  <2>3. Served' /\ Lasting /\ Stored' = Stored
    BY <1>0, <1>1, <2>2, ServedFrame, PoolLasts
  <2>4. "duplicate" \notin Claims
    BY DEF Claims
  <2>5. /\ BorneOut' /\ imp'.pc \in {"row", "idle"}
        /\ imp'.pc = "row" => imp'.known = imp.known
    BY <1>0, <1>2, <2>3, <2>4, Unclaimed
  <2> QED
    BY <1>0, <2>2, <2>3, <2>5, PlacedAtRow, ImportKeepsReport
<1>3. ASSUME NEW o, Insert(a, imp.session, p, o),
             imp' = IF Confirmed(o) THEN [imp EXCEPT !.pc = "add"] ELSE Abort
      PROVE  ReportIInv'
  <2>1. CASE ~Commits(o)
    <3>1. row' = row /\ table' = table /\ imp' = Abort
      BY <1>3, <2>1 DEF Insert, Commits, Confirmed
    <3>2. PoolStays
      BY <1>0, <1>1, <3>1, StaysPut DEF PoolStays
    <3>3. Served' /\ Lasting /\ Stored' = Stored
      BY <1>0, <1>1, <3>2, ServedFrame, PoolLasts
    <3>4. BorneOut' /\ imp'.pc = "idle"
      BY <1>0, <3>1, <3>3, Unclaimed, AbortFx
    <3> QED
      BY <3>2, <3>3, <3>4, PlacedAtRow, ImportKeepsReport
  <2>2. CASE Commits(o)
    <3> DEFINE e == [auth |-> imp.session, ctx |-> imp.session, login |-> p,
                     dead |-> FALSE, reason |-> "none", until |-> 0]
    <3>1. table' = Append(table, a) /\ row' = [row EXCEPT ![a] = e]
      BY <1>0, <1>3, <2>2 DEF Insert
    <3>2. e.login = p /\ "login" \in DOMAIN e
      OBVIOUS
    <3> HIDE DEF e
    <3>3. /\ Append(table, a) \in Seq(Accounts) /\ Once(Append(table, a))
          /\ Range(Append(table, a)) = Range(table) \cup {a}
      <4>1. table \in Seq(Accounts) /\ Once(table) /\ a \notin Range(table)
        BY <1>0 DEF Listed, Stored, Range
      <4> HIDE DEF a
      <4> QED
        BY <1>1, <4>1, AppendedOnce
    <3>4. Stored' = Stored \cup {a} /\ Loaded' = Loaded
      BY <1>1, <3>1, <3>3 DEF Stored, Loaded, Range
    <3>5. Listed'
      BY <1>0, <1>1, <3>1, <3>3, <3>4 DEF Listed
    <3>6. Rows' /\ Members' /\ row'[a].login = p
      BY <1>0, <1>1, <3>1, <3>2 DEF Rows, Members
    <3>7. a \notin Loaded
      BY <1>0 DEF Listed
    <3>8. Lasting
      <4>1. \A b \in Loaded : row'[b] = row[b]
        BY <1>0, <3>1, <3>7 DEF Rows
      <4> QED
        BY <1>1, <3>4, <4>1 DEF Lasting
    <3>9. Served'
      BY <1>0, <1>1, <3>8, ServedLasts
    <3>10. CASE imp' = Abort
      <4>1. BorneOut' /\ imp'.pc = "idle"
        BY <1>0, <3>8, <3>10, Unclaimed, AbortFx
      <4> QED
        BY <3>5, <3>6, <3>9, <4>1, PlacedAtRow DEF ReportIInv
    <3>11. CASE imp' = [imp EXCEPT !.pc = "add"]
      <4>1. /\ imp'.rows = imp.rows /\ imp'.results = imp.results /\ imp'.pc = "add"
            /\ imp'.known = imp.known /\ imp'.n = imp.n
        BY <1>0, <3>11 DEF IsBatch
      <4>2. Current' = Current
        BY <4>1 DEF Current
      <4>3. BorneOut'
        BY <1>0, <3>8, <4>1, StillClaimed
      <4>4. Placed'
        BY <1>0, <3>4, <3>6, <3>7, <4>1, <4>2 DEF Placed
      <4> QED
        BY <3>5, <3>6, <3>9, <4>3, <4>4 DEF ReportIInv
    <3> QED
      BY <1>3, <3>10, <3>11
  <2> QED
    BY <2>1, <2>2
<1> QED
  BY <1>2, <1>3 DEF InsertRow

\* The inserted account joins the pool as its row says.
LEMMA AddReports ==
    ASSUME ImportIInv, ReportIInv, AddRow
    PROVE  ReportIInv'
<1> DEFINE a == Current.user
           p == Current.backup
<1>0. /\ Placed /\ BorneOut /\ Good(imp) /\ imp.pc = "add"
      /\ Stored = imp.known \cup {a} /\ a \notin Loaded /\ (p => row[a].login)
      /\ IsBatch(imp) /\ Rows /\ Members /\ Served /\ Listed
      /\ Loaded \subseteq Accounts
  BY ListedOnes DEF ReportIInv, ImportIInv, AddRow, Placed, Good
<1>1. table' = table /\ row' = row /\ upd' = upd /\ a \in Accounts
  BY <1>0, CurrentRow DEF AddRow, storeVars, callVars
<1>2. CASE closed
  <2>1. imp' = Abort /\ accounts' = accounts /\ acc' = acc
    BY <1>2 DEF AddRow
  <2>2. PoolStays
    BY <1>0, <1>1, <2>1, StaysPut DEF PoolStays
  <2>3. Served' /\ Lasting
    BY <1>0, <1>1, <2>2, ServedFrame, PoolLasts
  <2>4. BorneOut' /\ imp'.pc = "idle"
    BY <1>0, <2>1, <2>3, Unclaimed, AbortFx
  <2> QED
    BY <2>2, <2>3, <2>4, PlacedAtRow, ImportKeepsReport
<1>3. CASE ~closed
  <2> DEFINE e == addStoredAccount(a, FALSE)
  <2>1. /\ accounts' = Append(accounts, a) /\ acc' = [acc EXCEPT ![a] = e]
        /\ imp' = [Report("imported") EXCEPT !.known = @ \cup {a}]
    BY <1>3 DEF AddRow
  <2>2. e.login = row[a].login /\ "login" \in DOMAIN e
    BY DEF addStoredAccount
  <2> HIDE DEF e
  <2>3. /\ Append(accounts, a) \in Seq(Accounts) /\ Once(Append(accounts, a))
        /\ Range(Append(accounts, a)) = Range(accounts) \cup {a}
    <3>1. accounts \in Seq(Accounts) /\ Once(accounts) /\ a \notin Range(accounts)
      BY <1>0 DEF Listed, Loaded, Range
    <3> HIDE DEF a
    <3> QED
      BY <1>1, <3>1, AppendedOnce
  <2>4. Loaded' = Loaded \cup {a} /\ Stored' = Stored
    BY <1>1, <2>1, <2>3 DEF Stored, Loaded, Range
  <2>5. Listed'
    BY <1>0, <1>1, <2>1, <2>3, <2>4 DEF Listed
  <2>6. Rows' /\ Members' /\ acc'[a].login = row[a].login
    BY <1>0, <1>1, <2>1, <2>2 DEF Rows, Members
  <2>7. Lasting
    <3>1. \A b \in Loaded : acc'[b] = acc[b]
      BY <1>0, <2>1 DEF Members
    <3> QED
      BY <1>1, <2>4, <3>1 DEF Lasting
  <2>8. Served'
    BY <1>0, <1>1, <2>7, ServedLasts
  <2> DEFINE j == Report("imported")
  <2>9. /\ DOMAIN j = DOMAIN imp /\ j.rows = imp.rows /\ j.known = imp.known
        /\ j.pc \in {"row", "idle"} /\ Len(j.results) = imp.n
        /\ \A k \in 1..imp.n - 1 : j.results[k] = imp.results[k]
    BY <1>0, ReportFx
  <2> HIDE DEF j
  <2>10. imp' = [j EXCEPT !.known = @ \cup {a}]
    BY <2>1 DEF j
  <2>11. /\ imp'.rows = imp.rows /\ imp'.results = j.results
         /\ imp'.pc \in {"row", "idle"} /\ imp'.known = imp.known \cup {a}
    BY <1>0, <2>9, <2>10 DEF IsBatch
  <2>12. /\ imp.n \in Nat /\ imp.n >= 1 /\ Len(imp.results) = imp.n - 1
         /\ Current = imp.rows[imp.n]
    BY <1>0, CurrentRow
  <2>13. ASSUME NEW k \in 1..Len(imp'.results)
         PROVE  \/ k \in 1..Len(imp.results) /\ imp'.results[k] = imp.results[k]
                \/ k = imp.n
    BY <2>9, <2>11, <2>12
  <2>14. /\ a \in Stored' /\ a \in Loaded'
         /\ p => row'[a].login /\ acc'[a].login
    BY <1>0, <1>1, <2>4, <2>6
  <2>15. BorneOut'
    BY <1>0, <2>7, <2>11, <2>12, <2>13, <2>14, StaysBorneOut
  <2>16. Placed'
    BY <1>0, <2>4, <2>11, PlacedAtRow
  <2> QED
    BY <2>5, <2>6, <2>8, <2>15, <2>16 DEF ReportIInv
<1> QED
  BY <1>2, <1>3

\* A step of an import keeps its report true.
LEMMA ImportStepReports ==
    ASSUME ImportIInv, ReportIInv, ImportStep
    PROVE  ReportIInv'
<1>1. CASE UpdateKnown
  <2>1. imp.known = Stored /\ imp' = [imp EXCEPT !.pc = "update"]
    BY <1>1 DEF UpdateKnown, ReportIInv, Placed
  <2>3. /\ imp'.rows = imp.rows /\ imp'.results = imp.results /\ imp'.pc = "update"
        /\ imp'.known = imp.known /\ imp'.n = imp.n
    BY <2>1 DEF ImportIInv, Good, IsBatch
  <2>2. BeginUpdate(Current.user, [cookies |-> Current.cookies,
                                   backup |-> Current.backup])
    BY <1>1 DEF UpdateKnown
  <2> QED
    BY <2>1, <2>2, <2>3, KnownReports, Zenon
<1> QED
  BY <1>1, LoadReports, ReturnReports, ProbeReports, LoginReports, InsertReports,
     AddReports DEF ImportStep

\* What the first process begins with: the pool is the table's, and nothing is
\* claimed.
LEMMA FreshReport ==
    ASSUME table \in Seq(Accounts), Once(table), Rows, NEW stale,
           accounts = table,
           acc = [a \in Accounts |-> IF a \in Stored
                                     THEN addStoredAccount(a, a \in stale)
                                     ELSE NoAccount],
           upd = NoUpdate, imp.pc = "idle", imp.results = <<>>
    PROVE  ReportIInv
<1>1. Listed
  BY DEF Listed, Loaded, Stored
<1>2. Members
  <2>1. ASSUME NEW b \in Accounts
        PROVE  /\ "login" \in DOMAIN addStoredAccount(b, b \in stale)
               /\ "login" \in DOMAIN NoAccount
    BY DEF addStoredAccount, NoAccount
  <2> QED
    BY <2>1 DEF Members
<1>3. Served
  <2>1. /\ {"pc", "a", "backup", "result"} \subseteq DOMAIN upd
        /\ upd.pc = "idle" /\ upd.result = "none"
    BY DEF NoUpdate
  <2> QED
    BY <2>1 DEF Served
<1>4. Placed
  BY DEF Placed
<1>5. BorneOut
  <2>1. Len(<<>>) = 0
    BY EmptySeq
  <2> QED
    BY <2>1 DEF BorneOut
<1> QED
  BY <1>1, <1>2, <1>3, <1>4, <1>5 DEF ReportIInv

\* The table, the pool, the update and the report of the import agree, through
\* every step of the import, the pool and the process.
THEOREM ReportInvariance == ImportSpec => []ReportIInv
<1>1. ImportInit => ReportIInv
  <2> SUFFICES ASSUME ImportInit PROVE ReportIInv
    OBVIOUS
  <2>1. table \in Seq(Accounts) /\ Once(table)
    BY PoolAssumption DEF ImportInit, Init, Once
  <2>2. Rows
    <3>1. PICK s : row = [a \in Accounts |->
                             [auth |-> s[a], ctx |-> s[a], login |-> a \in Logins,
                              dead |-> FALSE, reason |-> "none", until |-> 0]]
      <4> DEFINE at(a) == {i \in DOMAIN Seeded : Seeded[i] = a}
                 t == [a \in Accounts |-> IF at(a) = {} THEN NoSession ELSE Min(at(a))]
      <4>1. row = [a \in Accounts |->
                      LET s == IF at(a) = {} THEN NoSession ELSE Min(at(a))
                      IN [auth |-> s, ctx |-> s, login |-> a \in Logins,
                          dead |-> FALSE, reason |-> "none", until |-> 0]]
        BY DEF ImportInit, Init
      <4>2. row = [a \in Accounts |->
                      [auth |-> t[a], ctx |-> t[a], login |-> a \in Logins,
                       dead |-> FALSE, reason |-> "none", until |-> 0]]
        BY <4>1
      <4> QED
        BY <4>2
    <3> QED
      BY <3>1 DEF Rows
  <2>3. /\ accounts = table /\ upd = NoUpdate /\ imp.pc = "idle" /\ imp.results = <<>>
        /\ acc = [a \in Accounts |-> IF a \in Stored THEN addStoredAccount(a, FALSE)
                                     ELSE NoAccount]
    BY DEF ImportInit, Init, NoImport
  <2>4. \A a : (a \in {}) = FALSE
    OBVIOUS
  <2>5. acc = [a \in Accounts |-> IF a \in Stored THEN addStoredAccount(a, a \in {})
                                  ELSE NoAccount]
    BY <2>3, <2>4
  <2> QED
    BY <2>1, <2>2, <2>3, <2>5, FreshReport
<1>2. ImportIInv /\ ReportIInv /\ [ImportNext]_importVars => ReportIInv'
  <2> SUFFICES ASSUME ImportIInv, ReportIInv, [ImportNext]_importVars
               PROVE  ReportIInv'
    OBVIOUS
  <2>1. CASE PoolNext /\ UNCHANGED imp
    BY <2>1, PoolKeepsReport
  <2>2. CASE ImportStep
    BY <2>2, ImportStepReports
  <2>3. CASE \E b \in Batches : Import(b)
    BY <2>3, ImportReports
  <2>4. CASE CancelImport
    <3>1. Good(imp) /\ imp.pc # "idle" /\ imp' = Abort /\ BorneOut
      BY <2>4 DEF CancelImport, ImportIInv, ReportIInv
    <3>2. PoolStays /\ Served' /\ Lasting
      BY <2>4, VarsStay DEF CancelImport
    <3>3. BorneOut' /\ imp'.pc = "idle"
      BY <3>1, <3>2, Unclaimed, AbortFx
    <3> QED
      BY <3>2, <3>3, PlacedAtRow, ImportKeepsReport
  <2>5. CASE ImportRestart
    <3>1. PICK c : imp' = [NoImport EXCEPT !.count = c]
      BY <2>5 DEF ImportRestart
    <3>2. imp'.pc = "idle" /\ imp'.results = <<>>
      BY <3>1 DEF NoImport
    <3>3. PICK stale \in SUBSET Stored :
             acc' = [a \in Accounts |-> IF a \in Stored
                                        THEN addStoredAccount(a, a \in stale)
                                        ELSE NoAccount]
      BY <2>5 DEF ImportRestart, Restart
    <3>4. /\ table' = table /\ row' = row /\ accounts' = table /\ upd' = NoUpdate
          /\ Rows /\ table \in Seq(Accounts) /\ Once(table)
      BY <2>5 DEF ImportRestart, Restart, ReportIInv, Listed
    <3>5. Listed'
      BY <3>4 DEF Listed, Loaded, Stored
    <3>6. Rows'
      BY <3>4 DEF Rows
    <3>7. Members'
      <4>1. ASSUME NEW b \in Accounts
            PROVE  /\ "login" \in DOMAIN addStoredAccount(b, b \in stale)
                   /\ "login" \in DOMAIN NoAccount
        BY DEF addStoredAccount, NoAccount
      <4> QED
        BY <3>3, <4>1 DEF Members
    <3>8. Served' /\ Placed'
      BY <3>2, <3>4, NoneServed, PlacedAtRow
    <3>9. BorneOut'
      <4>1. Len(<<>>) = 0
        BY EmptySeq
      <4> QED
        BY <3>2, <4>1 DEF BorneOut
    <3> QED
      BY <3>5, <3>6, <3>7, <3>8, <3>9 DEF ReportIInv
  <2>6. CASE UNCHANGED importVars
    <3>1. UNCHANGED vars /\ imp' = imp
      BY <2>6 DEF importVars
    <3>2. PoolStays /\ Served' /\ Lasting /\ Stored' = Stored /\ Loaded' = Loaded
          /\ SameUpdate /\ row' = row
      BY <3>1, VarsStay DEF vars, storeVars
    <3>3. BorneOut'
      BY <3>1, <3>2, StillClaimed DEF ReportIInv
    <3>4. Current' = Current
      BY <3>1 DEF Current
    <3>5. Placed'
      BY <3>1, <3>2, <3>4 DEF ReportIInv, Placed, SameUpdate
    <3> QED
      BY <3>2, <3>3, <3>5, ImportKeepsReport
  <2> QED
    BY <2>1, <2>2, <2>3, <2>4, <2>5, <2>6 DEF ImportNext
<1> QED
  BY <1>1, <1>2, ImportInvariance, PTL DEF ImportSpec

\* What Import reports as imported or updated is in the table and in the pool
\* with the password it brought, and the pool has no account twice and none the
\* table lacks: for every batch, however its statements end, and whatever
\* requests, renewals, checkpoints and restarts come in between.
THEOREM ReportsAreTrue == ImportSpec => []ReportIsTrue
<1>1. ImportIInv /\ ReportIInv => ReportIsTrue
  <2> SUFFICES ASSUME ImportIInv, ReportIInv PROVE ReportIsTrue
    OBVIOUS
  <2>1. Listed /\ BorneOut /\ imp.results \in Seq(Lines)
    BY DEF ImportIInv, ReportIInv, Good, IsBatch
  <2>2. Cardinality(Loaded) = Len(accounts)
    BY <2>1, OnceIsAll DEF Listed, Loaded, Range
  <2>3. DOMAIN imp.results = 1..Len(imp.results)
    BY <2>1, LenProperties
  <2> QED
    BY <2>1, <2>2, <2>3 DEF ReportIsTrue, Listed, BorneOut, Backed, Claims
<1> QED
  BY <1>1, ImportInvariance, ReportInvariance, PTL

=============================================================================
