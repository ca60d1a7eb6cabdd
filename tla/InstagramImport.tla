-------------------------- MODULE InstagramImport --------------------------
(***************************************************************************)
(* The import of Instagram accounts (AccountManager.Import): a batch of    *)
(* credentials, row after row, against the running pool.  A known account  *)
(* is updated (updateExisting, steps of InstagramPool); an unknown one is  *)
(* logged in on a checked route, inserted into the table and then added to *)
(* the pool.  Routes are abstracted to whether one is left that works.     *)
(***************************************************************************)
EXTENDS InstagramPool, SequencesExt

CONSTANTS
    Batches,    \* the batches an operator may send: sequences of rows
    MaxImports  \* bound on imports

\* A row: the account its credentials belong to, whether its username or its
\* cookies name that account (a renamed one is recognised after login only),
\* and the credentials.
BatchRow == [user : Accounts, named : BOOLEAN,
             cookies : {"none", "same", "jar", "new"}, backup : BOOLEAN]

ASSUME ImportAssumption ==
    /\ \A b \in Batches : b \in Seq(BatchRow) /\ b # <<>>
    /\ MaxImports \in Nat

VARIABLE imp    \* the call of Import; a second one is refused (import_busy)

importVars == <<vars, imp>>

Statuses == {"imported", "updated", "duplicate", "failed", "skipped"}
ImportPC == {"idle", "load", "row", "update", "route", "login", "insert", "add"}

NoImport == [pc |-> "idle", rows |-> <<>>, n |-> 0, results |-> <<>>,
             known |-> {}, noRoute |-> FALSE, late |-> FALSE,
             session |-> NoSession, error |-> FALSE, count |-> 0]

ImportTypeOK ==
    /\ TypeOK
    /\ imp.pc \in ImportPC
    /\ imp.rows \in Batches \cup {<<>>}
    /\ imp.n \in 0..Len(imp.rows) + 1
    /\ imp.results \in Seq([row : Nat, status : Statuses])
    /\ imp.known \subseteq Accounts
    /\ {imp.noRoute, imp.late, imp.error} \subseteq BOOLEAN
    /\ imp.session \in Sessions
    /\ imp.count \in 0..MaxImports

Current   == imp.rows[imp.n]
Result(s) == [row |-> imp.n, status |-> s]

-----------------------------------------------------------------------------
\* The next row, or the end of the batch.
NextRow(i) ==
    IF i.n < Len(i.rows) THEN [i EXCEPT !.pc = "row", !.n = @ + 1,
                                        !.late = FALSE, !.session = NoSession]
    ELSE [i EXCEPT !.pc = "idle", !.late = FALSE, !.session = NoSession]

Report(s) == NextRow([imp EXCEPT !.results = Append(@, Result(s))])

\* Import returns an error; the results so far go with it.
Abort == [imp EXCEPT !.pc = "idle", !.error = TRUE, !.late = FALSE,
                     !.session = NoSession]

\* appendImportFailure for a throttle or a restriction: the rest of the batch
\* is not tried.
\* Mutant: the rest of the batch is not reported.
MutantSkipRest ==
    [imp EXCEPT !.pc = "idle", !.late = FALSE, !.session = NoSession,
        !.results = Append(@, Result("failed"))]
SkipRest ==
    [imp EXCEPT !.pc = "idle", !.late = FALSE, !.session = NoSession,
        !.results = @ \o [k \in 1..Len(imp.rows) - imp.n + 1 |->
            [row |-> imp.n + k - 1,
             status |-> IF k = 1 THEN "failed" ELSE "skipped"]]]

-----------------------------------------------------------------------------
Import(b) ==
    /\ imp.pc = "idle" /\ imp.count < MaxImports
    /\ imp' = [NoImport EXCEPT !.pc = "load", !.rows = b, !.n = 1,
                   !.count = imp.count + 1]
    /\ UNCHANGED vars

\* The rows of the table the pool does not have yet, by ordinal: one list.
Missing ==
    {s \in SetToSeqs(Stored \ Loaded) :
        \A i, j \in DOMAIN s : i < j =>
            \E k, l \in DOMAIN table : k < l /\ table[k] = s[i] /\ table[l] = s[j]}

\* Load, then addStoredAccount for every row: an account whose insert was not
\* confirmed joins the pool here.
LoadKnown ==
    /\ imp.pc = "load"
    /\ \E o \in {"ok", "failed"} :
         /\ DBCall(o)
         /\ IF Confirmed(o) /\ (~closed \/ Stored = {})
            THEN /\ imp' = [imp EXCEPT !.pc = "row", !.known = Stored]
                 /\ \E more \in Missing : accounts' = accounts \o more
                 /\ \E stale \in SUBSET (Stored \ Loaded) :
                      acc' = [a \in Accounts |->
                                 IF a \in Stored \ Loaded
                                 THEN addStoredAccount(a, a \in stale)
                                 ELSE acc[a]]
                 /\ asleep' = IF Stored \subseteq Loaded THEN asleep
                              ELSE Woken(queued, updating)
            ELSE /\ imp' = Abort
                 /\ UNCHANGED <<accounts, acc, asleep>>
    /\ UNCHANGED <<table, row, pend, dirty, next, queued, writes, updating,
                   closed, callVars, ghosts, env>>

\* The account is recognised: updateExisting is called.
UpdateKnown ==
    /\ imp.pc = "row"
    /\ Current.named /\ Current.user \in imp.known
    /\ BeginUpdate(Current.user, [cookies |-> Current.cookies,
                                  backup |-> Current.backup])
    /\ imp' = [imp EXCEPT !.pc = "update"]

\* What the import makes of an update it began before any login.  An error of the
\* row ends the import, too, when the caller has gone away.
EarlyResult ==
    CASE upd.result \in {"updated", "duplicate"} -> {Report(upd.result)}
      [] upd.result \in {"db", "ctx"} -> {Abort}
      [] upd.result = "failed" -> {Report("failed"), Abort}
      [] upd.result = "stop" -> {SkipRest, Abort}

\* An update found necessary only after the login ends the import with any error.
LateResult ==
    IF upd.result \in {"updated", "duplicate"} THEN Report(upd.result) ELSE Abort

\* updateExisting returns.
UpdateReturns ==
    /\ imp.pc = "update"
    /\ FinishUpdate
    /\ imp' \in IF imp.late THEN {LateResult} ELSE EarlyResult

CancelImport ==
    /\ imp.pc = "row"
    /\ imp' = Abort
    /\ UNCHANGED vars

\* An unknown account needs a route; routes that failed once are not tried
\* again in this import.
ProbeRoutes ==
    /\ imp.pc = "row"
    /\ ~(Current.named /\ Current.user \in imp.known)
    /\ \/ /\ ~imp.noRoute
          /\ imp' = [imp EXCEPT !.pc = "login"]
       \/ imp' = [Report("failed") EXCEPT !.noRoute = TRUE]
    /\ UNCHANGED vars

\* authenticateAccount: an account that is known after all only gets its
\* password saved.
ImportLogin ==
    /\ imp.pc = "login"
    /\ \/ /\ minted < MaxSession
          /\ IF Current.user \in imp.known
             THEN /\ BeginUpdate(Current.user, [cookies |-> "none",
                                                backup |-> Current.backup])
                  /\ imp' = [imp EXCEPT !.pc = "update", !.late = TRUE]
             ELSE /\ minted' = minted + 1
                  /\ imp' = [imp EXCEPT !.pc = "insert", !.session = minted + 1]
                  /\ UNCHANGED <<storeVars, poolVars, callVars, rejected, env>>
       \/ imp' = Report("failed") /\ UNCHANGED vars
       \/ imp' = SkipRest /\ UNCHANGED vars

\* The row is inserted, or its username or bearer conflicts with another's.
InsertRow ==
    LET a == Current.user IN
    /\ imp.pc = "insert"
    /\ \/ \E o \in Outcomes :
            /\ Insert(a, imp.session, Current.backup, o)
            /\ imp' = IF Confirmed(o) THEN [imp EXCEPT !.pc = "add"] ELSE Abort
       \/ /\ imp' = Report("duplicate")
          /\ UNCHANGED storeVars
    /\ UNCHANGED <<poolVars, callVars, ghosts, env>>

\* addAccount: a closed pool takes no account; the row stays.
AddRow ==
    LET a == Current.user IN
    /\ imp.pc = "add"
    /\ IF closed
       THEN imp' = Abort /\ UNCHANGED <<accounts, acc, asleep>>
       ELSE /\ accounts' = Append(accounts, a)
            /\ acc' = [acc EXCEPT ![a] = addStoredAccount(a, FALSE)]
            /\ asleep' = Woken(queued, updating)
            /\ imp' = [Report("imported") EXCEPT !.known = @ \cup {a}]
    /\ UNCHANGED <<storeVars, next, queued, writes, updating, closed, callVars,
                   ghosts, env>>

ImportRestart ==
    /\ Restart
    /\ imp' = [NoImport EXCEPT !.count = imp.count]

-----------------------------------------------------------------------------
ImportInit == Init /\ imp = NoImport

ImportStep ==
    \/ LoadKnown \/ UpdateKnown \/ UpdateReturns \/ ProbeRoutes
    \/ ImportLogin \/ InsertRow \/ AddRow

ImportNext ==
    \/ PoolNext /\ UNCHANGED imp
    \/ ImportStep
    \/ \E b \in Batches : Import(b)
    \/ CancelImport
    \/ ImportRestart

ImportSpec == ImportInit /\ [][ImportNext]_importVars

FairImportSpec ==
    /\ ImportSpec
    /\ \A r \in Details : WF_importVars(DetailStep(r) /\ UNCHANGED imp)
    /\ \A m \in Media : WF_importVars(MediaStep(m) /\ UNCHANGED imp)
    /\ WF_importVars(UpdateStep /\ UNCHANGED imp)
    /\ WF_importVars(ImportStep)

-----------------------------------------------------------------------------
\* An import that ends without error reports every row once and in order; one
\* that ends with an error reports the rows before the one it stopped at.
EveryRowReported ==
    imp.pc = "idle" =>
        /\ \A i \in DOMAIN imp.results : imp.results[i].row = i
        /\ Len(imp.results) = IF imp.error THEN imp.n - 1 ELSE Len(imp.rows)

\* A row reported as imported or updated is in the table and in the pool, with
\* the password it brought; and the pool never has an account the table lacks,
\* or one twice, so that what an import added survives a restart.
ReportIsTrue ==
    /\ Loaded \subseteq Stored /\ Cardinality(Loaded) = Len(accounts)
    /\ \A i \in DOMAIN imp.results :
         imp.results[i].status \in {"imported", "updated"} =>
             LET c == imp.rows[i] IN
             /\ c.user \in Stored \cap Loaded
             /\ c.backup => row[c.user].login /\ acc[c.user].login

\* Every import ends and frees the manager: its updates get their accounts
\* drained whatever the requests in flight do.
EveryImportEnds == imp.pc = "load" ~> imp.pc = "idle"

=============================================================================
