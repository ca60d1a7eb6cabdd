--------------------------- MODULE InstagramStore ---------------------------
(***************************************************************************)
(* The Instagram account table and the Store in front of it                *)
(* (internal/instagramapp/store.go).  Every statement runs alone on one    *)
(* connection (withDB holds Store.mu), so a statement is one step, which   *)
(* commits and is confirmed, fails, or commits and loses its reply.  That  *)
(* a statement without a reply ends before the next one begins is assumed  *)
(* of PostgreSQL: statement_timeout bounds it, withDB does not wait for it.*)
(*                                                                         *)
(* A session (the bearer authorization with the device and cookie context  *)
(* saved next to it) is a number: every successful login mints a new one.  *)
(* A deadline is a value of the clock the pool's module keeps.             *)
(***************************************************************************)
EXTENDS Integers, FiniteSets, Sequences

CONSTANTS
    Accounts,       \* accounts that exist at Instagram
    MaxSession,     \* bound: sessions ever minted
    MaxUntil,       \* bound: latest cooldown deadline
    MaxFaults       \* bound: failed or unconfirmed statements

ASSUME StoreAssumption ==
    /\ IsFiniteSet(Accounts)
    /\ MaxSession \in Nat
    /\ MaxUntil \in Nat
    /\ MaxFaults \in Nat

VARIABLES
    table,          \* ids of the rows, by ordinal
    row,            \* account -> its row (meaningless outside table)
    pend,           \* Store.pending and Store.pendingCooldowns
    dirty,          \* Store.dirty
    faults          \* statements that failed so far

storeVars == <<table, row, pend, dirty, faults>>

NoSession == 0      \* authorization ""
Sessions  == 0..MaxSession

\* dead_reason: an expired session may be renewed, an explicit restriction
\* (challenge_required, feedback_required, account_restricted) may not.
Reasons == {"none", "session_expired", "restricted"}

Row    == [auth : Sessions, ctx : Sessions, login : BOOLEAN,
           dead : BOOLEAN, reason : Reasons, until : 0..MaxUntil]
Health == [reason : Reasons, until : 0..MaxUntil]
NoHealth == [reason |-> "none", until |-> 0]

Later(s, t) == IF s > t THEN s ELSE t

StoreTypeOK ==
    /\ table \in Seq(Accounts)
    /\ row \in [Accounts -> Row]
    /\ pend \in [Accounts -> Health]
    /\ dirty \in BOOLEAN
    /\ faults \in 0..MaxFaults

Stored == {table[i] : i \in DOMAIN table}

-----------------------------------------------------------------------------
(* How a statement can end: withDB turns every failure into dbFailure.     *)
Outcomes  == {"ok", "failed", "unconfirmed"}
Commits(o) == o # "failed"
Confirmed(o) == o = "ok"

DBCall(o) ==
    /\ o \in Outcomes
    /\ o # "ok" => faults < MaxFaults
    /\ faults' = IF o = "ok" THEN faults ELSE faults + 1

\* One UPDATE of Flush: GREATEST keeps the later deadline, dead is never reset.
Buried(a) ==
    [row[a] EXCEPT !.dead = @ \/ pend[a].reason # "none",
                   !.reason = IF pend[a].reason # "none" THEN pend[a].reason ELSE @,
                   !.until = Later(@, pend[a].until)]

Pending == {a \in Accounts : pend[a] # NoHealth}

\* MarkHealth up to its call of Flush: the outcome waits in memory.
MarkHealth(a, reason, until) ==
    /\ pend' = [pend EXCEPT
          ![a] = [reason |-> IF reason # "none" THEN reason ELSE @.reason,
                  until  |-> Later(@.until, until)]]
    /\ dirty' = TRUE
    /\ UNCHANGED <<table, row, faults>>

\* Flush: entries are written one by one, deaths before mere cooldowns, and
\* forgotten one by one.  A failure
\* leaves the entries not yet confirmed pending: those in written \ forgotten
\* (at most the one whose reply was lost) were committed all the same.
Flush(o) ==
    IF ~dirty
    THEN o = "ok" /\ UNCHANGED storeVars
    ELSE /\ DBCall(o)
         /\ \E written \in SUBSET Pending : \E forgotten \in SUBSET written :
              /\ o = "ok" => forgotten = Pending
              /\ o = "failed" => forgotten = written /\ written # Pending
              /\ o = "unconfirmed" => Cardinality(written \ forgotten) = 1
              /\ (\E a \in written : pend[a].reason = "none")
                    => \A a \in Pending \ forgotten : pend[a].reason = "none"
              /\ row' = [a \in Accounts |->
                            IF a \in written THEN Buried(a) ELSE row[a]]
              /\ pend' = [a \in Accounts |->
                            IF a \in forgotten THEN NoHealth ELSE pend[a]]
         /\ dirty' = ~Confirmed(o)
         /\ UNCHANGED table

\* SaveSession, the commit of a renewal: it never touches a dead row (no row
\* updated is a failure), and resets neither health nor login.
SaveSession(a, session, o) ==
    /\ DBCall(o)
    /\ Commits(o) => ~row[a].dead
    /\ row' = IF Commits(o)
              THEN [row EXCEPT ![a].auth = session, ![a].ctx = session]
              ELSE row
    /\ UNCHANGED <<table, pend, dirty>>

\* ReplaceSession, the commit of a verified update: it revives the row and
\* keeps its cooldown.
ReplaceSession(a, session, backup, o) ==
    /\ DBCall(o)
    /\ row' = IF Commits(o)
              THEN [row EXCEPT ![a].auth = session, ![a].ctx = session,
                               ![a].login = @ \/ backup,
                               ![a].dead = FALSE, ![a].reason = "none"]
              ELSE row
    /\ UNCHANGED <<table, pend, dirty>>

SetLogin(a, o) ==
    /\ DBCall(o)
    /\ row' = IF Commits(o) THEN [row EXCEPT ![a].login = TRUE] ELSE row
    /\ UNCHANGED <<table, pend, dirty>>

\* SaveSessionState: the context a response left behind is saved only when the
\* row still holds the session it belongs to.
SaveSessionState(a, session, o) ==
    /\ DBCall(o)
    /\ row' = IF Commits(o) /\ session # NoSession /\ row[a].auth = session
              THEN [row EXCEPT ![a].ctx = session]
              ELSE row
    /\ UNCHANGED <<table, pend, dirty>>

\* Insert ... ON CONFLICT DO NOTHING of a newly verified account.
Insert(a, session, backup, o) ==
    /\ DBCall(o)
    /\ IF Commits(o) /\ a \notin Stored
       THEN /\ table' = Append(table, a)
            /\ row' = [row EXCEPT ![a] = [auth |-> session, ctx |-> session,
                          login |-> backup, dead |-> FALSE,
                          reason |-> "none", until |-> 0]]
       ELSE UNCHANGED <<table, row>>
    /\ UNCHANGED <<pend, dirty>>

=============================================================================
