--------------------------- MODULE InstagramPool ---------------------------
(***************************************************************************)
(* The pool of Instagram accounts (internal/instagramapp): metadata        *)
(* requests (Detail), downloads pinned to an account (WithMedia), renewal  *)
(* of a rejected session, checkpoints of account health and of session     *)
(* context, and the update of a stored account (updateExisting).           *)
(*                                                                         *)
(* One step is one critical section of Pool.mu, one database statement or  *)
(* one answer from Instagram.  Gates (refreshGate) are held across steps.  *)
(* Contexts: a caller's cancellation is noticed where the code looks at    *)
(* its context, and stays noticed.  External: what Instagram answers.      *)
(***************************************************************************)
EXTENDS InstagramStore, FiniteSetsExt

CONSTANTS
    Details,            \* calls of Detail
    Media,              \* calls of WithMedia
    ActiveAccounts,     \* Options.ActiveAccounts; 0 is no limit
    Concurrency,        \* Options.PerAccountConcurrency
    DownloadConcurrency,\* Options.PerAccountDownloadConcurrency
    MaxQueued,          \* Options.MaxQueuedRequests
    MaxAttempts,        \* Options.MaxAttempts
    MaxDelay,           \* longest cooldown, in ticks (one tick: a minute)
    MaxClock,           \* bound on the clock
    MaxRestarts,        \* bound on restarts of the process
    Seeded,             \* the accounts in the table at first, in order
    Logins,             \* those of them with a saved password
    Offers              \* credentials an update may bring, of CredentialKinds

ASSUME PoolAssumption ==
    /\ ActiveAccounts \in Nat
    /\ {Concurrency, DownloadConcurrency, MaxQueued, MaxAttempts,
        MaxDelay} \subseteq Nat \ {0}
    /\ MaxClock \in Nat
    /\ MaxUntil = MaxClock + MaxDelay
    /\ MaxRestarts \in Nat
    /\ IsFiniteSet(Details) /\ IsFiniteSet(Media) /\ "none" \notin Accounts
    /\ Details \cap Media = {}
    /\ Seeded \in Seq(Accounts) /\ Len(Seeded) <= MaxSession
    /\ \A i, j \in DOMAIN Seeded : Seeded[i] = Seeded[j] => i = j

VARIABLES
    accounts,   \* Pool.accounts: ids in order of arrival
    acc,        \* account -> struct account
    next,       \* Pool.next
    queued,     \* Pool.queued
    writes,     \* Pool.pendingHealthWrites
    updating,   \* Pool.updating
    asleep,     \* callers blocked on the current Pool.changed
    closed,     \* Pool.closed
    req,        \* Detail calls
    med,        \* WithMedia calls
    upd,        \* the call of updateExisting: AccountManager has one at a time
    clock,      \* time
    minted,     \* newest session Instagram issued
    rejected,   \* sessions Instagram rejected and did not accept since
    restarts

poolVars == <<accounts, acc, next, queued, writes, updating, asleep, closed>>
\* all of the pool but the accounts
otherPool == <<accounts, next, queued, writes, updating, asleep, closed>>
callVars == <<req, med, upd>>
ghosts   == <<minted, rejected>>
env      == <<clock, restarts>>
vars     == <<storeVars, poolVars, callVars, ghosts, env>>

Manager == "manager"
None    == "none"

-----------------------------------------------------------------------------
(* What a lookup or a renewal established (type disposition).              *)

Disposition == [err : BOOLEAN, retry : BOOLEAN, disable : BOOLEAN,
                reason : Reasons, cool : 0..MaxDelay, renew : BOOLEAN]

Success == [err |-> FALSE, retry |-> FALSE, disable |-> FALSE,
            reason |-> "none", cool |-> 0, renew |-> FALSE]
\* An outcome that says nothing about the account: content_deleted, cancelled.
Failure == [Success EXCEPT !.err = TRUE]
\* A network error, a malformed or unsuccessful response.
Unlucky == [Failure EXCEPT !.retry = TRUE]
Throttled(d) == [Unlucky EXCEPT !.cool = d]
Expired == [Unlucky EXCEPT !.disable = TRUE, !.reason = "session_expired",
                           !.renew = TRUE]
\* A restriction may come with a Retry-After.
Restricted(d) == [Failure EXCEPT !.disable = TRUE, !.reason = "restricted",
                                 !.cool = d]

\* lookup, apiFailure: the answers to one metadata request.
lookup == {Success, Failure, Unlucky, Expired}
          \cup {Throttled(d) : d \in 1..MaxDelay}
          \cup {Restricted(d) : d \in 0..MaxDelay}

\* recoveryDisposition of a failed login or a rejected account.
\* An expired session, too, may come with a Retry-After.
LoginExpired(d) == [Expired EXCEPT !.renew = FALSE, !.cool = d]
recoveryDisposition == {LoginExpired(d) : d \in 0..MaxDelay}
          \cup {Throttled(d) : d \in 1..MaxDelay}
          \cup {Restricted(d) : d \in 0..MaxDelay}

Cooling(a) == acc[a].cooldown > clock

\* accountUnavailable, and what lookupRecovering makes of it.
accountUnavailable(a) == acc[a].disabled \/ Cooling(a)
Blocked(a) ==
    IF acc[a].disabled
    THEN IF acc[a].reason = "restricted" THEN Restricted(0) ELSE LoginExpired(0)
    ELSE Throttled(acc[a].cooldown - clock)

-----------------------------------------------------------------------------
(* State.                                                                  *)

Account == [auth : Sessions, login : BOOLEAN, disabled : BOOLEAN,
            reason : Reasons, cooldown : 0..MaxUntil, busy : Nat,
            mediaBusy : Nat, updating : BOOLEAN, gate : BOOLEAN,
            refreshAfter : 0..MaxUntil, refreshErr : Disposition]

DetailPC == {"idle", "acquire", "session", "check", "sent", "renew", "login",
             "save", "publish", "judge", "mark", "flush", "settle", "persist",
             "release", "done"}

Call == [pc : DetailPC, a : Accounts \cup {None}, tried : SUBSET Accounts,
         queued : BOOLEAN, cancelled : BOOLEAN, auth : Sessions,
         renewed : BOOLEAN, session : Sessions, out : Disposition,
         saved : BOOLEAN, until : 0..MaxUntil]

Idle == [pc |-> "idle", a |-> None, tried |-> {}, queued |-> FALSE,
         cancelled |-> FALSE, auth |-> NoSession, renewed |-> FALSE,
         session |-> NoSession, out |-> Success, saved |-> TRUE, until |-> 0]
Done == [Idle EXCEPT !.pc = "done"]

UpdatePC == {"idle", "drain", "flush", "gate", "verify", "mark", "flushHealth",
             "settle", "replace", "publish", "setlogin", "finish"}
\* Offered credentials: cookies with the bearer the pool already uses, in the
\* stored jar ("same") or another ("jar"), or with another bearer; or none.
CredentialKinds == [cookies : {"none", "same", "jar", "new"}, backup : BOOLEAN]
ASSUME OffersAssumption == Offers \subseteq CredentialKinds
\* How updateExisting returns: "stop" is a failure that ends the whole import
\* (throttled, restricted), "db" a failed statement, "ctx" a caller gone.
Results == {"none", "updated", "duplicate", "failed", "stop", "db", "ctx"}
NoUpdate == [pc |-> "idle", a |-> None, cookies |-> "none", backup |-> FALSE,
             session |-> NoSession, until |-> 0, gate |-> FALSE,
             result |-> "none"]
Update == [pc : UpdatePC, a : Accounts \cup {None},
           cookies : {"none", "same", "jar", "new"}, backup : BOOLEAN,
           session : Sessions, until : 0..MaxUntil, gate : BOOLEAN,
           result : Results]

TypeOK ==
    /\ StoreTypeOK
    /\ accounts \in Seq(Accounts)
    /\ acc \in [Accounts -> Account]
    /\ next \in Nat /\ queued \in Nat /\ writes \in Nat /\ updating \in Nat
    /\ asleep \subseteq Details \cup Media \cup {Manager}
    /\ closed \in BOOLEAN
    /\ req \in [Details -> Call]
    /\ med \in [Media -> [pc : {"idle", "acquire", "run", "done"},
                          a : Accounts \cup {None}, queued : BOOLEAN]]
    /\ upd \in Update
    /\ clock \in 0..MaxClock
    /\ minted \in Sessions /\ rejected \subseteq Sessions
    /\ restarts \in 0..MaxRestarts

Loaded == {accounts[i] : i \in DOMAIN accounts}

\* addStoredAccount, for one row.  stale: the saved cookies have expired.
addStoredAccount(a, stale) ==
    [auth |-> IF stale THEN NoSession ELSE row[a].auth,
     login |-> row[a].login,
     disabled |-> row[a].dead \/ (stale /\ ~row[a].login),
     reason |-> IF row[a].reason = "none" /\ stale /\ ~row[a].login
                THEN "session_expired" ELSE row[a].reason,
     cooldown |-> row[a].until, busy |-> 0, mediaBusy |-> 0,
     updating |-> FALSE, gate |-> FALSE, refreshAfter |-> 0,
     refreshErr |-> Failure]

-----------------------------------------------------------------------------
(* Pool.changed: notify wakes every caller that waits on it.               *)

\* Mutant: updates that wait are forgotten.
MutantWoken(q, u) == IF q = 0 THEN asleep ELSE {}
\* Mutant: callers in the queue are forgotten.
MutantNotify(q, u) == IF u = 0 THEN asleep ELSE {}
Woken(q, u) == IF q = 0 /\ u = 0 THEN asleep ELSE {}

Awake(c) == c \notin asleep

\* A call that leaves the queue is no longer counted.
Dequeue(call) == IF call.queued THEN queued - 1 ELSE queued

(* acquire, unpinned: the accounts it may use, the ones it could use now,  *)
(* and the one it takes.                                                   *)

\* Only the oldest ActiveAccounts accounts that are not dead are eligible.
eligibleEnd ==
    LET alive(i) == Cardinality({j \in 1..i : ~acc[accounts[j]].disabled})
        ends == {i \in DOMAIN accounts : ActiveAccounts > 0
                                          /\ alive(i) = ActiveAccounts}
    IN IF ends = {} THEN Len(accounts) ELSE Min(ends)

Available(tried) ==
    {i \in DOMAIN accounts :
        /\ i <= eligibleEnd
        /\ ~acc[accounts[i]].disabled
        /\ ~Cooling(accounts[i])
        /\ accounts[i] \notin tried}

Free(tried) ==
    {i \in Available(tried) :
        /\ ~acc[accounts[i]].updating
        /\ acc[accounts[i]].busy < Concurrency}

\* Least busy first, then fewest downloads, then round-robin order.
Chosen(i, free) ==
    LET load(k) == <<acc[accounts[k]].busy, acc[accounts[k]].mediaBusy,
                     (k - 1 - next) % eligibleEnd>>
        before(j) == \E n \in 1..3 :
                         /\ \A m \in 1..n-1 : load(i)[m] = load(j)[m]
                         /\ load(i)[n] < load(j)[n]
    IN \A j \in free \ {i} : before(j)

Unsettled == writes > 0 \/ dirty

-----------------------------------------------------------------------------
(* Detail: admission.                                                      *)

Goto(r, pc) == req' = [req EXCEPT ![r].pc = pc]
End(r)      == req' = [req EXCEPT ![r] = Done]

\* Detail: pending health is written before anything is leased.
Detail(r) ==
    /\ req[r].pc = "idle"
    /\ \E o \in Outcomes :
         /\ Flush(o)
         /\ IF Confirmed(o) THEN Goto(r, "acquire") ELSE End(r)
    /\ UNCHANGED <<poolVars, med, upd, ghosts, env>>

\* acquire finds an account with a free metadata slot.
Acquire(r) ==
    /\ req[r].pc = "acquire" /\ Awake(r)
    /\ ~closed /\ ~Unsettled
    /\ \E i \in Free(req[r].tried) :
         LET a == accounts[i] IN
         /\ Chosen(i, Free(req[r].tried))
         /\ acc' = [acc EXCEPT ![a].busy = @ + 1]
         /\ next' = i % Len(accounts)
         /\ req' = [req EXCEPT ![r].pc = "session", ![r].a = a,
                       ![r].tried = @ \cup {a}, ![r].queued = FALSE]
    /\ queued' = Dequeue(req[r])
    /\ UNCHANGED <<storeVars, accounts, writes, updating, asleep, closed,
                   med, upd, ghosts, env>>

\* acquire waits for a slot of an account it may use.
Wait(r) ==
    /\ req[r].pc = "acquire" /\ Awake(r)
    /\ ~closed /\ ~Unsettled
    /\ Available(req[r].tried) # {} /\ Free(req[r].tried) = {}
    /\ req[r].queued \/ queued < MaxQueued
    /\ queued' = IF req[r].queued THEN queued ELSE queued + 1
    /\ req' = [req EXCEPT ![r].queued = TRUE]
    /\ asleep' = asleep \cup {r}
    /\ UNCHANGED <<storeVars, accounts, acc, next, writes, updating, closed,
                   med, upd, ghosts, env>>

\* acquire returns an error: closed, unsaved health, nothing to wait for, or a
\* full queue.
Refuse(r) ==
    /\ req[r].pc = "acquire" /\ Awake(r)
    /\ \/ closed
       \/ Unsettled
       \/ Available(req[r].tried) = {}
       \/ Free(req[r].tried) = {} /\ ~req[r].queued /\ queued >= MaxQueued
    /\ queued' = Dequeue(req[r])
    /\ End(r)
    /\ UNCHANGED <<storeVars, accounts, acc, next, writes, updating, asleep,
                   closed, med, upd, ghosts, env>>

\* Mutant: a caller that gives up stays counted in the queue.
MutantCancelWait(r) ==
    /\ req[r].pc = "acquire"
    /\ asleep' = asleep \ {r}
    /\ End(r)
    /\ UNCHANGED <<storeVars, accounts, acc, next, queued, writes, updating,
                   closed, med, upd, ghosts, env>>

\* The caller goes away while acquire waits or between two attempts.
CancelWait(r) ==
    /\ req[r].pc = "acquire"
    /\ queued' = Dequeue(req[r])
    /\ asleep' = asleep \ {r}
    /\ End(r)
    /\ UNCHANGED <<storeVars, accounts, acc, next, writes, updating, closed,
                   med, upd, ghosts, env>>

-----------------------------------------------------------------------------
(* lookupRecovering.                                                       *)

\* sessionContext: the outcome will be tagged with the session read here.
ReadSession(r) ==
    /\ req[r].pc = "session"
    /\ req' = [req EXCEPT ![r].pc = "check", ![r].auth = acc[req[r].a].auth]
    /\ UNCHANGED <<storeVars, poolVars, med, upd, ghosts, env>>

\* What follows an outcome: an expired session is renewed once when the account
\* has a login, everything else is judged.
After(r, out) ==
    [req EXCEPT ![r].out = out,
        ![r].pc = IF out.renew /\ ~req[r].renewed /\ acc[req[r].a].login
                  THEN "renew" ELSE "judge"]

\* A blocked account gets no request, one of a caller that has gone fails at
\* once, and without a session there is none to send.
CheckAccount(r) ==
    LET a == req[r].a IN
    /\ req[r].pc = "check"
    /\ req' = CASE accountUnavailable(a) ->
                       [req EXCEPT ![r].pc = "judge", ![r].out = Blocked(a)]
                [] ~accountUnavailable(a) /\ req[r].cancelled ->
                       [req EXCEPT ![r].pc = "judge", ![r].out = Failure]
                [] ~accountUnavailable(a) /\ ~req[r].cancelled
                   /\ req[r].auth = NoSession ->
                       After(r, Expired)
                [] OTHER -> [req EXCEPT ![r].pc = "sent"]
    /\ UNCHANGED <<storeVars, poolVars, med, upd, ghosts, env>>

\* lookup returns.
Answer(r, out) ==
    /\ req[r].pc = "sent"
    /\ req' = After(r, out)
    /\ rejected' = IF out.disable THEN rejected \cup {req[r].auth} ELSE rejected
    /\ UNCHANGED <<storeVars, poolVars, med, upd, env, minted>>

\* The caller goes away during the request: nothing is learnt.
CancelRequest(r) ==
    /\ req[r].pc \in {"sent", "renew"}
    /\ req' = [req EXCEPT ![r].pc = "judge", ![r].out = Failure,
                          ![r].cancelled = TRUE]
    /\ UNCHANGED <<storeVars, poolVars, med, upd, ghosts, env>>

(* renew, under refreshGate: one login per rejected session.               *)

\* The gate is free: another caller may have renewed the session already, the
\* account may be blocked, or the last login may be too recent.
\* Mutant: every caller of a rejected session logs in.
MutantRenewSkipped(a, auth) == FALSE
RenewSkipped(a, auth) == acc[a].auth # auth
TooSoon(a) == clock < acc[a].refreshAfter
\* The kept failure; a deadline it carries is absolute.
LastFailure(a) ==
    [acc[a].refreshErr EXCEPT !.cool = IF @ = 0 THEN 0
                                       ELSE acc[a].refreshAfter - clock]

Renew(r) ==
    LET a == req[r].a IN
    /\ req[r].pc = "renew" /\ ~acc[a].gate
    /\ \/ /\ accountUnavailable(a)
          /\ req' = [req EXCEPT ![r].pc = "judge", ![r].out = Blocked(a)]
          /\ UNCHANGED acc
       \/ /\ ~accountUnavailable(a) /\ RenewSkipped(a, req[r].auth)
          /\ req' = [req EXCEPT ![r].pc = "session", ![r].renewed = TRUE]
          /\ UNCHANGED acc
       \/ /\ ~accountUnavailable(a) /\ ~RenewSkipped(a, req[r].auth)
          /\ TooSoon(a)
          /\ req' = [req EXCEPT ![r].pc = "judge", ![r].out = LastFailure(a)]
          /\ UNCHANGED acc
       \/ /\ ~accountUnavailable(a) /\ ~RenewSkipped(a, req[r].auth)
          /\ ~TooSoon(a)
          /\ Goto(r, "login")
          /\ acc' = [acc EXCEPT ![a].gate = TRUE]
    /\ UNCHANGED <<storeVars, otherPool, med, upd, ghosts, env>>

\* Releases the gate; a failure is kept for callers that come too soon.
RenewFails(r, out, remember) ==
    LET a == req[r].a IN
    /\ req' = [req EXCEPT ![r].pc = "judge", ![r].out = out,
                          ![r].cancelled = @ \/ ~remember]
    /\ acc' = [acc EXCEPT ![a].gate = FALSE,
                  ![a].refreshAfter = IF remember THEN clock + Later(1, out.cool)
                                                  ELSE @,
                  ![a].refreshErr = IF remember THEN out ELSE @]

\* The login with the saved password ends: a new session, a refusal, a timeout
\* of its own (kept, but no verdict on the account), or cancellation.
Login(r) ==
    /\ req[r].pc = "login"
    /\ \/ /\ minted < MaxSession
          /\ minted' = minted + 1
          /\ req' = [req EXCEPT ![r].pc = "save", ![r].session = minted + 1]
          /\ UNCHANGED acc
       \/ /\ \E out \in recoveryDisposition \cup {Failure} : RenewFails(r, out, TRUE)
          /\ UNCHANGED minted
       \/ /\ RenewFails(r, Failure, FALSE)
          /\ UNCHANGED minted
    /\ UNCHANGED <<storeVars, otherPool, med, upd, rejected, env>>

\* Mutant: the session is used while it is being saved.
MutantSaveRenewal(r) ==
    /\ req[r].pc = "save"
    /\ \E o \in Outcomes :
         /\ SaveSession(req[r].a, req[r].session, o)
         /\ IF Confirmed(o) THEN Goto(r, "publish") ELSE Goto(r, "judge")
         /\ acc' = [acc EXCEPT ![req[r].a].auth = req[r].session,
                               ![req[r].a].gate = Confirmed(o)]
    /\ UNCHANGED <<otherPool, med, upd, ghosts, env>>

\* The new session is committed before anyone may use it.
SaveRenewal(r) ==
    /\ req[r].pc = "save"
    /\ \E o \in Outcomes :
         /\ SaveSession(req[r].a, req[r].session, o)
         /\ IF Confirmed(o)
            THEN Goto(r, "publish") /\ UNCHANGED acc
            ELSE RenewFails(r, Throttled(1), TRUE)
    /\ UNCHANGED <<otherPool, med, upd, ghosts, env>>

\* The saved session becomes the pool's.  A caller that is gone by now leaves
\* no note of the login for those who come too soon.
Publish(r) ==
    LET a == req[r].a IN
    /\ req[r].pc = "publish"
    /\ \E gone \in BOOLEAN :
         /\ req' = [req EXCEPT ![r].pc = "session", ![r].renewed = TRUE,
                       ![r].session = NoSession, ![r].cancelled = gone]
         /\ acc' = [acc EXCEPT ![a].auth = req[r].session, ![a].gate = FALSE,
                       ![a].refreshAfter = IF gone THEN @ ELSE clock + 1,
                       ![a].refreshErr = IF gone THEN @ ELSE LoginExpired(0)]
    /\ UNCHANGED <<storeVars, otherPool, med, upd, ghosts, env>>

-----------------------------------------------------------------------------
(* Detail: health and context checkpoints, release, retry.                 *)

\* Once judged, a call remembers whether it failed and may retry, and until
\* its checkpoint what it has to write.
Judged(call) ==
    [call EXCEPT !.auth = NoSession, !.renewed = FALSE, !.until = 0,
        !.out = [Success EXCEPT !.err = call.out.err, !.retry = call.out.retry]]

\* Mutant: whichever session failed.
MutantStillCurrent(r) == TRUE
\* A failure of a session that is not the pool's any more disables nothing.
StillCurrent(r) == req[r].auth = acc[req[r].a].auth

\* The outcome is applied to the account, under the gate and Pool.mu.  A
\* caller that has gone cannot skip this.
Judge(r) ==
    LET a       == req[r].a
        out     == req[r].out
        disable == out.disable /\ StillCurrent(r)
        reason  == IF acc[a].reason = "none"
                      \/ (~out.retry /\ acc[a].reason = "session_expired")
                   THEN out.reason ELSE acc[a].reason
        until   == clock + out.cool
        longer  == out.cool > 0 /\ until > acc[a].cooldown
    IN
    /\ req[r].pc = "judge"
    /\ IF ~out.disable /\ out.cool = 0
       THEN /\ req' = [req EXCEPT ![r] = [Judged(@) EXCEPT !.pc = "persist"]]
            /\ UNCHANGED <<acc, writes>>
       ELSE /\ ~acc[a].gate
            /\ acc' = [acc EXCEPT
                  ![a].disabled = @ \/ disable,
                  ![a].reason = IF disable THEN reason ELSE @,
                  ![a].cooldown = IF longer THEN until ELSE @,
                  ![a].gate = disable \/ longer]
            /\ req' = [req EXCEPT ![r] = [Judged(@) EXCEPT
                  !.pc = IF disable \/ longer THEN "mark" ELSE "persist",
                  !.out.reason = IF disable THEN reason ELSE "none",
                  !.until = IF longer THEN until ELSE 0]]
            /\ writes' = IF disable \/ longer THEN writes + 1 ELSE writes
    /\ UNCHANGED <<storeVars, accounts, next, queued, updating, asleep,
                   closed, med, upd, ghosts, env>>

Mark(r) ==
    /\ req[r].pc = "mark"
    /\ MarkHealth(req[r].a, req[r].out.reason, req[r].until)
    /\ req' = [req EXCEPT ![r] = [Judged(@) EXCEPT !.pc = "flush"]]
    /\ UNCHANGED <<poolVars, med, upd, ghosts, env>>

FlushHealth(r) ==
    /\ req[r].pc = "flush"
    /\ \E o \in Outcomes :
         /\ Flush(o)
         /\ req' = [req EXCEPT ![r].pc = "settle", ![r].saved = Confirmed(o)]
    /\ UNCHANGED <<poolVars, med, upd, ghosts, env>>

Settle(r) ==
    /\ req[r].pc = "settle"
    /\ writes' = writes - 1
    /\ asleep' = Woken(queued, updating)
    /\ acc' = [acc EXCEPT ![req[r].a].gate = FALSE]
    /\ Goto(r, IF req[r].saved THEN "persist" ELSE "release")
    /\ UNCHANGED <<storeVars, accounts, next, queued, updating, closed, med,
                   upd, ghosts, env>>

\* persistSessionContext: the context is saved when the answers changed it.
Persist(r) ==
    LET a == req[r].a IN
    /\ req[r].pc = "persist" /\ ~acc[a].gate
    /\ \/ /\ Goto(r, "release")
          /\ UNCHANGED storeVars
       \/ \E o \in Outcomes :
            /\ SaveSessionState(a, acc[a].auth, o)
            /\ req' = [req EXCEPT ![r].pc = "release", ![r].saved = Confirmed(o)]
    /\ UNCHANGED <<poolVars, med, upd, ghosts, env>>

\* The lease ends; Detail returns or tries another account.
Release(r) ==
    LET call  == req[r]
        again == /\ call.saved /\ call.out.err /\ ~call.cancelled
                 /\ call.out.retry
                 /\ Cardinality(call.tried) < MaxAttempts
    IN
    /\ call.pc = "release"
    /\ acc' = [acc EXCEPT ![call.a].busy = @ - 1]
    /\ asleep' = Woken(queued, updating)
    /\ req' = [req EXCEPT ![r] =
                  IF again THEN [Idle EXCEPT !.pc = "acquire",
                                             !.tried = call.tried]
                           ELSE Done]
    /\ UNCHANGED <<storeVars, accounts, next, queued, writes, updating,
                   closed, med, upd, ghosts, env>>

-----------------------------------------------------------------------------
(* WithMedia: a download slot of the account the metadata came from.  Its  *)
(* health does not matter.                                                 *)

WithMedia(m, a) ==
    /\ med[m].pc = "idle"
    /\ med' = [med EXCEPT ![m].pc = "acquire", ![m].a = a]
    /\ UNCHANGED <<storeVars, poolVars, req, upd, ghosts, env>>

MediaAcquire(m) ==
    LET a == med[m].a IN
    /\ med[m].pc = "acquire" /\ Awake(m)
    /\ ~closed /\ a \in Loaded
    /\ acc[a].mediaBusy < DownloadConcurrency
    /\ acc' = [acc EXCEPT ![a].mediaBusy = @ + 1]
    /\ med' = [med EXCEPT ![m].pc = "run", ![m].queued = FALSE]
    /\ queued' = Dequeue(med[m])
    /\ UNCHANGED <<storeVars, accounts, next, writes, updating, asleep,
                   closed, req, upd, ghosts, env>>

MediaWait(m) ==
    LET a == med[m].a IN
    /\ med[m].pc = "acquire" /\ Awake(m)
    /\ ~closed /\ a \in Loaded
    /\ acc[a].mediaBusy >= DownloadConcurrency
    /\ med[m].queued \/ queued < MaxQueued
    /\ queued' = IF med[m].queued THEN queued ELSE queued + 1
    /\ med' = [med EXCEPT ![m].queued = TRUE]
    /\ asleep' = asleep \cup {m}
    /\ UNCHANGED <<storeVars, accounts, acc, next, writes, updating, closed,
                   req, upd, ghosts, env>>

MediaEnd(m) == med' = [med EXCEPT ![m] = [pc |-> "done", a |-> None,
                                          queued |-> FALSE]]

MediaRefuse(m) ==
    LET a == med[m].a IN
    /\ med[m].pc = "acquire" /\ Awake(m)
    /\ \/ closed
       \/ a \notin Loaded
       \/ /\ acc[a].mediaBusy >= DownloadConcurrency
          /\ ~med[m].queued /\ queued >= MaxQueued
    /\ queued' = Dequeue(med[m])
    /\ MediaEnd(m)
    /\ UNCHANGED <<storeVars, accounts, acc, next, writes, updating, asleep,
                   closed, req, upd, ghosts, env>>

MediaCancel(m) ==
    /\ med[m].pc = "acquire"
    /\ queued' = Dequeue(med[m])
    /\ asleep' = asleep \ {m}
    /\ MediaEnd(m)
    /\ UNCHANGED <<storeVars, accounts, acc, next, writes, updating, closed,
                   req, upd, ghosts, env>>

MediaRelease(m) ==
    /\ med[m].pc = "run"
    /\ acc' = [acc EXCEPT ![med[m].a].mediaBusy = @ - 1]
    /\ asleep' = Woken(queued, updating)
    /\ MediaEnd(m)
    /\ UNCHANGED <<storeVars, accounts, next, queued, writes, updating,
                   closed, req, upd, ghosts, env>>

-----------------------------------------------------------------------------
(* updateExisting: new credentials for an account the pool has.            *)

UpdateTo(pc)   == upd' = [upd EXCEPT !.pc = pc]
UpdateEnds(x)  == upd' = [upd EXCEPT !.pc = "finish", !.result = x]

\* beginUpdate: no new metadata lease of the account from here on.
BeginUpdate(a, c) ==
    /\ upd.pc = "idle" /\ a \in Loaded
    /\ acc' = [acc EXCEPT ![a].updating = TRUE]
    /\ updating' = updating + 1
    /\ asleep' = Woken(queued, updating + 1)
    /\ upd' = [NoUpdate EXCEPT !.pc = "drain", !.a = a,
                   !.cookies = c.cookies, !.backup = c.backup]
    /\ UNCHANGED <<storeVars, accounts, next, queued, writes, closed, req,
                   med, ghosts, env>>

\* beginUpdate waits for the leases of the account and for every health write.
Drained == acc[upd.a].busy = 0 /\ writes = 0

Drain ==
    /\ upd.pc = "drain" /\ Awake(Manager)
    /\ IF Drained
       THEN UpdateTo("flush") /\ UNCHANGED asleep
       ELSE asleep' = asleep \cup {Manager} /\ UNCHANGED upd
    /\ UNCHANGED <<storeVars, accounts, acc, next, queued, writes, updating,
                   closed, req, med, ghosts, env>>

CancelUpdate ==
    /\ upd.pc \in {"drain", "gate", "verify"}
    /\ UpdateEnds("ctx")
    /\ asleep' = asleep \ {Manager}
    /\ UNCHANGED <<storeVars, accounts, acc, next, queued, writes, updating,
                   closed, req, med, ghosts, env>>

\* Mutant: pending deaths are left for later.
MutantUpdateFlush ==
    /\ upd.pc = "flush"
    /\ UpdateTo("gate")
    /\ UNCHANGED <<storeVars, poolVars, req, med, ghosts, env>>

\* A death that is still pending is written before the account can be revived.
UpdateFlush ==
    /\ upd.pc = "flush"
    /\ \E o \in Outcomes :
         /\ Flush(o)
         /\ IF Confirmed(o) THEN UpdateTo("gate") ELSE UpdateEnds("db")
    /\ UNCHANGED <<poolVars, req, med, ghosts, env>>

\* Under the gate: what the credentials change.
sessionChanged(a) ==
    \/ upd.cookies \in {"jar", "new"}
    \/ upd.cookies = "same" /\ acc[a].disabled

UpdateGate ==
    LET a == upd.a IN
    /\ upd.pc = "gate" /\ ~acc[a].gate
    /\ \E backupChanged \in BOOLEAN :
         /\ backupChanged => upd.backup
         /\ upd.backup /\ ~acc[a].login => backupChanged
         /\ \/ /\ ~sessionChanged(a) /\ ~backupChanged
               /\ UpdateEnds("duplicate")
               /\ UNCHANGED acc
            \/ /\ sessionChanged(a) /\ Cooling(a)
               /\ UpdateEnds("stop")
               /\ UNCHANGED acc
            \/ /\ sessionChanged(a) /\ ~Cooling(a)
               /\ upd' = [upd EXCEPT !.pc = "verify", !.gate = TRUE]
               /\ acc' = [acc EXCEPT ![a].gate = TRUE]
            \/ /\ ~sessionChanged(a) /\ backupChanged
               /\ upd' = [upd EXCEPT !.pc = "setlogin", !.gate = TRUE]
               /\ acc' = [acc EXCEPT ![a].gate = TRUE]
    /\ UNCHANGED <<storeVars, otherPool, req, med, ghosts, env>>

\* authenticateAccount accepts the cookies, or logs in with the password when
\* they have expired; the account must be the one that is updated.
Verified ==
    /\ upd.pc = "verify"
    /\ \E s \in Sessions :
         /\ \/ upd.cookies # "new" /\ s = acc[upd.a].auth /\ s # NoSession
            \/ (upd.cookies = "new" \/ upd.backup) /\ s = minted + 1
         /\ minted' = Later(minted, s)
         /\ rejected' = rejected \ {s}
         /\ upd' = [upd EXCEPT !.pc = "replace", !.session = s]
    /\ UNCHANGED <<storeVars, poolVars, req, med, env>>

\* It fails: wrong credentials or another account, a restriction, or a deadline
\* that applies to the account from now on.
NotVerified ==
    LET a == upd.a IN
    /\ upd.pc = "verify"
    /\ \/ /\ \E x \in {"failed", "stop"} : UpdateEnds(x)
          /\ UNCHANGED <<acc, writes>>
       \/ \E d \in 1..MaxDelay :
            LET until == Later(acc[a].cooldown, clock + d) IN
            /\ acc' = [acc EXCEPT ![a].cooldown = until]
            /\ upd' = [upd EXCEPT !.pc = "mark", !.until = until]
            /\ writes' = writes + 1
    /\ UNCHANGED <<storeVars, accounts, next, queued, updating, asleep,
                   closed, req, med, ghosts, env>>

MarkCooldown ==
    /\ upd.pc = "mark"
    /\ MarkHealth(upd.a, "none", upd.until)
    /\ UpdateTo("flushHealth")
    /\ UNCHANGED <<poolVars, req, med, ghosts, env>>

\* A throttle stops the batch; an expired session with a Retry-After fails its
\* row alone.
FlushCooldown ==
    /\ upd.pc = "flushHealth"
    /\ \E o \in Outcomes, x \in {"failed", "stop"} :
         /\ Flush(o)
         /\ upd' = [upd EXCEPT !.pc = "settle",
                        !.result = IF Confirmed(o) THEN x ELSE "db"]
    /\ UNCHANGED <<poolVars, req, med, ghosts, env>>

SettleCooldown ==
    /\ upd.pc = "settle"
    /\ writes' = writes - 1
    /\ asleep' = Woken(queued, updating)
    /\ UpdateTo("finish")
    /\ UNCHANGED <<storeVars, accounts, acc, next, queued, updating, closed,
                   req, med, ghosts, env>>

\* Committed first, then published.
Replace ==
    /\ upd.pc = "replace"
    /\ \E o \in Outcomes :
         /\ ReplaceSession(upd.a, upd.session, upd.backup, o)
         /\ IF Confirmed(o) THEN UpdateTo("publish") ELSE UpdateEnds("db")
    /\ UNCHANGED <<poolVars, req, med, ghosts, env>>

PublishUpdate ==
    /\ upd.pc = "publish"
    /\ acc' = [acc EXCEPT ![upd.a].auth = upd.session,
                  ![upd.a].disabled = FALSE, ![upd.a].reason = "none",
                  ![upd.a].login = @ \/ upd.backup,
                  ![upd.a].refreshAfter = 0, ![upd.a].refreshErr = Failure]
    /\ UpdateEnds("updated")
    /\ UNCHANGED <<storeVars, otherPool, req, med, ghosts, env>>

\* Mutant: the login is published whether or not it was saved.
MutantUpdateLogin ==
    /\ upd.pc = "setlogin"
    /\ \E o \in Outcomes : SetLogin(upd.a, o)
    /\ UpdateEnds("updated")
    /\ acc' = [acc EXCEPT ![upd.a].login = TRUE]
    /\ UNCHANGED <<otherPool, req, med, ghosts, env>>

UpdateLogin ==
    /\ upd.pc = "setlogin"
    /\ \E o \in Outcomes :
         /\ SetLogin(upd.a, o)
         /\ UpdateEnds(IF Confirmed(o) THEN "updated" ELSE "db")
         /\ acc' = IF Confirmed(o)
                   THEN [acc EXCEPT ![upd.a].login = TRUE,
                            ![upd.a].refreshAfter = 0,
                            ![upd.a].refreshErr = Failure]
                   ELSE acc
    /\ UNCHANGED <<otherPool, req, med, ghosts, env>>

\* The deferred calls: the gate, then done().
FinishUpdate ==
    /\ upd.pc = "finish"
    /\ acc' = [acc EXCEPT ![upd.a].updating = FALSE,
                  ![upd.a].gate = @ /\ ~upd.gate]
    /\ updating' = updating - 1
    /\ asleep' = Woken(queued, updating - 1)
    /\ upd' = NoUpdate
    /\ UNCHANGED <<storeVars, accounts, next, queued, writes, closed, req,
                   med, ghosts, env>>

-----------------------------------------------------------------------------
(* The process.                                                            *)

Close ==
    /\ ~closed
    /\ closed' = TRUE
    /\ asleep' = Woken(queued, updating)
    /\ UNCHANGED <<storeVars, accounts, acc, next, queued, writes, updating,
                   callVars, ghosts, env>>

\* Store.Close writes what is pending, once.
CloseStore ==
    /\ closed /\ dirty
    /\ \E o \in Outcomes : Flush(o)
    /\ UNCHANGED <<poolVars, callVars, ghosts, env>>

NoAccount == [auth |-> NoSession, login |-> FALSE, disabled |-> FALSE,
              reason |-> "none", cooldown |-> 0, busy |-> 0, mediaBusy |-> 0,
              updating |-> FALSE, gate |-> FALSE, refreshAfter |-> 0,
              refreshErr |-> Failure]

\* The process ends, orderly or not, and a new one opens the pool from the
\* table (Open, Load).  Memory is lost: calls, leases, pending health.
Restart ==
    /\ restarts < MaxRestarts
    /\ restarts' = restarts + 1
    /\ accounts' = table
    /\ \E stale \in SUBSET Stored :
         acc' = [a \in Accounts |-> IF a \in Stored
                                    THEN addStoredAccount(a, a \in stale)
                                    ELSE NoAccount]
    /\ pend' = [a \in Accounts |-> NoHealth] /\ dirty' = FALSE
    /\ next' = 0 /\ queued' = 0 /\ writes' = 0 /\ updating' = 0
    /\ asleep' = {} /\ closed' = FALSE
    /\ req' = [r \in Details |-> IF req[r].pc = "idle" THEN Idle ELSE Done]
    /\ med' = [m \in Media |-> IF med[m].pc = "idle" THEN med[m]
                               ELSE [pc |-> "done", a |-> None, queued |-> FALSE]]
    /\ upd' = NoUpdate
    /\ UNCHANGED <<table, row, faults, ghosts, clock>>

Tick ==
    /\ clock < MaxClock
    /\ clock' = clock + 1
    /\ UNCHANGED <<storeVars, poolVars, callVars, ghosts, restarts>>

-----------------------------------------------------------------------------
(* Open on a table of live accounts, each with a session of its own.       *)
Init ==
    /\ table = Seeded
    /\ row = [a \in Accounts |->
                 LET at == {i \in DOMAIN Seeded : Seeded[i] = a}
                     s  == IF at = {} THEN NoSession ELSE Min(at)
                 IN [auth |-> s, ctx |-> s, login |-> a \in Logins,
                     dead |-> FALSE, reason |-> "none", until |-> 0]]
    /\ pend = [a \in Accounts |-> NoHealth] /\ dirty = FALSE /\ faults = 0
    /\ accounts = table
    /\ acc = [a \in Accounts |-> IF a \in Stored THEN addStoredAccount(a, FALSE)
                                                 ELSE NoAccount]
    /\ next = 0 /\ queued = 0 /\ writes = 0 /\ updating = 0
    /\ asleep = {} /\ closed = FALSE
    /\ req = [r \in Details |-> Idle]
    /\ med = [m \in Media |-> [pc |-> "idle", a |-> None, queued |-> FALSE]]
    /\ upd = NoUpdate
    /\ clock = 0 /\ restarts = 0
    /\ minted = Len(Seeded) /\ rejected = {NoSession}

DetailStep(r) ==
    \/ Acquire(r) \/ Wait(r) \/ Refuse(r)
    \/ ReadSession(r) \/ CheckAccount(r)
    \/ \E out \in lookup : Answer(r, out)
    \/ Renew(r) \/ Login(r) \/ SaveRenewal(r) \/ Publish(r)
    \/ Judge(r) \/ Mark(r) \/ FlushHealth(r) \/ Settle(r)
    \/ Persist(r) \/ Release(r)

MediaStep(m) ==
    MediaAcquire(m) \/ MediaWait(m) \/ MediaRefuse(m) \/ MediaRelease(m)

\* The steps of updateExisting but its return.
UpdateStep ==
    \/ Drain \/ UpdateFlush \/ UpdateGate \/ Verified \/ NotVerified
    \/ MarkCooldown \/ FlushCooldown \/ SettleCooldown
    \/ Replace \/ PublishUpdate \/ UpdateLogin

\* What callers and the world may do.
Environment ==
    \/ \E r \in Details : Detail(r) \/ CancelWait(r) \/ CancelRequest(r)
    \/ \E m \in Media : MediaCancel(m) \/ \E a \in Accounts : WithMedia(m, a)
    \/ CancelUpdate
    \/ Close \/ CloseStore \/ Tick

PoolNext ==
    \/ \E r \in Details : DetailStep(r)
    \/ \E m \in Media : MediaStep(m)
    \/ UpdateStep
    \/ Environment

Next ==
    \/ PoolNext
    \/ \E a \in Accounts, c \in Offers : BeginUpdate(a, c)
    \/ FinishUpdate
    \/ Restart

Spec == Init /\ [][Next]_vars

\* Goroutines run, and every call out of the process ends: lookups, logins and
\* statements have timeouts, and so has a download.
FairSpec ==
    /\ Spec
    /\ \A r \in Details : WF_vars(DetailStep(r))
    /\ \A m \in Media : WF_vars(MediaStep(m))
    /\ WF_vars(UpdateStep) /\ WF_vars(FinishUpdate)

-----------------------------------------------------------------------------
(* Safety.                                                                 *)

\* The counters are exact: every lease, queued call and health write in flight
\* is counted once, on every path out of acquire, Detail and updateExisting.
CountersExact ==
    /\ \A a \in Accounts :
         /\ acc[a].busy = Cardinality({r \in Details : req[r].a = a})
         /\ acc[a].busy <= Concurrency
         /\ acc[a].mediaBusy = Cardinality({m \in Media : med[m].pc = "run"
                                                          /\ med[m].a = a})
         /\ acc[a].mediaBusy <= DownloadConcurrency
    /\ queued = Cardinality({r \in Details : req[r].queued})
                + Cardinality({m \in Media : med[m].queued})
    /\ queued <= MaxQueued
    /\ writes = Cardinality({r \in Details : req[r].pc \in {"mark", "flush", "settle"}})
                + (IF upd.pc \in {"mark", "flushHealth", "settle"} THEN 1 ELSE 0)
    /\ updating = IF upd.pc = "idle" THEN 0 ELSE 1

\* The session in use is never ahead of the table: a replacement is used only
\* after its commit, so a restart cannot fall back to the one it replaced
\* (comment of renew).  And the saved context is that of the saved session,
\* however late an older session's is checkpointed (comment of
\* SaveSessionState).
SessionIsSaved ==
    \A a \in Loaded : acc[a].auth <= row[a].auth /\ row[a].ctx = row[a].auth

\* When nothing is being written, a restart would find every account as bad as
\* the pool knows it to be: dead with its reason, and throttled as long.
DeathIsSaved ==
    ~Unsettled => \A a \in Loaded :
        /\ (acc[a].disabled /\ acc[a].auth = row[a].auth /\ acc[a].auth \in rejected)
             => row[a].dead /\ row[a].reason = acc[a].reason
        /\ acc[a].cooldown <= row[a].until

\* A death is never written, or about to be, for an account in use: a late one
\* would kill at the next restart what an update has revived.
DeathIsCurrent ==
    \A a \in Loaded : row[a].dead \/ pend[a].reason # "none" => acc[a].disabled

\* Admission and restart agree on account health, through failed, partial and
\* unconfirmed writes.
HealthIsDurable == DeathIsSaved /\ DeathIsCurrent

-----------------------------------------------------------------------------
(* What a step may never do.                                               *)

Running == restarts' = restarts

\* An account dies only for a session Instagram has rejected and that is still
\* the pool's: the late failure of an old session cannot kill its replacement.
DeathIsDeserved ==
    [][Running => \A a \in Accounts :
          ~acc[a].disabled /\ acc'[a].disabled => acc[a].auth \in rejected]_vars

\* One login per rejected session: a renewal replaces only a session that
\* Instagram has rejected.
RenewalIsNeeded ==
    [][Running /\ upd.pc # "publish" => \A a \in Loaded :
          acc'[a].auth # acc[a].auth => acc[a].auth \in rejected]_vars

-----------------------------------------------------------------------------
(* Liveness.                                                               *)

\* Every metadata request and every download that waits gets an account or an
\* error, and ends, whoever holds gates, slots and statements, as long as
\* operators do not update accounts for ever (each update of the only eligible
\* account makes waiting requests wait again).
EveryCallEnds ==
    <>[](upd.pc = "idle")
      => /\ \A r \in Details : req[r].pc = "acquire" ~> req[r].pc = "done"
         /\ \A m \in Media : med[m].pc = "acquire" ~> med[m].pc = "done"

=============================================================================
