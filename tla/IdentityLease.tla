---------------------------- MODULE IdentityLease ----------------------------
(***************************************************************************)
(* Admission of operations to TikTok identities: internal/identity.        *)
(*                                                                         *)
(* A Pool holds identities in slots of proxies.  A request goroutine calls *)
(* acquire, either for any identity or pinned to the identity that opened  *)
(* its media, gets an exclusive lease, and gives it back with finish.      *)
(* Requests that find no free identity park on the channel p.notify, which *)
(* wakeLocked closes and replaces.  Every action below is one critical     *)
(* section of Pool.mu; the local steps before it (the ctx.Err checks, the  *)
(* return of a select) commute with the steps of the other goroutines and  *)
(* are part of it.                                                         *)
(*                                                                         *)
(* An identity is named by its slot: a slot receives at most one entry, on *)
(* demand, and keeps it.  Cooldowns are sets that Expire empties at any    *)
(* time; how long a cooldown lasts is abstracted.                          *)
(***************************************************************************)
EXTENDS Integers, FiniteSets

CONSTANTS
  Requests,    \* one-shot request goroutines
  Proxies,     \* the routes, p.proxies
  NumSlots,    \* slots of all proxies, numbered in the order acquire scans them
  ProxyOf,     \* the proxy of each slot
  QueueLimit,  \* cfg.MaxQueuedRequests
  Stored,      \* what PostgreSQL may hold when the process starts
  MaxFaults    \* bound on lost connections and permanent save errors

Slots == 1..NumSlots

ASSUME RequestsAssumption == IsFiniteSet(Requests)
ASSUME SlotsAssumption == NumSlots \in Nat /\ ProxyOf \in [Slots -> Proxies]
ASSUME QueueAssumption == QueueLimit \in Nat \ {0}

\* The rows of the identities, with their assignment counts, and the stored
\* health of identities and routes.
IsStored(db) ==
  /\ db.entries \subseteq Slots /\ db.cooling \subseteq db.entries
  /\ db.assignments \in [Slots -> Nat]
  /\ \A s \in Slots \ db.entries : db.assignments[s] = 0
  /\ db.routeFailed \subseteq Proxies /\ db.routeCooling \subseteq db.routeFailed

ASSUME StoredAssumption == \A db \in Stored : IsStored(db)
ASSUME FaultsAssumption == MaxFaults \in Nat

AnyId == 0                   \* id == "": the request takes any identity
Unknown == NumSlots + 1    \* an id that names no entry of this pool

VARIABLES
  entries,      \* slots that have an entry
  busy,         \* entry.busy
  waiting,      \* entry.waiting: parked requests pinned to the entry
  assignments,  \* entry.assignments
  last,         \* entry.selected: the sequence number of its last assignment
  cooling,      \* entries whose own cooldown has not expired
  routeFailed,  \* proxies with health.Failures > 0
  routeCooling, \* proxies whose cooldown has not expired
  version,      \* proxyState.healthVersion
  dirty,        \* entries with a checkpoint PostgreSQL does not have
  sequence,     \* p.sequence
  queued,       \* p.queued
  workers,      \* the WaitGroup p.workers
  down,         \* why p.ready is false: subset of {"failed", "closing", "drained"}
  paused,       \* why admission pauses: subset of {"disconnected", "unwritable"}
  faults,       \* faults so far
  pc,           \* where each request is
  want,         \* its argument id
  reserved,     \* its local variable reserved, AnyId for nil
  held,         \* the entry of its lease, AnyId for none
  seen,         \* lease.proxyVersion
  cancelled,    \* requests whose lease or acquire context has ended
  struck        \* history: leases during which their proxy failed

entryVars == <<entries, assignments, last, sequence>>
healthVars == <<cooling, routeFailed, routeCooling, version, struck>>
stateVars == <<down, paused, faults>>
requestVars == <<want, seen, cancelled>>
vars == <<entryVars, healthVars, stateVars, requestVars, busy, waiting, dirty,
          queued, workers, pc, reserved, held>>

\* p.ready is cleared, and p.lifetime cancelled, by fail and by Close alone.
Ready == down = {}
Operational == Ready /\ paused = {}

Parked(r) == pc[r] = "parked"            \* waits on the current p.notify
Queued(r) == pc[r] \in {"parked", "woken"}
Active(r) == pc[r] \notin {"idle", "done"}

-----------------------------------------------------------------------------

Init ==
  /\ \E db \in Stored :                  \* initialize loads it
       /\ entries = db.entries /\ assignments = db.assignments
       /\ cooling = db.cooling
       /\ routeFailed = db.routeFailed /\ routeCooling = db.routeCooling
  /\ busy = {} /\ dirty = {}
  /\ waiting = [s \in Slots |-> 0]
  /\ last = [s \in Slots |-> 0]
  /\ version = [p \in Proxies |-> 0]
  /\ sequence = 0 /\ queued = 0 /\ workers = 0 /\ faults = 0
  /\ down = {} /\ paused = {}
  /\ pc = [r \in Requests |-> "idle"]
  /\ want = [r \in Requests |-> AnyId]
  /\ reserved = [r \in Requests |-> AnyId]
  /\ held = [r \in Requests |-> AnyId]
  /\ seen = [r \in Requests |-> 0]
  /\ cancelled = {} /\ struck = {}

\* wakeLocked closes p.notify: every request parked on it will run again.  The
\* caller moves request r, if it is one, to the place to.
Wake(r, to) ==
  pc' = [q \in Requests |-> IF q = r THEN to
                            ELSE IF Parked(q) THEN "woken" ELSE pc[q]]
WakeAll == pc' = [q \in Requests |-> IF Parked(q) THEN "woken" ELSE pc[q]]
Goto(r, to) == pc' = [pc EXCEPT ![r] = to]

\* waiting after request r gives up the reservation it has.
Unreserved(r) ==
  [s \in Slots |-> IF s = reserved[r] THEN waiting[s] - 1 ELSE waiting[s]]

Cooling(s) == s \in cooling \/ ProxyOf[s] \in routeCooling
Eligible(r) == {s \in Slots : ~Cooling(s) /\ want[r] \in {AnyId, s}}

\* The slots request r may take: a pinned request its own identity, any other
\* request those no pinned request waits for.
MutantFreeBusy(r) == {s \in Eligible(r) : want[r] = s \/ waiting[s] = 0}
MutantFree(r) == Eligible(r) \ busy
Free(r) == {s \in Eligible(r) \ busy : want[r] = s \/ waiting[s] = 0}

\* The scan of acquire keeps the first slot with the fewest assignments, and of
\* these the one selected longest ago.
Better(s, t) ==
  \/ assignments[s] < assignments[t]
  \/ assignments[s] = assignments[t] /\ last[s] < last[t]
  \/ assignments[s] = assignments[t] /\ last[s] = last[t] /\ s < t
Preferred(r) == {s \in Free(r) : \A t \in Free(r) \ {s} : Better(s, t)}

-----------------------------------------------------------------------------
(* acquire *)

\* A call of acquire: refused outright when the pool is not ready.
Start(r) ==
  /\ pc[r] = "idle"
  /\ \E id \in entries \cup {AnyId, Unknown} : want' = [want EXCEPT ![r] = id]
  /\ IF Ready THEN Goto(r, "loop") /\ workers' = workers + 1
              ELSE Goto(r, "done") /\ UNCHANGED workers
  /\ UNCHANGED <<entryVars, healthVars, stateVars, seen, cancelled, busy, waiting,
                 dirty, queued, reserved, held>>

\* The common end of an acquire that returns an error holding no reservation.
Return(r) ==
  /\ Goto(r, "done")
  /\ workers' = workers - 1
  /\ waiting' = Unreserved(r)
  /\ reserved' = [reserved EXCEPT ![r] = AnyId]
  /\ UNCHANGED <<entryVars, healthVars, stateVars, requestVars, busy, dirty, queued, held>>

\* An error of the loop body: the pool stopped, paused, does not know the id,
\* or every eligible identity is cooling down.
Refuse(r) ==
  /\ pc[r] = "loop" /\ r \notin cancelled
  /\ \/ ~Operational
     \/ want[r] = Unknown
     \/ Eligible(r) = {}
  /\ Return(r)

\* tiktokapp.NewSession fails for the empty slot the scan selected.
NewSessionFails(r) ==
  /\ pc[r] = "loop" /\ r \notin cancelled
  /\ Operational /\ want[r] = AnyId
  /\ \E s \in Preferred(r) : s \notin entries
  /\ Return(r)

\* The lease is granted.
Grant(r) ==
  /\ pc[r] = "loop" /\ r \notin cancelled
  /\ Operational
  /\ \E s \in Preferred(r) :
       /\ entries' = entries \cup {s}
       /\ busy' = busy \cup {s}
       /\ held' = [held EXCEPT ![r] = s]
       /\ seen' = [seen EXCEPT ![r] = version[ProxyOf[s]]]
       /\ IF want[r] = AnyId
          THEN /\ assignments' = [assignments EXCEPT ![s] = @ + 1]
               /\ sequence' = sequence + 1
               /\ last' = [last EXCEPT ![s] = sequence + 1]
          ELSE UNCHANGED <<assignments, sequence, last>>
  /\ waiting' = Unreserved(r)
  /\ reserved' = [reserved EXCEPT ![r] = AnyId]
  /\ Goto(r, "holding")
  /\ UNCHANGED <<healthVars, stateVars, want, cancelled, dirty, queued, workers>>

\* Everything eligible is taken.
Taken(r) ==
  /\ pc[r] = "loop" /\ r \notin cancelled
  /\ Operational
  /\ Eligible(r) # {} /\ Free(r) = {}

\* A pinned request holds a reservation on its busy identity while it waits.
MutantReserve(r) ==
  /\ reserved' = [reserved EXCEPT ![r] = want[r]]
  /\ waiting' = Unreserved(r)
Reserve(r) ==
  /\ reserved' = [reserved EXCEPT ![r] = want[r]]
  /\ waiting' = [s \in Slots |-> IF s = want[r] THEN Unreserved(r)[s] + 1
                                                ELSE Unreserved(r)[s]]

Park(r) ==
  /\ Taken(r)
  /\ queued < QueueLimit
  /\ queued' = queued + 1
  /\ Reserve(r)
  /\ Goto(r, "parked")
  /\ UNCHANGED <<entryVars, healthVars, stateVars, requestVars, busy, dirty, workers, held>>

\* service_busy: the deferred function, a critical section of its own, gives the
\* reservation back.
QueueFull(r) ==
  /\ Taken(r)
  /\ queued >= QueueLimit
  /\ Reserve(r)
  /\ Goto(r, "leaving")
  /\ UNCHANGED <<entryVars, healthVars, stateVars, requestVars, busy, dirty, queued, workers, held>>

\* The select of a queued request returns: its channel was closed, its context
\* ended, or the pool stopped.
Unpark(r) ==
  /\ \/ pc[r] = "woken"
     \/ pc[r] = "parked" /\ (r \in cancelled \/ ~Ready)
  /\ queued' = queued - 1
  /\ Goto(r, "loop")
  /\ UNCHANGED <<entryVars, healthVars, stateVars, requestVars, busy, waiting, dirty,
                 workers, reserved, held>>

\* The deferred function of acquire on a path that may still hold a reservation:
\* the context ended, or the queue was full.
Leave(r) ==
  /\ \/ pc[r] = "loop" /\ r \in cancelled
     \/ pc[r] = "leaving"
  /\ waiting' = Unreserved(r)
  /\ IF reserved[r] \in Slots \ busy /\ waiting'[reserved[r]] = 0
     THEN Wake(r, "done") ELSE Goto(r, "done")
  /\ reserved' = [reserved EXCEPT ![r] = AnyId]
  /\ workers' = workers - 1
  /\ UNCHANGED <<entryVars, healthVars, stateVars, requestVars, busy, dirty, queued, held>>

-----------------------------------------------------------------------------
(* finish *)

Outcomes == {"ok", "network", "upstream", "neutral"}

\* failedLocked: a network error is the route's, an upstream error the
\* identity's; deleted or restricted content and context errors are nobody's.
FailedLocked(s, outcome) ==
  LET p == ProxyOf[s] IN
  /\ cooling' = IF outcome = "upstream" THEN cooling \cup {s} ELSE cooling
  /\ IF outcome = "network"
     THEN /\ routeFailed' = routeFailed \cup {p}
          /\ routeCooling' = routeCooling \cup {p}
          /\ version' = [version EXCEPT ![p] = @ + 1]
          /\ struck' = struck \cup {q \in Requests : held[q] \in Slots /\ ProxyOf[held[q]] = p}
     ELSE UNCHANGED <<routeFailed, routeCooling, version, struck>>

\* A success clears the identity, and the route unless its health changed
\* during the lease.
MutantSucceeded(r, s) ==
  /\ cooling' = cooling \ {s}
  /\ routeFailed' = routeFailed \ {ProxyOf[s]}
  /\ routeCooling' = routeCooling \ {ProxyOf[s]}
  /\ version' = [version EXCEPT ![ProxyOf[s]] = @ + 1]
  /\ UNCHANGED struck
Succeeded(r, s) ==
  LET p == ProxyOf[s] IN
  /\ cooling' = cooling \ {s}
  /\ IF version[p] = seen[r] /\ p \in routeFailed
     THEN /\ routeFailed' = routeFailed \ {p}
          /\ routeCooling' = routeCooling \ {p}
          /\ version' = [version EXCEPT ![p] = @ + 1]
     ELSE UNCHANGED <<routeFailed, routeCooling, version>>
  /\ UNCHANGED struck

\* Returning the lease: health, checkpoint, busy flag, wake.  Encoding a session
\* cannot fail, so the checkpoint is always taken.
Finish(r, outcome) ==
  /\ pc[r] = "holding"
  /\ LET s == held[r] IN
       /\ IF outcome = "ok" THEN Succeeded(r, s)
          ELSE IF r \notin cancelled THEN FailedLocked(s, outcome)
          ELSE UNCHANGED healthVars
       /\ dirty' = dirty \cup {s}
       /\ busy' = busy \ {s}
  /\ held' = [held EXCEPT ![r] = AnyId]
  /\ Wake(r, "done")
  /\ workers' = workers - 1
  /\ UNCHANGED <<entryVars, stateVars, requestVars, waiting, queued, reserved>>

-----------------------------------------------------------------------------
(* The world around the requests *)

\* The caller's context ends, or the end of p.lifetime reaches the lease through
\* context.AfterFunc, which runs at some later time.
Cancel(r) ==
  /\ Active(r) /\ r \notin cancelled
  /\ cancelled' = cancelled \cup {r}
  /\ UNCHANGED <<entryVars, healthVars, stateVars, want, seen, busy, waiting, dirty,
                 queued, workers, pc, reserved, held>>

\* Time passes; nobody is woken by the end of a cooldown.
Expire(s) ==
  /\ s \in cooling
  /\ cooling' = cooling \ {s}
  /\ UNCHANGED <<entryVars, stateVars, requestVars, routeFailed, routeCooling, version, struck,
                 busy, waiting, dirty, queued, workers, pc, reserved, held>>

ExpireRoute(p) ==
  /\ p \in routeCooling
  /\ routeCooling' = routeCooling \ {p}
  /\ UNCHANGED <<entryVars, stateVars, requestVars, cooling, routeFailed, version, struck,
                 busy, waiting, dirty, queued, workers, pc, reserved, held>>

\* disconnect: the persistence goroutine lost its connection.
MutantDisconnect ==
  /\ "disconnected" \notin paused
  /\ faults < MaxFaults /\ faults' = faults + 1
  /\ paused' = paused \cup {"disconnected"}
  /\ UNCHANGED <<entryVars, healthVars, requestVars, down, busy, waiting, dirty, queued,
                 workers, pc, reserved, held>>
Disconnect ==
  /\ "disconnected" \notin paused
  /\ faults < MaxFaults /\ faults' = faults + 1
  /\ paused' = paused \cup {"disconnected"}
  /\ WakeAll
  /\ UNCHANGED <<entryVars, healthVars, requestVars, down, busy, waiting, dirty, queued,
                 workers, reserved, held>>

\* The last lines of connect.  After a failure the goroutine never syncs again.
Reconnect ==
  /\ "disconnected" \in paused
  /\ "failed" \notin down
  /\ paused' = paused \ {"disconnected"}
  /\ UNCHANGED <<entryVars, healthVars, requestVars, down, faults, busy, waiting, dirty,
                 queued, workers, pc, reserved, held>>

\* setUnwritable with an error, when none was set.
SetUnwritable ==
  /\ "unwritable" \notin paused /\ "failed" \notin down
  /\ faults < MaxFaults /\ faults' = faults + 1
  /\ paused' = paused \cup {"unwritable"}
  /\ WakeAll
  /\ UNCHANGED <<entryVars, healthVars, requestVars, down, busy, waiting, dirty, queued,
                 workers, reserved, held>>

\* setUnwritable(nil) after a save succeeded.
SetWritable ==
  /\ "unwritable" \in paused /\ "failed" \notin down
  /\ paused' = paused \ {"unwritable"}
  /\ UNCHANGED <<entryVars, healthVars, requestVars, down, faults, busy, waiting, dirty,
                 queued, workers, pc, reserved, held>>

\* savedLocked: a committed batch clears the checkpoints no newer one replaced.
Save(saved) ==
  /\ saved # {} /\ saved \subseteq dirty
  /\ "disconnected" \notin paused /\ "failed" \notin down
  /\ dirty' = dirty \ saved
  /\ UNCHANGED <<entryVars, healthVars, stateVars, requestVars, busy, waiting, queued,
                 workers, pc, reserved, held>>

\* fail: ownership is lost for good.
Fail ==
  /\ "failed" \notin down
  /\ down' = down \cup {"failed"}
  /\ WakeAll
  /\ UNCHANGED <<entryVars, healthVars, requestVars, paused, faults, busy, waiting, dirty,
                 queued, workers, reserved, held>>

\* Close, up to workers.Wait, and the return of workers.Wait: from here on the
\* persistence goroutine makes its last save.
Close ==
  /\ "closing" \notin down
  /\ down' = down \cup {"closing"}
  /\ WakeAll
  /\ UNCHANGED <<entryVars, healthVars, requestVars, paused, faults, busy, waiting, dirty,
                 queued, workers, reserved, held>>

MutantDrained ==
  /\ "closing" \in down /\ "drained" \notin down
  /\ down' = down \cup {"drained"}
  /\ UNCHANGED <<entryVars, healthVars, requestVars, paused, faults, busy, waiting, dirty,
                 queued, workers, pc, reserved, held>>
Drained ==
  /\ "closing" \in down /\ "drained" \notin down
  /\ workers = 0
  /\ down' = down \cup {"drained"}
  /\ UNCHANGED <<entryVars, healthVars, requestVars, paused, faults, busy, waiting, dirty,
                 queued, workers, pc, reserved, held>>

-----------------------------------------------------------------------------

Acquire(r) ==
  \/ Start(r) \/ Refuse(r) \/ NewSessionFails(r) \/ Grant(r)
  \/ Park(r) \/ QueueFull(r) \/ Unpark(r) \/ Leave(r)

Pause ==
  \/ Disconnect \/ Reconnect \/ SetUnwritable \/ SetWritable
  \/ \E saved \in SUBSET dirty : Save(saved)

Shutdown == Fail \/ Close \/ Drained

Next ==
  \/ \E r \in Requests : Acquire(r) \/ Cancel(r)
  \/ \E r \in Requests, outcome \in Outcomes : Finish(r, outcome)
  \/ \E s \in Slots : Expire(s)
  \/ \E p \in Proxies : ExpireRoute(p)
  \/ Pause
  \/ Shutdown

Spec == Init /\ [][Next]_vars

-----------------------------------------------------------------------------
(* Properties *)

\* What the steps alone keep; that no counter is ever negative rests on
\* Accounting.
Shape ==
  /\ entries \subseteq Slots /\ busy \subseteq Slots
  /\ cooling \subseteq Slots /\ dirty \subseteq Slots
  /\ routeFailed \subseteq Proxies /\ routeCooling \subseteq Proxies
  /\ waiting \in [Slots -> Int] /\ queued \in Int /\ workers \in Int
  /\ assignments \in [Slots -> Nat] /\ last \in [Slots -> Nat]
  /\ version \in [Proxies -> Nat]
  /\ sequence \in Nat /\ faults \in Nat
  /\ down \subseteq {"failed", "closing", "drained"}
  /\ paused \subseteq {"disconnected", "unwritable"}
  /\ pc \in [Requests -> {"idle", "loop", "parked", "woken", "leaving", "holding", "done"}]
  /\ want \in [Requests -> Slots \cup {AnyId, Unknown}]
  /\ reserved \in [Requests -> Slots \cup {AnyId}]
  /\ held \in [Requests -> Slots \cup {AnyId}]
  /\ seen \in [Requests -> Nat]
  /\ cancelled \subseteq Requests /\ struck \subseteq Requests

\* Every variable has its type: no counter of the pool is given back more often
\* than it was taken (a negative WaitGroup panics).
TypeOK ==
  /\ Shape
  /\ waiting \in [Slots -> Nat] /\ queued \in Nat /\ workers \in Nat

\* An identity carries one operation at a time: leases are of different
\* entries, and an entry is busy exactly while a lease of it is out.
LeaseExclusive ==
  /\ \A r \in Requests : held[r] # AnyId <=> pc[r] = "holding"
  /\ \A r, q \in Requests : held[r] # AnyId /\ held[r] = held[q] => r = q
  /\ busy = {held[r] : r \in {q \in Requests : pc[q] = "holding"}}

\* The counters the pool decides on agree with its goroutines: waiting with the
\* reservations, queued with the requests in the select (never over the limit),
\* the WaitGroup with the calls in progress.
Accounting ==
  /\ \A s \in Slots : waiting[s] = Cardinality({r \in Requests : reserved[r] = s})
  /\ queued = Cardinality({r \in Requests : Queued(r)})
  /\ queued <= QueueLimit
  /\ workers = Cardinality({r \in Requests : Active(r)})

\* No request sleeps on p.notify with nobody left to close it: the identity a
\* pinned request waits for is leased; any other sleeper waits for an identity
\* that is not cooling and is leased or promised to a request that is awake;
\* and nobody sleeps in a pool that would refuse it.
Sleeper(r) ==
  /\ Operational
  /\ IF want[r] # AnyId THEN want[r] \in busy
     ELSE \E s \in Slots : ~Cooling(s) /\ (s \in busy \/ waiting[s] > 0)
NoLostWakeup == \A r \in Requests : Parked(r) => Sleeper(r)

\* A success that began before its route failed says nothing of the route now:
\* the end of such a lease never clears a route's failure.
KeepsFailure ==
  \A r \in struck : pc[r] = "holding" /\ pc'[r] = "done" => routeFailed \subseteq routeFailed'
StaleSuccessKeepsFailure == [][KeepsFailure]_vars

\* A request of no particular identity never overtakes a request pinned to the
\* identity it is given.
PinnedRunsNext ==
  [][\A r \in Requests : want[r] = AnyId /\ held[r] = AnyId /\ held'[r] # AnyId
                          => \A q \in Requests : reserved[q] # held'[r]]_vars

\* When Close starts the last save, every operation has ended: no checkpoint is
\* taken that this save could miss.
NothingNewToSave == "drained" \in down => dirty' \subseteq dirty
LastSaveIsComplete == [][NothingNewToSave]_vars

=============================================================================
