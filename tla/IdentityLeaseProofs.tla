------------------------- MODULE IdentityLeaseProofs -------------------------
(***************************************************************************)
(* Proofs about IdentityLease, for every set of requests, slots, routes    *)
(* and queue limit.                                                        *)
(***************************************************************************)
EXTENDS IdentityLease, FiniteSetTheorems, TLAPS

\* A request has a lease exactly while it runs its operation.  The type of the
\* entry finish releases depends on it, so the two are proved together.
HoldsLease == \A r \in Requests : held[r] # AnyId <=> pc[r] = "holding"
Typed == Shape /\ HoldsLease

\* The two special ids are no slots.
LEMMA SlotFacts == /\ AnyId \notin Slots
                   /\ Unknown \notin Slots
                   /\ AnyId # Unknown
                   /\ Slots \subseteq Int
  BY SlotsAssumption DEF Slots, AnyId, Unknown

\* The initial states are typed.
LEMMA TypedInit == Init => Typed
  BY SlotsAssumption, StoredAssumption DEF Init, IsStored, Typed, Shape, HoldsLease, Slots, AnyId, Unknown

\* What the two ways of waking sleepers do to a request's place.
LEMMA WakeShape ==
  ASSUME Shape, NEW r \in Requests, NEW to \in {"done"}, Wake(r, to)
  PROVE  /\ pc' \in [Requests -> {"idle", "loop", "parked", "woken", "leaving", "holding", "done"}]
         /\ pc'[r] = to
         /\ \A q \in Requests \ {r} : pc'[q] = IF Parked(q) THEN "woken" ELSE pc[q]
  BY DEF Wake, Shape, Parked

\* The same when every sleeper is woken.
LEMMA WakeAllShape ==
  ASSUME Shape, WakeAll
  PROVE  /\ pc' \in [Requests -> {"idle", "loop", "parked", "woken", "leaving", "holding", "done"}]
         /\ \A q \in Requests : pc'[q] = IF Parked(q) THEN "woken" ELSE pc[q]
  BY DEF WakeAll, Shape, Parked

\* Every critical section keeps the types and the meaning of held.
LEMMA TypedStep == Typed /\ [Next]_vars => Typed'
<1> SUFFICES ASSUME Shape, HoldsLease, [Next]_vars PROVE Shape' /\ HoldsLease'
  BY DEF Typed
<1> USE SlotsAssumption, SlotFacts DEF Shape, HoldsLease, entryVars, healthVars, stateVars, requestVars
<1>1. ASSUME NEW r \in Requests, Start(r) PROVE Shape' /\ HoldsLease'
  <2>1. PICK id \in entries \cup {AnyId, Unknown} : want' = [want EXCEPT ![r] = id]
    BY <1>1 DEF Start
  <2> QED
    BY <1>1, <2>1 DEF Start, Goto
<1>2. ASSUME NEW r \in Requests, Return(r), pc[r] = "loop" PROVE Shape' /\ HoldsLease'
  BY <1>2 DEF Return, Goto, Unreserved
<1>3. ASSUME NEW r \in Requests, Grant(r) PROVE Shape' /\ HoldsLease'
  <2>1. PICK s \in Slots :
          /\ entries' = entries \cup {s}
          /\ busy' = busy \cup {s}
          /\ held' = [held EXCEPT ![r] = s]
          /\ seen' = [seen EXCEPT ![r] = version[ProxyOf[s]]]
          /\ \/ /\ assignments' = [assignments EXCEPT ![s] = @ + 1]
                /\ sequence' = sequence + 1
                /\ last' = [last EXCEPT ![s] = sequence + 1]
             \/ UNCHANGED <<assignments, sequence, last>>
    BY <1>3 DEF Grant, Preferred, Free, Eligible
  <2>2. entries' \subseteq Slots /\ busy' \subseteq Slots
        /\ held' \in [Requests -> Slots \cup {AnyId}]
        /\ seen' \in [Requests -> Nat]
    BY <2>1
  <2>3. assignments' \in [Slots -> Nat] /\ last' \in [Slots -> Nat] /\ sequence' \in Nat
    BY <2>1
  <2>4. waiting' \in [Slots -> Int] /\ reserved' \in [Requests -> Slots \cup {AnyId}]
    BY <1>3 DEF Grant, Unreserved
  <2>5. Shape'
    BY <1>3, <2>2, <2>3, <2>4 DEF Grant, Goto
  <2>6. HoldsLease'
    BY <1>3, <2>1 DEF Grant, Goto
  <2> QED
    BY <2>5, <2>6
<1>4. ASSUME NEW r \in Requests, Taken(r), Reserve(r)
      PROVE  /\ waiting' \in [Slots -> Int]
             /\ reserved' \in [Requests -> Slots \cup {AnyId}]
  <2>1. want[r] \in Slots \cup {AnyId}
    BY <1>4 DEF Taken, Eligible
  <2> QED
    BY <1>4, <2>1 DEF Reserve, Unreserved
<1>5. ASSUME NEW r \in Requests, Park(r) PROVE Shape' /\ HoldsLease'
  BY <1>4, <1>5 DEF Park, Taken, Goto
<1>6. ASSUME NEW r \in Requests, QueueFull(r) PROVE Shape' /\ HoldsLease'
  BY <1>4, <1>6 DEF QueueFull, Taken, Goto
<1>7. ASSUME NEW r \in Requests, Unpark(r) PROVE Shape' /\ HoldsLease'
  BY <1>7 DEF Unpark, Goto
<1>8. ASSUME NEW r \in Requests, Leave(r) PROVE Shape' /\ HoldsLease'
  <2>1. waiting' \in [Slots -> Int]
    BY <1>8 DEF Leave, Unreserved
  <2>2. pc[r] \in {"loop", "leaving"}
    BY <1>8 DEF Leave
  <2>3. CASE Wake(r, "done")
    BY <1>8, <2>1, <2>2, <2>3, WakeShape DEF Leave, Parked
  <2>4. CASE Goto(r, "done")
    BY <1>8, <2>1, <2>2, <2>4 DEF Leave, Goto
  <2> QED
    BY <1>8, <2>3, <2>4 DEF Leave
<1>9. ASSUME NEW r \in Requests, NEW outcome \in Outcomes, Finish(r, outcome)
      PROVE  Shape' /\ HoldsLease'
  <2>1. held[r] \in Slots /\ ProxyOf[held[r]] \in Proxies
    BY <1>9 DEF Finish
  <2>2. /\ cooling' \subseteq Slots
        /\ routeFailed' \subseteq Proxies /\ routeCooling' \subseteq Proxies
        /\ version' \in [Proxies -> Nat]
        /\ struck' \subseteq Requests
    <3>1. CASE Succeeded(r, held[r])
      <4>1. CASE version[ProxyOf[held[r]]] = seen[r] /\ ProxyOf[held[r]] \in routeFailed
        <5>1. /\ cooling' = cooling \ {held[r]} /\ struck' = struck
              /\ routeFailed' = routeFailed \ {ProxyOf[held[r]]}
              /\ routeCooling' = routeCooling \ {ProxyOf[held[r]]}
              /\ version' = [version EXCEPT ![ProxyOf[held[r]]] = @ + 1]
          BY <3>1, <4>1 DEF Succeeded
        <5>2. version' \in [Proxies -> Nat]
          BY <2>1, <5>1
        <5> QED
          BY <5>1, <5>2
      <4>2. CASE ~(version[ProxyOf[held[r]]] = seen[r] /\ ProxyOf[held[r]] \in routeFailed)
        BY <2>1, <3>1, <4>2 DEF Succeeded
      <4> QED
        BY <4>1, <4>2
    <3>2. CASE FailedLocked(held[r], outcome)
      <4>1. CASE outcome = "network"
        BY <2>1, <3>2, <4>1 DEF FailedLocked
      <4>2. CASE outcome # "network"
        BY <2>1, <3>2, <4>2 DEF FailedLocked
      <4> QED
        BY <4>1, <4>2
    <3>3. CASE UNCHANGED healthVars
      BY <3>3
    <3> QED
      BY <1>9, <3>1, <3>2, <3>3 DEF Finish
  <2>3. Wake(r, "done")
    BY <1>9 DEF Finish
  <2>4. dirty' \subseteq Slots /\ busy' \subseteq Slots /\ held' = [held EXCEPT ![r] = AnyId]
    BY <1>9, <2>1 DEF Finish
  <2>5. Shape'
    BY <1>9, <2>2, <2>3, <2>4, WakeShape DEF Finish
  <2>6. HoldsLease'
    BY <2>3, <2>4, WakeShape DEF Parked
  <2> QED
    BY <2>5, <2>6
<1>10. ASSUME NEW r \in Requests, Cancel(r) PROVE Shape' /\ HoldsLease'
  BY <1>10 DEF Cancel
<1>11. ASSUME NEW s \in Slots, Expire(s) PROVE Shape' /\ HoldsLease'
  BY <1>11 DEF Expire
<1>12. ASSUME NEW p \in Proxies, ExpireRoute(p) PROVE Shape' /\ HoldsLease'
  BY <1>12 DEF ExpireRoute
<1>13. ASSUME Disconnect \/ SetUnwritable \/ Fail \/ Close PROVE Shape' /\ HoldsLease'
  <2>1. WakeAll /\ UNCHANGED <<entryVars, healthVars, requestVars, busy, waiting, dirty, queued,
                               workers, reserved, held>>
    BY <1>13 DEF Disconnect, SetUnwritable, Fail, Close
  <2>2. /\ faults' \in Nat
        /\ down' \subseteq {"failed", "closing", "drained"}
        /\ paused' \subseteq {"disconnected", "unwritable"}
    <3>1. CASE Disconnect \/ SetUnwritable
      <4>1. faults' = faults + 1 /\ UNCHANGED down
        BY <3>1 DEF Disconnect, SetUnwritable
      <4>2. paused' \subseteq {"disconnected", "unwritable"}
        BY <3>1 DEF Disconnect, SetUnwritable
      <4> QED
        BY <4>1, <4>2
    <3>2. CASE Fail \/ Close
      BY <3>2 DEF Fail, Close
    <3> QED
      BY <1>13, <3>1, <3>2
  <2> QED
    BY <2>1, <2>2, WakeAllShape DEF Parked
<1>14. ASSUME Reconnect \/ SetWritable \/ Drained \/ \E saved \in SUBSET dirty : Save(saved)
       PROVE  Shape' /\ HoldsLease'
  <2>1. UNCHANGED <<entryVars, healthVars, requestVars, faults, busy, waiting, queued,
                    workers, pc, reserved, held>>
    BY <1>14 DEF Reconnect, SetWritable, Drained, Save
  <2>2. /\ dirty' \subseteq Slots
        /\ down' \subseteq {"failed", "closing", "drained"}
        /\ paused' \subseteq {"disconnected", "unwritable"}
    BY <1>14 DEF Reconnect, SetWritable, Drained, Save
  <2> QED
    BY <2>1, <2>2
<1>15. ASSUME UNCHANGED vars PROVE Shape' /\ HoldsLease'
  BY <1>15 DEF vars
<1> QED
  BY <1>1, <1>2, <1>3, <1>5, <1>6, <1>7, <1>8, <1>9, <1>10, <1>11, <1>12, <1>13, <1>14, <1>15
  DEF Next, Acquire, Refuse, NewSessionFails, Pause, Shutdown

-----------------------------------------------------------------------------
(* Leases are exclusive *)

\* Only a grant and a finish touch leases.
LEMMA LeaseFrame ==
  [Next]_vars => \/ UNCHANGED <<busy, held>>
                 \/ \E r \in Requests : Grant(r)
                 \/ \E r \in Requests, outcome \in Outcomes : Finish(r, outcome)
<1> SUFFICES ASSUME [Next]_vars
             PROVE  \/ UNCHANGED <<busy, held>>
                    \/ \E r \in Requests : Grant(r)
                    \/ \E r \in Requests, outcome \in Outcomes : Finish(r, outcome)
  OBVIOUS
<1>1. ASSUME NEW r \in Requests, Acquire(r), ~Grant(r) PROVE UNCHANGED <<busy, held>>
  BY <1>1 DEF Acquire, Start, Refuse, NewSessionFails, Return, Park, QueueFull, Unpark, Leave
<1>2. ASSUME NEW r \in Requests, Cancel(r) PROVE UNCHANGED <<busy, held>>
  BY <1>2 DEF Cancel
<1>3. ASSUME (\E s \in Slots : Expire(s)) \/ (\E p \in Proxies : ExpireRoute(p))
      PROVE  UNCHANGED <<busy, held>>
  BY <1>3 DEF Expire, ExpireRoute
<1>4. ASSUME Pause \/ Shutdown PROVE UNCHANGED <<busy, held>>
  BY <1>4 DEF Pause, Shutdown, Disconnect, Reconnect, SetUnwritable, SetWritable, Save,
              Fail, Close, Drained
<1>5. ASSUME UNCHANGED vars PROVE UNCHANGED <<busy, held>>
  BY <1>5 DEF vars
<1> QED
  BY <1>1, <1>2, <1>3, <1>4, <1>5 DEF Next

\* The same statement about held alone.
Leases == {r \in Requests : held[r] # AnyId}
Exclusive ==
  /\ \A r, q \in Requests : held[r] # AnyId /\ held[r] = held[q] => r = q
  /\ busy = {held[r] : r \in Leases}

\* A grant takes an identity that is not busy, a finish frees its own.
LEMMA ExclusiveStep == Typed /\ Exclusive /\ [Next]_vars => Exclusive'
<1> SUFFICES ASSUME Shape, HoldsLease, Exclusive, [Next]_vars PROVE Exclusive'
  BY DEF Typed
<1>1. CASE UNCHANGED <<busy, held>>
  BY <1>1 DEF Exclusive, Leases
<1>2. ASSUME NEW r \in Requests, Grant(r) PROVE Exclusive'
  <2>1. PICK s \in Slots : /\ s \notin busy
                           /\ busy' = busy \cup {s}
                           /\ held' = [held EXCEPT ![r] = s]
    BY <1>2 DEF Grant, Preferred, Free, Eligible
  <2>2. held[r] = AnyId /\ s # AnyId
    BY <1>2, SlotFacts DEF Grant, HoldsLease
  <2>3. Leases' = Leases \cup {r}
    BY <2>1, <2>2 DEF Leases, Shape
  <2>4. \A q \in Requests : held'[q] = IF q = r THEN s ELSE held[q]
    BY <2>1 DEF Shape
  <2>5. \A q \in Leases : held[q] # s /\ q # r
    BY <2>1, <2>2 DEF Exclusive, Leases
  <2>6. busy' = {held'[q] : q \in Leases'}
    BY <2>1, <2>3, <2>4, <2>5 DEF Exclusive, Leases
  <2> QED
    BY <2>2, <2>4, <2>5, <2>6 DEF Exclusive, Leases
<1>3. ASSUME NEW r \in Requests, NEW outcome \in Outcomes, Finish(r, outcome) PROVE Exclusive'
  <2>1. /\ busy' = busy \ {held[r]}
        /\ held' = [held EXCEPT ![r] = AnyId]
    BY <1>3 DEF Finish
  <2>2. held[r] # AnyId
    BY <1>3 DEF Finish, HoldsLease
  <2>3. Leases' = Leases \ {r}
    BY <2>1, <2>2 DEF Leases, Shape
  <2>4. \A q \in Requests : held'[q] = IF q = r THEN AnyId ELSE held[q]
    BY <2>1 DEF Shape
  <2>5. busy' = {held'[q] : q \in Leases'}
    BY <2>1, <2>2, <2>3, <2>4 DEF Exclusive, Leases
  <2> QED
    BY <2>2, <2>4, <2>5 DEF Exclusive
<1> QED
  BY <1>1, <1>2, <1>3, LeaseFrame

\* The form the induction uses says what LeaseExclusive says.
LEMMA ExclusiveEquivalent == HoldsLease => (Exclusive <=> LeaseExclusive)
  BY DEF HoldsLease, Exclusive, LeaseExclusive, Leases

\* No lease is out initially.
LEMMA ExclusiveInit == Init => Exclusive
  BY DEF Init, Exclusive, Leases

\* An identity carries one operation at a time.
THEOREM LeasesAreExclusive == Spec => []LeaseExclusive
<1>1. Spec => [](Typed /\ Exclusive)
  BY TypedInit, TypedStep, ExclusiveInit, ExclusiveStep, PTL DEF Spec
<1>2. Typed /\ Exclusive => LeaseExclusive
  BY ExclusiveEquivalent DEF Typed
<1> QED
  BY <1>1, <1>2, PTL

-----------------------------------------------------------------------------
(* The counters agree with the goroutines *)

Reserving(s) == {r \in Requests : reserved[r] = s}
WaitingExact == \A s \in Slots : waiting[s] = Cardinality(Reserving(s))

\* A reservation is of the identity the request is pinned to, and only a request
\* inside acquire has one.
Reservations ==
  \A r \in Requests : reserved[r] # AnyId =>
     /\ reserved[r] = want[r]
     /\ pc[r] \in {"loop", "parked", "woken", "leaving"}

GiveUp(r) == reserved' = [reserved EXCEPT ![r] = AnyId] /\ waiting' = Unreserved(r)

\* Reservations are given up and taken, and otherwise left alone.
LEMMA ReservationFrame ==
  [Next]_vars => \/ UNCHANGED <<reserved, waiting>>
                 \/ \E r \in Requests : GiveUp(r)
                 \/ \E r \in Requests : Taken(r) /\ Reserve(r)
<1> SUFFICES ASSUME [Next]_vars
             PROVE  \/ UNCHANGED <<reserved, waiting>>
                    \/ \E r \in Requests : GiveUp(r)
                    \/ \E r \in Requests : Taken(r) /\ Reserve(r)
  OBVIOUS
<1>1. ASSUME NEW r \in Requests, Acquire(r)
      PROVE  UNCHANGED <<reserved, waiting>> \/ GiveUp(r) \/ (Taken(r) /\ Reserve(r))
  BY <1>1 DEF Acquire, Start, Refuse, NewSessionFails, Return, Grant, Park, QueueFull,
              Unpark, Leave, GiveUp
<1>2. ASSUME NEW r \in Requests, Cancel(r) PROVE UNCHANGED <<reserved, waiting>>
  BY <1>2 DEF Cancel
<1>3. ASSUME NEW r \in Requests, NEW outcome \in Outcomes, Finish(r, outcome)
      PROVE  UNCHANGED <<reserved, waiting>>
  BY <1>3 DEF Finish
<1>4. ASSUME (\E s \in Slots : Expire(s)) \/ (\E p \in Proxies : ExpireRoute(p))
      PROVE  UNCHANGED <<reserved, waiting>>
  BY <1>4 DEF Expire, ExpireRoute
<1>5. ASSUME Pause \/ Shutdown PROVE UNCHANGED <<reserved, waiting>>
  BY <1>5 DEF Pause, Shutdown, Disconnect, Reconnect, SetUnwritable, SetWritable, Save,
              Fail, Close, Drained
<1>6. ASSUME UNCHANGED vars PROVE UNCHANGED <<reserved, waiting>>
  BY <1>6 DEF vars
<1> QED
  BY <1>1, <1>2, <1>3, <1>4, <1>5, <1>6 DEF Next

\* The requests that reserved an identity can be counted.
LEMMA ReservingFinite == \A s : IsFiniteSet(Reserving(s))
  BY RequestsAssumption, FS_Subset DEF Reserving

\* Giving up a reservation keeps waiting exact.
LEMMA GiveUpWaiting ==
  ASSUME Shape, WaitingExact, NEW r \in Requests, GiveUp(r)
  PROVE  WaitingExact'
<1> SUFFICES ASSUME NEW s \in Slots PROVE waiting'[s] = Cardinality(Reserving(s)')
  BY DEF WaitingExact
<1>1. waiting[s] = Cardinality(Reserving(s))
  BY DEF WaitingExact
<1>2. Reserving(s)' = Reserving(s) \ {r}
  BY SlotFacts DEF Reserving, GiveUp, Shape
<1>3. waiting'[s] = IF r \in Reserving(s) THEN waiting[s] - 1 ELSE waiting[s]
  BY DEF GiveUp, Unreserved, Reserving
<1>4. Cardinality(Reserving(s) \ {r})
        = IF r \in Reserving(s) THEN Cardinality(Reserving(s)) - 1 ELSE Cardinality(Reserving(s))
  <2>1. IsFiniteSet(Reserving(s))
    BY ReservingFinite
  <2> QED
    BY <2>1, FS_RemoveElement
<1> QED
  BY <1>1, <1>2, <1>3, <1>4

\* Taking a reservation, in place of an old one, keeps waiting exact.
LEMMA ReserveWaiting ==
  ASSUME Shape, WaitingExact, Reservations, NEW r \in Requests, Taken(r), Reserve(r)
  PROVE  WaitingExact'
<1> SUFFICES ASSUME NEW s \in Slots PROVE waiting'[s] = Cardinality(Reserving(s)')
  BY DEF WaitingExact
<1>1. waiting[s] = Cardinality(Reserving(s)) /\ Cardinality(Reserving(s)) \in Nat
  BY ReservingFinite, FS_CardinalityType DEF WaitingExact
<1>2. \A q \in Requests : reserved'[q] = IF q = r THEN want[r] ELSE reserved[q]
  BY DEF Reserve, Shape
<1>3. CASE want[r] = s
  <2>1. Reserving(s)' = Reserving(s) \cup {r}
    BY <1>2, <1>3 DEF Reserving
  <2>2. waiting'[s] = IF r \in Reserving(s) THEN waiting[s] - 1 + 1 ELSE waiting[s] + 1
    BY <1>3 DEF Reserve, Unreserved, Reserving
  <2>3. Cardinality(Reserving(s) \cup {r})
          = IF r \in Reserving(s) THEN Cardinality(Reserving(s)) ELSE Cardinality(Reserving(s)) + 1
    <3>1. IsFiniteSet(Reserving(s))
      BY ReservingFinite
    <3> QED
      BY <3>1, FS_AddElement
  <2> QED
    BY <1>1, <2>1, <2>2, <2>3
<1>4. CASE want[r] # s
  <2>1. reserved[r] # s
    BY <1>4, SlotFacts DEF Reservations
  <2>2. Reserving(s)' = Reserving(s)
    BY <1>2, <1>4, <2>1 DEF Reserving
  <2>3. waiting'[s] = waiting[s]
    BY <1>4, <2>1 DEF Reserve, Unreserved
  <2> QED
    BY <1>1, <2>2, <2>3
<1> QED
  BY <1>3, <1>4

\* waiting stays the number of reservations.
LEMMA WaitingStep == Shape /\ Reservations /\ WaitingExact /\ [Next]_vars => WaitingExact'
<1> SUFFICES ASSUME Shape, Reservations, WaitingExact, [Next]_vars PROVE WaitingExact'
  OBVIOUS
<1>1. CASE UNCHANGED <<reserved, waiting>>
  BY <1>1 DEF WaitingExact, Reserving
<1> QED
  BY <1>1, GiveUpWaiting, ReserveWaiting, ReservationFrame

\* Every path out of acquire gives its reservation up.
LEMMA ReservationsStep == Typed /\ Reservations /\ [Next]_vars => Reservations'
<1> SUFFICES ASSUME Shape, HoldsLease, Reservations, [Next]_vars,
                    NEW q \in Requests, reserved'[q] # AnyId
             PROVE  /\ reserved'[q] = want'[q]
                    /\ pc'[q] \in {"loop", "parked", "woken", "leaving"}
  BY DEF Typed, Reservations
<1> USE DEF Shape, Reservations
<1>1. ASSUME NEW r \in Requests, Start(r) PROVE Reservations'
  BY <1>1 DEF Start, Goto
<1>2. ASSUME NEW r \in Requests, Return(r) PROVE Reservations'
  BY <1>2 DEF Return, Goto, requestVars
<1>3. ASSUME NEW r \in Requests, Grant(r) PROVE Reservations'
  BY <1>3 DEF Grant, Goto
<1>4. ASSUME NEW r \in Requests, Park(r) \/ QueueFull(r) PROVE Reservations'
  BY <1>4 DEF Park, QueueFull, Reserve, Goto, requestVars
<1>5. ASSUME NEW r \in Requests, Unpark(r) PROVE Reservations'
  BY <1>5 DEF Unpark, Goto, requestVars
<1>6. ASSUME NEW r \in Requests, Leave(r) PROVE Reservations'
  BY <1>6, WakeShape DEF Leave, Goto, Parked, requestVars
<1>7. ASSUME NEW r \in Requests, NEW outcome \in Outcomes, Finish(r, outcome) PROVE Reservations'
  BY <1>7, WakeShape DEF Finish, Parked, requestVars
<1>8. ASSUME NEW r \in Requests, Cancel(r) PROVE Reservations'
  BY <1>8 DEF Cancel
<1>9. ASSUME (\E s \in Slots : Expire(s)) \/ (\E p \in Proxies : ExpireRoute(p)) PROVE Reservations'
  BY <1>9 DEF Expire, ExpireRoute, requestVars
<1>10. ASSUME Disconnect \/ SetUnwritable \/ Fail \/ Close PROVE Reservations'
  <2>1. WakeAll /\ UNCHANGED <<requestVars, reserved>>
    BY <1>10 DEF Disconnect, SetUnwritable, Fail, Close
  <2> QED
    BY <2>1, WakeAllShape DEF Parked, requestVars
<1>11. ASSUME Reconnect \/ SetWritable \/ Drained \/ \E saved \in SUBSET dirty : Save(saved)
       PROVE  Reservations'
  <2>1. UNCHANGED <<requestVars, reserved, pc>>
    BY <1>11 DEF Reconnect, SetWritable, Drained, Save
  <2> QED
    BY <2>1 DEF requestVars
<1>12. ASSUME UNCHANGED vars PROVE Reservations'
  BY <1>12 DEF vars, requestVars
<1> QED
  BY <1>1, <1>2, <1>3, <1>4, <1>5, <1>6, <1>7, <1>8, <1>9, <1>10, <1>11, <1>12
  DEF Next, Acquire, Refuse, NewSessionFails, Pause, Shutdown

InQueue == {r \in Requests : Queued(r)}
InCall == {r \in Requests : Active(r)}
QueueExact == queued = Cardinality(InQueue) /\ queued <= QueueLimit
WorkersExact == workers = Cardinality(InCall)

\* The requests in the queue, and those in a call, can be counted.
LEMMA Countable == IsFiniteSet(InQueue) /\ IsFiniteSet(InCall)
  BY RequestsAssumption, FS_Subset DEF InQueue, InCall

\* Who is in the queue, and who is in a call of acquire or its lease, changes by
\* one request at a time, together with its counter.
LEMMA CountFrame ==
  ASSUME Shape, [Next]_vars
  PROVE  /\ \/ InQueue' = InQueue /\ UNCHANGED queued
            \/ \E r \in Requests \ InQueue :
                  InQueue' = InQueue \cup {r} /\ queued' = queued + 1 /\ queued < QueueLimit
            \/ \E r \in InQueue : InQueue' = InQueue \ {r} /\ queued' = queued - 1
         /\ \/ InCall' = InCall /\ UNCHANGED workers
            \/ \E r \in Requests \ InCall : InCall' = InCall \cup {r} /\ workers' = workers + 1
            \/ \E r \in InCall : InCall' = InCall \ {r} /\ workers' = workers - 1
<1> DEFINE Same == InQueue' = InQueue /\ UNCHANGED queued
           SameCall == InCall' = InCall /\ UNCHANGED workers
           Ends(r) == r \in InCall /\ InCall' = InCall \ {r} /\ workers' = workers - 1
<1> USE DEF InQueue, InCall, Queued, Active
<1>1. ASSUME NEW r \in Requests, Start(r)
      PROVE  /\ Same
             /\ SameCall \/ (r \notin InCall /\ InCall' = InCall \cup {r} /\ workers' = workers + 1)
  BY <1>1 DEF Start, Goto, Shape
<1>2. ASSUME NEW r \in Requests, Return(r), pc[r] = "loop" PROVE Same /\ Ends(r)
  BY <1>2 DEF Return, Goto, Shape
<1>3. ASSUME NEW r \in Requests, Grant(r) PROVE Same /\ SameCall
  BY <1>3 DEF Grant, Goto, Shape
<1>4. ASSUME NEW r \in Requests, Park(r)
      PROVE  /\ r \notin InQueue /\ InQueue' = InQueue \cup {r}
             /\ queued' = queued + 1 /\ queued < QueueLimit /\ SameCall
  BY <1>4 DEF Park, Taken, Goto, Shape
<1>5. ASSUME NEW r \in Requests, QueueFull(r) PROVE Same /\ SameCall
  BY <1>5 DEF QueueFull, Taken, Goto, Shape
<1>6. ASSUME NEW r \in Requests, Unpark(r)
      PROVE  /\ r \in InQueue /\ InQueue' = InQueue \ {r} /\ queued' = queued - 1 /\ SameCall
  BY <1>6 DEF Unpark, Goto, Shape
<1>7. ASSUME NEW r \in Requests, Leave(r) PROVE Same /\ Ends(r)
  <2>1. pc[r] \in {"loop", "leaving"} /\ workers' = workers - 1 /\ UNCHANGED queued
    BY <1>7 DEF Leave
  <2>2. CASE Wake(r, "done")
    BY <2>1, <2>2, WakeShape DEF Parked
  <2>3. CASE Goto(r, "done")
    BY <2>1, <2>3 DEF Goto, Shape
  <2> QED
    BY <1>7, <2>2, <2>3 DEF Leave
<1>8. ASSUME NEW r \in Requests, NEW outcome \in Outcomes, Finish(r, outcome)
      PROVE  Same /\ Ends(r)
  <2>1. /\ pc[r] = "holding" /\ workers' = workers - 1 /\ UNCHANGED queued
        /\ Wake(r, "done")
    BY <1>8 DEF Finish
  <2> QED
    BY <2>1, WakeShape DEF Parked
<1>9. ASSUME Disconnect \/ SetUnwritable \/ Fail \/ Close PROVE Same /\ SameCall
  <2>1. WakeAll /\ UNCHANGED <<queued, workers>>
    BY <1>9 DEF Disconnect, SetUnwritable, Fail, Close
  <2> QED
    BY <2>1, WakeAllShape DEF Parked
<1>10. ASSUME \/ UNCHANGED vars \/ Reconnect \/ SetWritable \/ Drained
              \/ \E saved \in SUBSET dirty : Save(saved)
              \/ \E r \in Requests : Cancel(r)
              \/ \E s \in Slots : Expire(s)
              \/ \E p \in Proxies : ExpireRoute(p)
       PROVE  Same /\ SameCall
  <2>1. UNCHANGED <<pc, queued, workers>>
    BY <1>10 DEF vars, Reconnect, SetWritable, Drained, Save, Cancel, Expire, ExpireRoute
  <2> QED
    BY <2>1
<1> QED
  BY <1>1, <1>2, <1>3, <1>4, <1>5, <1>6, <1>7, <1>8, <1>9, <1>10
  DEF Next, Acquire, Refuse, NewSessionFails, Pause, Shutdown

\* queued and the WaitGroup follow the goroutines that enter and leave.
LEMMA CountStep ==
  ASSUME Shape, QueueExact, WorkersExact, [Next]_vars
  PROVE  QueueExact' /\ WorkersExact'
<1>1. Cardinality(InQueue) \in Nat /\ Cardinality(InCall) \in Nat
  BY Countable, FS_CardinalityType
<1>2. QueueExact'
  <2>1. ASSUME NEW r \in Requests \ InQueue PROVE Cardinality(InQueue \cup {r}) = Cardinality(InQueue) + 1
    BY <2>1, Countable, FS_AddElement
  <2>2. ASSUME NEW r \in InQueue PROVE Cardinality(InQueue \ {r}) = Cardinality(InQueue) - 1
    BY <2>2, Countable, FS_RemoveElement
  <2> QED
    BY <1>1, <2>1, <2>2, CountFrame, QueueAssumption DEF QueueExact
<1>3. WorkersExact'
  <2>1. ASSUME NEW r \in Requests \ InCall PROVE Cardinality(InCall \cup {r}) = Cardinality(InCall) + 1
    BY <2>1, Countable, FS_AddElement
  <2>2. ASSUME NEW r \in InCall PROVE Cardinality(InCall \ {r}) = Cardinality(InCall) - 1
    BY <2>2, Countable, FS_RemoveElement
  <2> QED
    BY <1>1, <2>1, <2>2, CountFrame DEF WorkersExact
<1> QED
  BY <1>2, <1>3

CountsExact == Reservations /\ WaitingExact /\ QueueExact /\ WorkersExact

\* All counters start at zero.
LEMMA CountsInit == Init => CountsExact
<1> SUFFICES ASSUME Init PROVE CountsExact
  OBVIOUS
<1>1. InQueue = {} /\ InCall = {} /\ \A s \in Slots : Reserving(s) = {}
  BY SlotFacts DEF Init, InQueue, InCall, Queued, Active, Reserving
<1> QED
  BY <1>1, FS_EmptySet, QueueAssumption
  DEF Init, CountsExact, Reservations, WaitingExact, QueueExact, WorkersExact

\* The inductive invariant of the counters.
LEMMA CountsCorrect == Spec => [](Typed /\ CountsExact)
<1>1. Typed /\ CountsExact /\ [Next]_vars => Typed' /\ CountsExact'
  BY TypedStep, ReservationsStep, WaitingStep, CountStep DEF Typed, CountsExact
<1> QED
  BY <1>1, TypedInit, CountsInit, PTL DEF Spec

\* waiting, queued and the WaitGroup always count the goroutines they stand for,
\* and the queue never exceeds its limit.
THEOREM CountersAgree == Spec => []Accounting
<1>1. Typed /\ CountsExact => Accounting
  BY DEF CountsExact, WaitingExact, QueueExact, WorkersExact, InQueue, InCall, Reserving, Accounting
<1> QED
  BY <1>1, CountsCorrect, PTL

\* The variables always have their types, and no counter is ever negative: each
\* counts a finite set of goroutines.
THEOREM TypeCorrect == Spec => []TypeOK
<1>1. ASSUME Typed, CountsExact PROVE TypeOK
  <2>1. \A s \in Slots : waiting[s] \in Nat
    BY <1>1, ReservingFinite, FS_CardinalityType DEF CountsExact, WaitingExact
  <2>2. queued \in Nat /\ workers \in Nat
    BY <1>1, Countable, FS_CardinalityType DEF CountsExact, QueueExact, WorkersExact
  <2> QED
    BY <1>1, <2>1, <2>2 DEF TypeOK, Typed, Shape
<1> QED
  BY <1>1, CountsCorrect, PTL

-----------------------------------------------------------------------------
(* No wakeup is lost *)

\* What a step that wakes nobody must respect for sleepers to stay reachable.
LEMMA SleepersKept ==
  ASSUME NoLostWakeup, UNCHANGED <<down, paused, busy, want>>,
         cooling' \subseteq cooling, routeCooling' \subseteq routeCooling,
         \A r \in Requests : Parked(r)' => Parked(r),
         \A s \in Slots : ~Cooling(s) /\ waiting[s] > 0 => waiting'[s] > 0
  PROVE  NoLostWakeup'
  BY DEF NoLostWakeup, Sleeper, Operational, Ready, Cooling

\* A step that wakes everybody leaves no sleeper.
LEMMA NoSleepers ==
  ASSUME \A r \in Requests : ~Parked(r)'
  PROVE  NoLostWakeup'
  BY DEF NoLostWakeup

\* No critical section takes from a sleeper what would wake it.
LEMMA WakeupStep ==
  ASSUME Typed, Typed', CountsExact, WaitingExact', NoLostWakeup, [Next]_vars
  PROVE  NoLostWakeup'
<1> USE DEF Typed
<1>1. ASSUME NEW r \in Requests, Start(r) PROVE NoLostWakeup'
  <2>1. \A q \in Requests : Parked(q)' => Parked(q) /\ want'[q] = want[q]
    BY <1>1 DEF Start, Goto, Shape, Parked
  <2>2. UNCHANGED <<down, paused, busy, waiting, cooling, routeCooling>>
    BY <1>1 DEF Start, stateVars, healthVars
  <2> QED
    BY <2>1, <2>2 DEF NoLostWakeup, Sleeper, Operational, Ready, Cooling
<1>2. ASSUME NEW r \in Requests, Refuse(r) \/ NewSessionFails(r) PROVE NoLostWakeup'
  <2>1. Return(r) /\ pc[r] = "loop"
    BY <1>2 DEF Refuse, NewSessionFails
  <2>2. /\ UNCHANGED <<down, paused, busy, want, cooling, routeCooling>>
        /\ \A q \in Requests : Parked(q)' => Parked(q)
    BY <2>1 DEF Return, stateVars, requestVars, healthVars, Goto, Parked, Shape
  <2>3. CASE \A q \in Requests : ~Parked(q)
    BY <2>2, <2>3, NoSleepers
  <2>4. CASE \E q \in Requests : Parked(q)
    <3>1. Operational
      BY <2>4 DEF NoLostWakeup, Sleeper
    <3>2. ASSUME NEW s \in Slots, ~Cooling(s) PROVE reserved[r] # s
      <4>1. CASE Refuse(r)
        <5>1. want[r] = Unknown \/ Eligible(r) = {}
          BY <3>1, <4>1 DEF Refuse
        <5>2. want[r] # s
          BY <5>1, <3>2, SlotFacts DEF Eligible
        <5> QED
          BY <5>2, SlotFacts DEF CountsExact, Reservations
      <4>2. CASE NewSessionFails(r)
        BY <4>2, SlotFacts DEF NewSessionFails, CountsExact, Reservations
      <4> QED
        BY <1>2, <4>1, <4>2
    <3>3. \A s \in Slots : ~Cooling(s) => waiting'[s] = waiting[s]
      BY <2>1, <3>2 DEF Return, Unreserved
    <3> QED
      BY <2>2, <3>3, SleepersKept
  <2> QED
    BY <2>3, <2>4
<1>3. ASSUME NEW r \in Requests, Grant(r) PROVE NoLostWakeup'
  <2>1. PICK s \in Slots : s \in Free(r) /\ busy' = busy \cup {s}
    BY <1>3 DEF Grant, Preferred, Free, Eligible
  <2>2. reserved[r] \in {AnyId, s}
    BY <2>1, SlotFacts DEF CountsExact, Reservations, Free, Eligible
  <2>3. \A t \in Slots : t # s => waiting'[t] = waiting[t]
    BY <1>3, <2>2, SlotFacts DEF Grant, Unreserved
  <2>4. \A q \in Requests : Parked(q)' => Parked(q)
    BY <1>3 DEF Grant, Goto, Parked, Shape
  <2>5. UNCHANGED <<down, paused, want, cooling, routeCooling>>
    BY <1>3 DEF Grant, stateVars, healthVars
  <2> QED
    BY <2>1, <2>3, <2>4, <2>5 DEF NoLostWakeup, Sleeper, Operational, Ready, Cooling
<1>4. ASSUME NEW r \in Requests, Park(r) \/ QueueFull(r) PROVE NoLostWakeup'
  <2>1. Taken(r) /\ Reserve(r) /\ UNCHANGED <<down, paused, busy, want, cooling, routeCooling>>
    BY <1>4 DEF Park, QueueFull, stateVars, requestVars, healthVars
  <2>2. \A s \in Slots : waiting'[s] >= waiting[s]
    <3>1. \A s \in Slots : waiting[s] \in Int /\ (reserved[r] = s => want[r] = s)
      BY SlotFacts DEF Shape, CountsExact, Reservations
    <3> QED
      BY <2>1, <3>1 DEF Reserve, Unreserved
  <2>3. \A q \in Requests : Parked(q)' => Parked(q) \/ q = r
    BY <1>4 DEF Park, QueueFull, Goto, Parked, Shape
  <2>4. ASSUME NEW q \in Requests, Parked(q) PROVE Sleeper(q)'
    <3>1. Sleeper(q)
      BY <2>4 DEF NoLostWakeup
    <3>2. \A s \in Slots : waiting[s] \in Int /\ waiting'[s] \in Int
      BY DEF Shape
    <3> QED
      BY <2>1, <2>2, <3>1, <3>2 DEF Sleeper, Operational, Ready, Cooling
  <2>5. Sleeper(r)'
    <3>1. Operational /\ Operational'
      BY <2>1 DEF Taken, Operational, Ready
    <3>2. PICK s \in Slots : ~Cooling(s) /\ want[r] \in {AnyId, s} /\ s \notin Free(r)
      BY <2>1 DEF Taken, Eligible, Free
    <3>3. s \in busy \/ (want[r] = AnyId /\ waiting[s] # 0)
      BY <3>2, SlotFacts DEF Free, Eligible
    <3>4. waiting[s] # 0 => waiting'[s] > 0
      <4>1. waiting[s] \in Nat
        BY ReservingFinite, FS_CardinalityType DEF CountsExact, WaitingExact
      <4> QED
        BY <2>2, <4>1 DEF Shape
    <3>5. ~Cooling(s)'
      BY <2>1, <3>2 DEF Cooling
    <3>6. CASE want[r] = AnyId
      BY <2>1, <3>1, <3>3, <3>4, <3>5, <3>6 DEF Sleeper
    <3>7. CASE want[r] = s
      BY <2>1, <3>1, <3>3, <3>7, SlotFacts DEF Sleeper
    <3> QED
      BY <3>2, <3>6, <3>7
  <2> QED
    BY <2>3, <2>4, <2>5 DEF NoLostWakeup
<1>5. ASSUME NEW r \in Requests, Unpark(r) PROVE NoLostWakeup'
  <2>1. /\ UNCHANGED <<down, paused, busy, want, cooling, routeCooling, waiting>>
        /\ \A q \in Requests : Parked(q)' => Parked(q)
    BY <1>5 DEF Unpark, stateVars, requestVars, healthVars, Goto, Parked, Shape
  <2> QED
    BY <2>1, SleepersKept
<1>6. ASSUME NEW r \in Requests, Leave(r) PROVE NoLostWakeup'
  <2>1. UNCHANGED <<down, paused, busy, want, cooling, routeCooling>> /\ waiting' = Unreserved(r)
    BY <1>6 DEF Leave, stateVars, requestVars, healthVars
  <2>2. CASE Wake(r, "done")
    BY <2>2, WakeShape, NoSleepers DEF Parked
  <2>3. CASE ~(reserved[r] \in Slots \ busy /\ waiting'[reserved[r]] = 0) /\ Goto(r, "done")
    <3>1. \A q \in Requests : Parked(q)' => Parked(q)
      BY <2>3 DEF Goto, Parked, Shape
    <3>2. ASSUME NEW s \in Slots, s \notin busy, waiting[s] > 0 PROVE waiting'[s] > 0
      <4>1. waiting'[s] \in Nat
        <5>1. IsFiniteSet(Reserving(s)')
          BY RequestsAssumption, FS_Subset DEF Reserving
        <5>2. waiting'[s] = Cardinality(Reserving(s)')
          BY DEF WaitingExact
        <5> QED
          BY <5>1, <5>2, FS_CardinalityType
      <4>2. reserved[r] # s => waiting'[s] = waiting[s]
        BY <2>1 DEF Unreserved
      <4>3. reserved[r] = s => waiting'[s] # 0
        BY <2>3, <3>2
      <4> QED
        BY <3>2, <4>1, <4>2, <4>3
    <3> QED
      BY <2>1, <3>1, <3>2 DEF NoLostWakeup, Sleeper, Operational, Ready, Cooling
  <2> QED
    BY <1>6, <2>2, <2>3 DEF Leave
<1>7. ASSUME NEW r \in Requests, NEW outcome \in Outcomes, Finish(r, outcome) PROVE NoLostWakeup'
  <2>1. Wake(r, "done")
    BY <1>7 DEF Finish
  <2> QED
    BY <2>1, WakeShape, NoSleepers DEF Parked
<1>8. ASSUME Disconnect \/ SetUnwritable \/ Fail \/ Close PROVE NoLostWakeup'
  <2>1. WakeAll
    BY <1>8 DEF Disconnect, SetUnwritable, Fail, Close
  <2> QED
    BY <2>1, WakeAllShape, NoSleepers DEF Parked
<1>9. ASSUME Reconnect \/ SetWritable \/ Drained PROVE NoLostWakeup'
  <2>1. UNCHANGED pc /\ ~Operational
    BY <1>9 DEF Reconnect, SetWritable, Drained, Operational, Ready
  <2>2. \A q \in Requests : ~Parked(q)'
    BY <2>1 DEF NoLostWakeup, Sleeper, Parked
  <2> QED
    BY <2>2, NoSleepers
<1>10. ASSUME \/ UNCHANGED vars
              \/ \E saved \in SUBSET dirty : Save(saved)
              \/ \E r \in Requests : Cancel(r)
              \/ \E s \in Slots : Expire(s)
              \/ \E p \in Proxies : ExpireRoute(p)
       PROVE  NoLostWakeup'
  <2>1. /\ UNCHANGED <<pc, down, paused, busy, want, waiting>>
        /\ cooling' \subseteq cooling /\ routeCooling' \subseteq routeCooling
    BY <1>10 DEF vars, Save, Cancel, Expire, ExpireRoute, stateVars, requestVars, healthVars
  <2> QED
    BY <2>1, SleepersKept DEF Parked
<1> QED
  BY <1>1, <1>2, <1>3, <1>4, <1>5, <1>6, <1>7, <1>8, <1>9, <1>10
  DEF Next, Acquire, Pause, Shutdown

\* No request ever sleeps with nobody left to wake it.
THEOREM WakeupsAreNotLost == Spec => []NoLostWakeup
<1>1. Init => NoLostWakeup
  BY DEF Init, NoLostWakeup, Parked
<1>2. Typed /\ Typed' /\ CountsExact /\ CountsExact' /\ NoLostWakeup /\ [Next]_vars => NoLostWakeup'
  BY WakeupStep DEF CountsExact
<1> QED
  BY <1>1, <1>2, CountsCorrect, PTL DEF Spec

-----------------------------------------------------------------------------
(* Health and shutdown *)

\* A lease never knows a later version of its route than the route has, and a
\* lease during which its route failed knows an older one.
VersionsOrdered ==
  \A r \in Requests :
     /\ r \in struck => pc[r] \in {"holding", "done"}
     /\ pc[r] = "holding" =>
          /\ seen[r] <= version[ProxyOf[held[r]]]
          /\ r \in struck => seen[r] < version[ProxyOf[held[r]]]

\* What keeps a request's lease and its view of the route.
LEMMA VersionsKept ==
  ASSUME Typed, Typed', VersionsOrdered, NEW q \in Requests,
         pc'[q] = pc[q] \/ pc[q] \notin {"holding", "done"},
         pc'[q] = "holding" => pc[q] = "holding",
         held'[q] = held[q], seen'[q] = seen[q],
         UNCHANGED <<version, struck>>
  PROVE  /\ q \in struck' => pc'[q] \in {"holding", "done"}
         /\ pc'[q] = "holding" =>
              /\ seen'[q] <= version'[ProxyOf[held'[q]]]
              /\ q \in struck' => seen'[q] < version'[ProxyOf[held'[q]]]
  BY DEF VersionsOrdered

\* A lease that a route failure struck is older than the route's version.
LEMMA VersionsStep ==
  ASSUME Typed, Typed', VersionsOrdered, [Next]_vars
  PROVE  VersionsOrdered'
<1> USE DEF Typed, Shape
<1> DEFINE Good(q) ==
             /\ q \in struck => pc[q] \in {"holding", "done"}
             /\ pc[q] = "holding" =>
                  /\ seen[q] <= version[ProxyOf[held[q]]]
                  /\ q \in struck => seen[q] < version[ProxyOf[held[q]]]
<1> SUFFICES ASSUME NEW q \in Requests PROVE Good(q)'
  BY DEF VersionsOrdered
<1>0. Good(q)
  BY DEF VersionsOrdered
<1>1. ASSUME NEW r \in Requests, Acquire(r), ~Grant(r) PROVE Good(q)'
  <2>1. /\ pc'[q] = pc[q] \/ pc[q] \notin {"holding", "done"}
        /\ pc'[q] = "holding" => pc[q] = "holding"
    <3>1. CASE Start(r) \/ Refuse(r) \/ NewSessionFails(r)
      BY <3>1 DEF Start, Refuse, NewSessionFails, Return, Goto
    <3>2. CASE Park(r) \/ QueueFull(r) \/ Unpark(r)
      BY <3>2 DEF Park, QueueFull, Unpark, Taken, Goto
    <3>3. CASE Leave(r)
      BY <3>3, WakeShape DEF Leave, Goto, Parked
    <3> QED
      BY <1>1, <3>1, <3>2, <3>3 DEF Acquire
  <2>2. UNCHANGED <<held, seen, version, struck>>
    BY <1>1 DEF Acquire, Start, Refuse, NewSessionFails, Return, Park, QueueFull, Unpark, Leave,
                healthVars, requestVars
  <2> QED
    BY <2>1, <2>2, VersionsKept
<1>2. ASSUME NEW r \in Requests, Grant(r) PROVE Good(q)'
  <2>1. CASE q # r
    <3>1. pc'[q] = pc[q] /\ held'[q] = held[q] /\ seen'[q] = seen[q] /\ UNCHANGED <<version, struck>>
      BY <1>2, <2>1 DEF Grant, Goto, healthVars
    <3> QED
      BY <3>1, VersionsKept
  <2>2. CASE q = r
    <3>1. PICK s \in Slots : held'[q] = s /\ seen'[q] = version[ProxyOf[s]]
      BY <1>2, <2>2 DEF Grant, Preferred, Free, Eligible
    <3>2. q \notin struck' /\ UNCHANGED version
      BY <1>0, <1>2, <2>2 DEF Grant, healthVars
    <3>3. version[ProxyOf[s]] \in Nat
      BY SlotsAssumption
    <3> QED
      BY <3>1, <3>2, <3>3
  <2> QED
    BY <2>1, <2>2
<1>3. ASSUME NEW r \in Requests, NEW outcome \in Outcomes, Finish(r, outcome) PROVE Good(q)'
  <2>1. Wake(r, "done") /\ held' = [held EXCEPT ![r] = AnyId] /\ UNCHANGED seen /\ pc[r] = "holding"
    BY <1>3 DEF Finish, requestVars
  <2>2. /\ \A p \in Proxies : version'[p] >= version[p]
        /\ q \in struck' \ struck =>
             held[q] \in Slots /\ version'[ProxyOf[held[q]]] > version[ProxyOf[held[q]]]
    <3>1. held[r] \in Slots /\ ProxyOf[held[r]] \in Proxies
      BY <2>1, SlotsAssumption DEF HoldsLease
    <3>2. CASE Succeeded(r, held[r])
      BY <3>1, <3>2 DEF Succeeded
    <3>3. CASE FailedLocked(held[r], outcome)
      BY <3>1, <3>3 DEF FailedLocked
    <3>4. CASE UNCHANGED healthVars
      BY <3>4 DEF healthVars
    <3> QED
      BY <1>3, <3>2, <3>3, <3>4 DEF Finish
  <2>3. CASE q = r
    BY <2>1, <2>3, WakeShape
  <2>4. CASE q # r
    <3>1. pc'[q] = (IF pc[q] = "parked" THEN "woken" ELSE pc[q]) /\ held'[q] = held[q] /\ seen'[q] = seen[q]
      BY <2>1, <2>4, WakeShape DEF Parked
    <3>2. CASE pc[q] = "holding"
      <4>1. held[q] \in Slots /\ ProxyOf[held[q]] \in Proxies
        BY <3>2, SlotsAssumption DEF HoldsLease
      <4>2. /\ version[ProxyOf[held[q]]] \in Nat /\ version'[ProxyOf[held[q]]] \in Nat
            /\ seen[q] \in Nat
        BY <4>1
      <4>3. version'[ProxyOf[held[q]]] >= version[ProxyOf[held[q]]]
        BY <2>2, <4>1
      <4>4. q \in struck' => seen[q] < version'[ProxyOf[held[q]]]
        BY <1>0, <2>2, <3>2, <4>2, <4>3
      <4> QED
        BY <1>0, <3>1, <3>2, <4>2, <4>3, <4>4
    <3>3. CASE pc[q] # "holding"
      <4>1. q \in struck' => q \in struck
        BY <2>2, <3>3, SlotFacts DEF HoldsLease
      <4> QED
        BY <1>0, <3>1, <3>3, <4>1
    <3> QED
      BY <3>2, <3>3
  <2> QED
    BY <2>3, <2>4
<1>4. ASSUME Disconnect \/ SetUnwritable \/ Fail \/ Close PROVE Good(q)'
  <2>1. WakeAll /\ UNCHANGED <<held, seen, version, struck>>
    BY <1>4 DEF Disconnect, SetUnwritable, Fail, Close, healthVars, requestVars
  <2>2. pc'[q] = IF pc[q] = "parked" THEN "woken" ELSE pc[q]
    BY <2>1, WakeAllShape DEF Parked
  <2> QED
    BY <2>1, <2>2, VersionsKept
<1>5. ASSUME \/ UNCHANGED vars \/ Reconnect \/ SetWritable \/ Drained
             \/ \E saved \in SUBSET dirty : Save(saved)
             \/ \E r \in Requests : Cancel(r)
             \/ \E s \in Slots : Expire(s)
             \/ \E p \in Proxies : ExpireRoute(p)
      PROVE  Good(q)'
  <2>1. UNCHANGED <<pc, held, seen, version, struck>>
    BY <1>5 DEF vars, Reconnect, SetWritable, Drained, Save, Cancel, Expire, ExpireRoute,
                healthVars, requestVars
  <2> QED
    BY <2>1, VersionsKept
<1> QED
  BY <1>1, <1>2, <1>3, <1>4, <1>5 DEF Next, Pause, Shutdown

\* Only finish ends a lease.
LEMMA LeaseEnds ==
  ASSUME Typed, [Next]_vars, NEW q \in Requests, pc[q] = "holding", pc'[q] = "done"
  PROVE  \E outcome \in Outcomes : Finish(q, outcome)
<1> USE DEF Typed
<1>1. UNCHANGED <<busy, held>> => pc'[q] # "done"
  <2> SUFFICES ASSUME UNCHANGED <<busy, held>> PROVE FALSE
    OBVIOUS
  <2>1. held[q] # AnyId /\ held'[q] = held[q]
    BY DEF HoldsLease
  <2>2. Typed'
    BY TypedStep
  <2> QED
    BY <2>1, <2>2 DEF HoldsLease
<1>2. ASSUME NEW r \in Requests, Grant(r) PROVE FALSE
  BY <1>2 DEF Grant, Goto, Shape
<1>3. ASSUME NEW r \in Requests, NEW outcome \in Outcomes, Finish(r, outcome), r # q PROVE FALSE
  <2>1. Wake(r, "done")
    BY <1>3 DEF Finish
  <2> QED
    BY <1>3, <2>1, WakeShape DEF Parked
<1> QED
  BY <1>1, <1>2, <1>3, LeaseFrame

\* The end of a lease during which its route failed never clears the failure of
\* a route, however late it comes.
THEOREM StaleSuccessIsHarmless == Spec => StaleSuccessKeepsFailure
<1>1. Typed /\ VersionsOrdered /\ [Next]_vars => [KeepsFailure]_vars
  <2> SUFFICES ASSUME Typed, VersionsOrdered, [Next]_vars, NEW r \in struck,
                      pc[r] = "holding", pc'[r] = "done"
               PROVE  routeFailed \subseteq routeFailed'
    BY DEF KeepsFailure
  <2>1. r \in Requests
    BY DEF Typed, Shape
  <2>2. PICK outcome \in Outcomes : Finish(r, outcome)
    BY <2>1, LeaseEnds
  <2>3. version[ProxyOf[held[r]]] # seen[r]
    <3>1. held[r] \in Slots /\ ProxyOf[held[r]] \in Proxies
      BY <2>1, SlotsAssumption DEF Typed, Shape, HoldsLease
    <3>2. seen[r] < version[ProxyOf[held[r]]] /\ seen[r] \in Nat /\ version[ProxyOf[held[r]]] \in Nat
      BY <2>1, <3>1 DEF VersionsOrdered, Typed, Shape
    <3> QED
      BY <3>2
  <2>4. CASE Succeeded(r, held[r])
    BY <2>3, <2>4 DEF Succeeded
  <2>5. CASE FailedLocked(held[r], outcome)
    BY <2>5 DEF FailedLocked
  <2>6. CASE UNCHANGED healthVars
    BY <2>6 DEF healthVars
  <2> QED
    BY <2>2, <2>4, <2>5, <2>6 DEF Finish
<1>2. Init => VersionsOrdered
  BY DEF Init, VersionsOrdered
<1>3. Typed /\ Typed' /\ VersionsOrdered /\ [Next]_vars => VersionsOrdered'
  BY VersionsStep
<1>4. Spec => []Typed
  BY TypedInit, TypedStep, PTL DEF Spec
<1> QED
  BY <1>1, <1>2, <1>3, <1>4, PTL DEF Spec, StaleSuccessKeepsFailure

\* After workers.Wait returned no call is in progress, and none can start.
DrainedIdle == "drained" \in down => InCall = {}

\* After Close drained the pool no call is in progress, or ever starts.
LEMMA DrainedStep ==
  ASSUME Typed, WorkersExact, DrainedIdle, [Next]_vars
  PROVE  DrainedIdle'
<1>1. CASE Drained
  <2>1. Cardinality(InCall) = 0
    BY <1>1 DEF Drained, WorkersExact
  <2>2. InCall = {}
    BY <2>1, Countable, FS_EmptySet
  <2> QED
    BY <1>1, <2>2 DEF DrainedIdle, Drained, InCall, Active
<1>2. CASE ~Drained
  <2>1. "drained" \in down' => "drained" \in down
    BY <1>2 DEF Next, Acquire, Start, Refuse, NewSessionFails, Return, Grant, Park, QueueFull, Unpark,
       Leave, Finish, Cancel, Expire, ExpireRoute, Pause, Disconnect, Reconnect, SetUnwritable,
       SetWritable, Save, Shutdown, Fail, Close, stateVars, vars
  <2>2. CASE "drained" \in down
    <3>1. \A r \in Requests : pc[r] \in {"idle", "done"}
      BY <2>2 DEF DrainedIdle, InCall, Active
    <3>2. ~Ready
      BY <2>2 DEF Ready
    <3>3. \A r \in Requests : pc'[r] \in {"idle", "done"}
      <4>1. ASSUME NEW r \in Requests, Acquire(r) PROVE pc' = [pc EXCEPT ![r] = "done"]
        BY <3>1, <3>2, <4>1 DEF Acquire, Start, Goto, Refuse, NewSessionFails, Grant, Park, QueueFull,
           Taken, Unpark, Leave
      <4>2. ASSUME NEW r \in Requests, NEW outcome \in Outcomes, Finish(r, outcome) PROVE FALSE
        BY <3>1, <4>2 DEF Finish
      <4>3. ASSUME WakeAll PROVE UNCHANGED pc
        BY <3>1, <4>3 DEF WakeAll, Parked, Typed, Shape
      <4>4. CASE UNCHANGED pc
        BY <3>1, <4>4
      <4>5. ASSUME Pause \/ Shutdown PROVE UNCHANGED pc
        BY <4>3, <4>5 DEF Pause, Shutdown, Disconnect, Reconnect, SetUnwritable, SetWritable, Save,
           Fail, Close, Drained
      <4>6. ASSUME \/ UNCHANGED vars
                   \/ \E r \in Requests : Cancel(r)
                   \/ \E s \in Slots : Expire(s)
                   \/ \E p \in Proxies : ExpireRoute(p)
            PROVE  UNCHANGED pc
        BY <4>6 DEF vars, Cancel, Expire, ExpireRoute
      <4>7. CASE \E r \in Requests : Acquire(r)
        BY <3>1, <4>1, <4>7 DEF Typed, Shape
      <4> QED
        BY <4>2, <4>4, <4>5, <4>6, <4>7 DEF Next
    <3> QED
      BY <3>3 DEF DrainedIdle, InCall, Active
  <2> QED
    BY <2>1, <2>2 DEF DrainedIdle
<1> QED
  BY <1>1, <1>2

\* No checkpoint is taken after Close's wait for the operations returned.
THEOREM NoCheckpointAfterDrain == Spec => LastSaveIsComplete
<1>1. Typed /\ DrainedIdle /\ [Next]_vars => [NothingNewToSave]_vars
  <2> SUFFICES ASSUME Typed, DrainedIdle, [Next]_vars, "drained" \in down
               PROVE  dirty' \subseteq dirty
    BY DEF NothingNewToSave
  <2>1. ASSUME NEW r \in Requests, NEW outcome \in Outcomes, Finish(r, outcome) PROVE FALSE
    BY <2>1 DEF Finish, DrainedIdle, InCall, Active
  <2> QED
    BY <2>1 DEF Next, Acquire, Start, Refuse, NewSessionFails, Return, Grant, Park, QueueFull, Unpark,
       Leave, Cancel, Expire, ExpireRoute, Pause, Disconnect, Reconnect, SetUnwritable,
       SetWritable, Save, Shutdown, Fail, Close, Drained, vars
<1>2. Init => DrainedIdle
  BY DEF Init, DrainedIdle
<1>3. Typed /\ CountsExact /\ DrainedIdle /\ [Next]_vars => DrainedIdle'
  BY DrainedStep DEF CountsExact
<1> QED
  BY <1>1, <1>2, <1>3, CountsCorrect, PTL DEF Spec, LastSaveIsComplete

-----------------------------------------------------------------------------
(* Pinned requests are not overtaken *)

\* An unpinned request is given an identity only when waiting says that nobody
\* pinned to it waits; that counter is exact, so acquire's scan passes over every
\* identity a pinned request reserved.
THEOREM PinnedIsNotOvertaken == Spec => PinnedRunsNext
<1>1. Typed /\ CountsExact /\ [Next]_vars =>
        [\A r \in Requests : want[r] = AnyId /\ held[r] = AnyId /\ held'[r] # AnyId
                              => \A q \in Requests : reserved[q] # held'[r]]_vars
  <2> SUFFICES ASSUME Typed, WaitingExact, [Next]_vars, NEW r \in Requests,
                      want[r] = AnyId, held[r] = AnyId, held'[r] # AnyId,
                      NEW q \in Requests
               PROVE  reserved[q] # held'[r]
    BY DEF CountsExact
  <2>1. ASSUME NEW u \in Requests, NEW outcome \in Outcomes, Finish(u, outcome) PROVE FALSE
    BY <2>1 DEF Finish, Typed, Shape
  <2>2. PICK u \in Requests : Grant(u)
    BY <2>1, LeaseFrame
  <2>3. PICK s \in Free(u) : held' = [held EXCEPT ![u] = s]
    BY <2>2 DEF Grant, Preferred
  <2>4. u = r /\ held'[r] = s
    BY <2>3 DEF Typed, Shape
  <2>5. s \in Slots /\ waiting[s] = 0
    BY <2>4, SlotFacts DEF Free, Eligible
  <2>6. Reserving(s) = {}
    <3>1. IsFiniteSet(Reserving(s)) /\ Cardinality(Reserving(s)) = 0
      BY <2>5, ReservingFinite DEF WaitingExact
    <3> QED
      BY <3>1, FS_EmptySet
  <2> QED
    BY <2>4, <2>6 DEF Reserving
<1> QED
  BY <1>1, CountsCorrect, PTL DEF Spec, PinnedRunsNext

=============================================================================
