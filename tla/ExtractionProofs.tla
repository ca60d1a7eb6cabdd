-------------------------- MODULE ExtractionProofs --------------------------
(***************************************************************************)
(* Proofs about Extraction, for every number of calls, keys, flights,      *)
(* slots and retries: first about flights, slots and waiters, whatever the *)
(* caches hold; then about what the caches hold and how long.              *)
(***************************************************************************)
EXTENDS Extraction, FiniteSetTheorems, SequenceTheorems, TLAPS

\* The outcome of a call is a record.
IsResult(r) == r = [status |-> r.status, value |-> r.value]

\* A call is a record of its ten fields.  What the caches hold, and so the values
\* of responses, need no type before the last part (Stocked).
IsCall(k) ==
  /\ k = [pc |-> k.pc, kind |-> k.kind, memo |-> k.memo, key |-> k.key,
          refresh |-> k.refresh, ctx |-> k.ctx, attempt |-> k.attempt, left |-> k.left,
          got |-> k.got, res |-> k.res]
  /\ IsResult(k.got) /\ IsResult(k.res)

Shaped == call = [c \in Callers |-> call[c]] /\ \A c \in Callers : IsCall(call[c])

\* Writing one field leaves a call a call and the other fields alone: its step,
LEMMA PcField ==
  ASSUME NEW k, IsCall(k), NEW x
  PROVE  LET n == [k EXCEPT !.pc = x] IN
         IsCall(n) /\ n.pc = x /\ n.kind = k.kind /\ n.memo = k.memo
         /\ n.key = k.key /\ n.ctx = k.ctx /\ n.got = k.got /\ n.res = k.res
  BY DEF IsCall

\* its kind,
LEMMA KindField ==
  ASSUME NEW k, IsCall(k), NEW x
  PROVE  LET n == [k EXCEPT !.kind = x] IN
         IsCall(n) /\ n.pc = k.pc /\ n.kind = x /\ n.memo = k.memo
         /\ n.key = k.key /\ n.ctx = k.ctx /\ n.got = k.got /\ n.res = k.res
  BY DEF IsCall

\* whether it asks for a fresh answer,
LEMMA RefreshField ==
  ASSUME NEW k, IsCall(k), NEW x
  PROVE  LET n == [k EXCEPT !.refresh = x] IN
         IsCall(n) /\ n.pc = k.pc /\ n.kind = k.kind /\ n.memo = k.memo
         /\ n.key = k.key /\ n.ctx = k.ctx /\ n.got = k.got /\ n.res = k.res
  BY DEF IsCall

\* its memo,
LEMMA MemoField ==
  ASSUME NEW k, IsCall(k), NEW x
  PROVE  LET n == [k EXCEPT !.memo = x] IN
         IsCall(n) /\ n.pc = k.pc /\ n.kind = k.kind /\ n.memo = x
         /\ n.key = k.key /\ n.ctx = k.ctx /\ n.got = k.got /\ n.res = k.res
  BY DEF IsCall

\* its key,
LEMMA KeyField ==
  ASSUME NEW k, IsCall(k), NEW x
  PROVE  LET n == [k EXCEPT !.key = x] IN
         IsCall(n) /\ n.pc = k.pc /\ n.kind = k.kind /\ n.memo = k.memo
         /\ n.key = x /\ n.ctx = k.ctx /\ n.got = k.got /\ n.res = k.res
  BY DEF IsCall

\* its context,
LEMMA CtxField ==
  ASSUME NEW k, IsCall(k), NEW x
  PROVE  LET n == [k EXCEPT !.ctx = x] IN
         IsCall(n) /\ n.pc = k.pc /\ n.kind = k.kind /\ n.memo = k.memo
         /\ n.key = k.key /\ n.ctx = x /\ n.got = k.got /\ n.res = k.res
  BY DEF IsCall

\* its attempts,
LEMMA AttemptField ==
  ASSUME NEW k, IsCall(k), NEW x
  PROVE  LET n == [k EXCEPT !.attempt = x] IN
         IsCall(n) /\ n.pc = k.pc /\ n.kind = k.kind /\ n.memo = k.memo
         /\ n.key = k.key /\ n.ctx = k.ctx /\ n.got = k.got /\ n.res = k.res
  BY DEF IsCall

\* its allowance,
LEMMA LeftField ==
  ASSUME NEW k, IsCall(k), NEW x
  PROVE  LET n == [k EXCEPT !.left = x] IN
         IsCall(n) /\ n.pc = k.pc /\ n.kind = k.kind /\ n.memo = k.memo
         /\ n.key = k.key /\ n.ctx = k.ctx /\ n.got = k.got /\ n.res = k.res
  BY DEF IsCall

\* what its flight told it,
LEMMA GotField ==
  ASSUME NEW k, IsCall(k), NEW x, IsResult(x)
  PROVE  LET n == [k EXCEPT !.got = x] IN
         IsCall(n) /\ n.pc = k.pc /\ n.kind = k.kind /\ n.memo = k.memo
         /\ n.key = k.key /\ n.ctx = k.ctx /\ n.got = x /\ n.res = k.res
  BY DEF IsCall

\* and its result.
LEMMA ResField ==
  ASSUME NEW k, IsCall(k), NEW x, IsResult(x)
  PROVE  LET n == [k EXCEPT !.res = x] IN
         IsCall(n) /\ n.pc = k.pc /\ n.kind = k.kind /\ n.memo = k.memo
         /\ n.key = k.key /\ n.ctx = k.ctx /\ n.got = k.got /\ n.res = x
  BY DEF IsCall

\* Results are results.
LEMMA Results ==
  /\ \A s, v : IsResult(Result(s, v)) /\ Result(s, v).status = s /\ Result(s, v).value = v
  /\ \A s : IsResult(Fails(s)) /\ Fails(s).status = s
  /\ IsResult(Nothing) /\ Nothing.status = "none"
  BY DEF IsResult, Result, Fails, Nothing

\* An idle call is one.
LEMMA IdleCall ==
  /\ IsCall(Idle) /\ Idle.pc = "idle" /\ Idle.memo = "none" /\ Idle.kind = "none"
  /\ Idle.ctx = "live" /\ Idle.got = Nothing /\ Idle.res = Nothing
  BY Results DEF IsCall, Idle

\* A call that is going to be made.
LEMMA AskingCall ==
  ASSUME NEW r
  PROVE  LET n == Asking(r) IN
         /\ IsCall(n) /\ n.pc = "new" /\ n.ctx = "live" /\ n.kind = r.kind
         /\ n.memo = (IF r.kind = "post" THEN "resolve" ELSE r.kind) /\ n.got = Nothing
<1> DEFINE n == Asking(r)
           m == IF r.kind = "post" THEN "resolve" ELSE r.kind
           k1 == [Idle EXCEPT !.pc = "new"]
           k2 == [k1 EXCEPT !.kind = r.kind]
           k3 == [k2 EXCEPT !.key = r.key]
           k4 == [k3 EXCEPT !.refresh = r.refresh]
           k5 == [k4 EXCEPT !.memo = m]
           k6 == [k5 EXCEPT !.left = Allowance]
<1>0. n = k6
  BY DEF Asking
<1> HIDE DEF m
<1>1. IsCall(k1) /\ k1.pc = "new" /\ k1.ctx = "live" /\ k1.got = Nothing
  BY IdleCall, PcField
<1> HIDE DEF k1
<1>2. IsCall(k2) /\ k2.pc = "new" /\ k2.ctx = "live" /\ k2.got = Nothing /\ k2.kind = r.kind
  BY <1>1, KindField
<1> HIDE DEF k2
<1>3. IsCall(k3) /\ k3.pc = "new" /\ k3.ctx = "live" /\ k3.got = Nothing /\ k3.kind = r.kind
  BY <1>2, KeyField
<1> HIDE DEF k3
<1>4. IsCall(k4) /\ k4.pc = "new" /\ k4.ctx = "live" /\ k4.got = Nothing /\ k4.kind = r.kind
  BY <1>3, RefreshField
<1> HIDE DEF k4
<1>5. IsCall(k5) /\ k5.pc = "new" /\ k5.ctx = "live" /\ k5.got = Nothing /\ k5.kind = r.kind
      /\ k5.memo = m
  BY <1>4, MemoField
<1> HIDE DEF k5
<1>6. IsCall(k6) /\ k6.pc = "new" /\ k6.ctx = "live" /\ k6.got = Nothing /\ k6.kind = r.kind
      /\ k6.memo = m
  BY <1>5, LeftField
<1> QED
  BY <1>0, <1>6 DEF m

\* memo.do has answered: the call is over, or goes on from a link to its post.
LEMMA AnsweredCall ==
  ASSUME NEW k, IsCall(k), NEW r, IsResult(r)
  PROVE  LET n == Answered(k, r)
             on == k.kind = "post" /\ k.memo = "resolve" /\ r.status = "ok" IN
         /\ IsCall(n) /\ n.got = Nothing
         /\ on => /\ n.pc = "enter" /\ n.memo = "posts" /\ n.kind = k.kind
                  /\ n.ctx = (IF k.ctx = "expired" THEN "live" ELSE k.ctx)
                  /\ n.res = Nothing
         /\ ~on => n.pc = "done" /\ n.ctx = k.ctx /\ n.res = Fails(r.status)
<1> DEFINE n == Answered(k, r)
           on == k.kind = "post" /\ k.memo = "resolve" /\ r.status = "ok"
<1>1. CASE on
  <2> DEFINE k1 == [k EXCEPT !.pc = "enter"]
             k2 == [k1 EXCEPT !.memo = "posts"]
             k3 == [k2 EXCEPT !.key = VideoOf[k.key]]
             k4 == [k3 EXCEPT !.ctx = IF k.ctx = "expired" THEN "live" ELSE k.ctx]
             k5 == [k4 EXCEPT !.attempt = 0]
             k6 == [k5 EXCEPT !.got = Nothing]
             k7 == [k6 EXCEPT !.res = Nothing]
  <2>1. IsCall(k1) /\ k1.pc = "enter" /\ k1.kind = k.kind
    BY PcField
  <2> HIDE DEF k1
  <2>2. IsCall(k2) /\ k2.pc = "enter" /\ k2.kind = k.kind /\ k2.memo = "posts"
    BY <2>1, MemoField
  <2> HIDE DEF k2
  <2>3. IsCall(k3) /\ k3.pc = "enter" /\ k3.kind = k.kind /\ k3.memo = "posts"
    BY <2>2, KeyField
  <2> HIDE DEF k3
  <2>4. IsCall(k4) /\ k4.pc = "enter" /\ k4.kind = k.kind /\ k4.memo = "posts"
        /\ k4.ctx = (IF k.ctx = "expired" THEN "live" ELSE k.ctx)
    BY <2>3, CtxField
  <2> HIDE DEF k4
  <2>5. IsCall(k5) /\ k5.pc = "enter" /\ k5.kind = k.kind /\ k5.memo = "posts"
        /\ k5.ctx = (IF k.ctx = "expired" THEN "live" ELSE k.ctx)
    BY <2>4, AttemptField
  <2> HIDE DEF k5
  <2>6. IsCall(k6) /\ k6.pc = "enter" /\ k6.kind = k.kind /\ k6.memo = "posts"
        /\ k6.ctx = (IF k.ctx = "expired" THEN "live" ELSE k.ctx) /\ k6.got = Nothing
    BY <2>5, GotField, Results
  <2> HIDE DEF k6
  <2>7. IsCall(k7) /\ k7.pc = "enter" /\ k7.kind = k.kind /\ k7.memo = "posts"
        /\ k7.ctx = (IF k.ctx = "expired" THEN "live" ELSE k.ctx) /\ k7.got = Nothing
        /\ k7.res = Nothing
    BY <2>6, ResField, Results
  <2>8. n = k7
    BY <1>1 DEF Answered, k1, k2, k3, k4, k5, k6, IsCall
  <2> QED
    BY <1>1, <2>7, <2>8
<1>2. CASE ~on
  <2> DEFINE k1 == [Idle EXCEPT !.pc = "done"]
             k2 == [k1 EXCEPT !.ctx = k.ctx]
             k3 == [k2 EXCEPT !.res = Fails(r.status)]
  <2>1. IsCall(k1) /\ k1.pc = "done" /\ k1.got = Nothing
    BY PcField, IdleCall
  <2> HIDE DEF k1
  <2>2. IsCall(k2) /\ k2.pc = "done" /\ k2.ctx = k.ctx /\ k2.got = Nothing
    BY <2>1, CtxField
  <2> HIDE DEF k2
  <2>3. IsCall(k3) /\ k3.pc = "done" /\ k3.ctx = k.ctx /\ k3.res = Fails(r.status)
        /\ k3.got = Nothing
    BY <2>2, ResField, Results
  <2>4. n = k3
    BY <1>2 DEF Answered, k1, k2
  <2> QED
    BY <1>2, <2>3, <2>4
<1> QED
  BY <1>1, <1>2

\* A call whose flight starts is at the first step of its fn.
LEMMA StartedCall ==
  ASSUME NEW k, IsCall(k)
  PROVE  LET n == Started(k) IN
         /\ IsCall(n) /\ n.kind = k.kind /\ n.memo = k.memo /\ n.key = k.key
         /\ n.ctx = k.ctx /\ n.got = k.got
         /\ n.pc \in {"finish", "reuse", "app", "gate"}
         /\ n.pc = "finish" => n.res.status = "ok"
         /\ n.pc = "app" => n.memo = "instagram"
         /\ n.res = k.res \/ n.res = Result("ok", NoValue)
<1> DEFINE n == Started(k)
<1>1. CASE k.memo = "resolve" /\ k.key \in DirectLinks
  <2> DEFINE k1 == [k EXCEPT !.pc = "finish"]
             k2 == [k1 EXCEPT !.res = Result("ok", NoValue)]
  <2>1. IsCall(k1) /\ k1.pc = "finish" /\ k1.kind = k.kind /\ k1.memo = k.memo
        /\ k1.key = k.key /\ k1.ctx = k.ctx /\ k1.got = k.got
    BY PcField
  <2> HIDE DEF k1
  <2>2. IsCall(k2) /\ k2.pc = "finish" /\ k2.kind = k.kind /\ k2.memo = k.memo
        /\ k2.key = k.key /\ k2.ctx = k.ctx /\ k2.got = k.got
        /\ k2.res = Result("ok", NoValue)
    BY <2>1, ResField, Results
  <2>3. n = k2
    BY <1>1 DEF Started, k1
  <2> QED
    BY <2>2, <2>3, Results
<1>2. CASE ~(k.memo = "resolve" /\ k.key \in DirectLinks)
  <2> DEFINE p == CASE k.memo = "music" -> "reuse"
                    [] k.memo = "instagram" -> "app"
                    [] OTHER -> "gate"
  <2>1. n = [k EXCEPT !.pc = p]
    BY <1>2 DEF Started
  <2>2. p \in {"reuse", "app", "gate"} /\ (p = "app" => k.memo = "instagram")
    OBVIOUS
  <2> HIDE DEF p
  <2> QED
    BY <2>1, <2>2, PcField
<1> QED
  BY <1>1, <1>2

-----------------------------------------------------------------------------
(* Queues *)

In(c, q) == \E i \in 1..Len(q) : q[i] = c
OneEach(q) == \A i, j \in 1..Len(q) : q[i] = q[j] => i = j

\* A caller joins a queue at its end.
LEMMA Joins ==
  ASSUME NEW S, NEW q \in Seq(S), NEW c \in S, OneEach(q), ~In(c, q)
  PROVE  /\ Append(q, c) \in Seq(S) /\ OneEach(Append(q, c)) /\ Append(q, c) # <<>>
         /\ \A d : In(d, Append(q, c)) <=> In(d, q) \/ d = c
<1> DEFINE r == Append(q, c)
<1>1. Len(q) \in Nat /\ r \in Seq(S) /\ Len(r) = Len(q) + 1
  OBVIOUS
<1>2. \A i \in 1..Len(q) : r[i] = q[i]
  OBVIOUS
<1>3. r[Len(q) + 1] = c
  OBVIOUS
<1> HIDE DEF r
<1>4. OneEach(r)
  BY <1>1, <1>2, <1>3 DEF OneEach, In
<1>5. \A d : In(d, r) <=> In(d, q) \/ d = c
  <2> TAKE d
  <2>1. ASSUME In(d, r) PROVE In(d, q) \/ d = c
    BY <1>1, <1>2, <1>3, <2>1 DEF In
  <2>2. ASSUME In(d, q) PROVE In(d, r)
    BY <1>1, <1>2, <2>2 DEF In
  <2>3. ASSUME d = c PROVE In(d, r)
    BY <1>1, <1>3, <2>3 DEF In
  <2> QED
    BY <2>1, <2>2, <2>3
<1>6. r # <<>>
  BY <1>1
<1> QED
  BY <1>1, <1>4, <1>5, <1>6 DEF r

\* A caller leaves a queue, from wherever it stands.
LEMMA Drops ==
  ASSUME NEW S, NEW q \in Seq(S), OneEach(q), NEW i \in 1..Len(q)
  PROVE  /\ RemoveAt(q, i) \in Seq(S) /\ OneEach(RemoveAt(q, i))
         /\ \A d : In(d, RemoveAt(q, i)) <=> In(d, q) /\ d # q[i]
<1> DEFINE s == SubSeq(q, 1, i - 1)
           t == SubSeq(q, i + 1, Len(q))
           r == RemoveAt(q, i)
<1>1. Len(q) \in Nat /\ i \in Nat /\ 1 <= i /\ i <= Len(q)
  OBVIOUS
<1>2. s \in Seq(S) /\ Len(s) = i - 1 /\ \A j \in 1..(i - 1) : s[j] = q[j]
  BY <1>1
<1>3. t \in Seq(S) /\ Len(t) = Len(q) - i /\ \A j \in 1..(Len(q) - i) : t[j] = q[i + j]
  BY <1>1
<1>4. r = s \o t
  BY DEF RemoveAt
<1> HIDE DEF s, t, r
<1>5. r \in Seq(S) /\ Len(r) = Len(q) - 1
  BY <1>1, <1>2, <1>3, <1>4
<1>6. \A j \in 1..Len(r) : r[j] = IF j < i THEN q[j] ELSE q[j + 1]
  <2> TAKE j \in 1..Len(r)
  <2>1. CASE j < i
    BY <1>1, <1>2, <1>3, <1>4, <1>5, <2>1
  <2>2. CASE ~(j < i)
    <3>1. r[j] = t[j - (i - 1)]
      BY <1>1, <1>2, <1>3, <1>4, <1>5, <2>2
    <3>2. j - (i - 1) \in 1..(Len(q) - i) /\ i + (j - (i - 1)) = j + 1
      BY <1>1, <1>5, <2>2
    <3> QED
      BY <1>3, <2>2, <3>1, <3>2
  <2> QED
    BY <2>1, <2>2
<1>7. OneEach(r)
  <2> SUFFICES ASSUME NEW j \in 1..Len(r), NEW k \in 1..Len(r), r[j] = r[k] PROVE j = k
    BY DEF OneEach
  <2> DEFINE u == IF j < i THEN j ELSE j + 1
             v == IF k < i THEN k ELSE k + 1
  <2>1. u \in 1..Len(q) /\ v \in 1..Len(q) /\ q[u] = r[j] /\ q[v] = r[k]
    BY <1>1, <1>5, <1>6
  <2>2. u = v
    BY <2>1 DEF OneEach
  <2> QED
    BY <1>1, <1>5, <2>2
<1>8. ASSUME NEW d, In(d, r) PROVE In(d, q) /\ d # q[i]
  BY <1>1, <1>5, <1>6, <1>8 DEF In, OneEach
<1>9. ASSUME NEW d, In(d, q), d # q[i] PROVE In(d, r)
  <2>1. PICK j \in 1..Len(q) : q[j] = d
    BY <1>9 DEF In
  <2>2. CASE j < i
    <3>1. j \in 1..Len(r) /\ r[j] = d
      BY <1>1, <1>5, <1>6, <2>1, <2>2
    <3> QED
      BY <3>1 DEF In
  <2>3. CASE ~(j < i)
    <3>1. j - 1 \in 1..Len(r) /\ ~(j - 1 < i) /\ (j - 1) + 1 = j
      BY <1>1, <1>5, <1>9, <2>1, <2>3
    <3>2. r[j - 1] = d
      BY <1>6, <2>1, <3>1
    <3> QED
      BY <3>1, <3>2 DEF In
  <2> QED
    BY <2>2, <2>3
<1> QED
  BY <1>5, <1>7, <1>8, <1>9 DEF r

\* The longest waiting caller is served.
LEMMA Served ==
  ASSUME NEW S, NEW q \in Seq(S), OneEach(q), q # <<>>
  PROVE  /\ Tail(q) \in Seq(S) /\ OneEach(Tail(q)) /\ Head(q) \in S /\ In(Head(q), q)
         /\ \A d : In(d, Tail(q)) <=> In(d, q) /\ d # Head(q)
<1>1. Len(q) \in Nat /\ Len(q) >= 1 /\ Head(q) = q[1] /\ q[1] \in S
  OBVIOUS
<1>2. Tail(q) \in Seq(S) /\ Len(Tail(q)) = Len(q) - 1
      /\ \A j \in 1..(Len(q) - 1) : Tail(q)[j] = q[j + 1]
  OBVIOUS
<1> DEFINE r == Tail(q)
<1> HIDE DEF r
<1>3. r \in Seq(S) /\ Len(r) = Len(q) - 1 /\ \A j \in 1..(Len(q) - 1) : r[j] = q[j + 1]
  BY <1>2 DEF r
<1>4. OneEach(r)
  BY <1>1, <1>3 DEF OneEach
<1>5. ASSUME NEW d, In(d, r) PROVE In(d, q) /\ d # q[1]
  BY <1>1, <1>3, <1>5 DEF In, OneEach
<1>6. ASSUME NEW d, In(d, q), d # q[1] PROVE In(d, r)
  <2>1. PICK j \in 1..Len(q) : q[j] = d
    BY <1>6 DEF In
  <2>2. j - 1 \in 1..Len(r) /\ r[j - 1] = d
    BY <1>1, <1>3, <1>6, <2>1
  <2> QED
    BY <2>2 DEF In
<1>7. In(Head(q), q)
  BY <1>1 DEF In
<1> QED
  BY <1>1, <1>3, <1>4, <1>5, <1>6, <1>7 DEF r

-----------------------------------------------------------------------------
(* The inductive invariant *)

\* The call has a flight of its own; it has a slot of its limiter; it is counted
\* among those that wait for one.
Busy(k) == k.pc \notin {"idle", "new", "enter", "wait", "done"}
Holds(k) == k.pc \in {"fetch", "granted"} \/ (k.pc = "sleep" /\ k.memo # "instagram")

Waits(k) == k.pc \in {"overfull", "select", "queued", "granted", "gaveup"}

\* An error that tells of a context tells of the call's own.
Honest(status, ctx) ==
  /\ status = "cancelled" => ctx = "cancelled"
  /\ status = "timeout" => ctx = "expired"
  /\ status # "abandoned"

\* What is true of each call by itself.  Only a resolution has a deadline, and no
\* flight tells its followers of its leader's context.
Own(k) ==
  /\ k.pc \notin {"idle", "done"} => k.memo \in Memos
  /\ k.pc = "app" => k.memo = "instagram"
  /\ k.ctx \in {"live", "cancelled", "expired"}
  /\ k.pc # "done" /\ k.memo # "resolve" => k.ctx # "expired"
  /\ k.pc \in {"finish", "done"} => Honest(k.res.status, k.ctx)
  /\ k.pc = "gaveup" => k.ctx # "live"
  /\ k.got.status \notin {"cancelled", "timeout"}
Owned == \A c \in Callers : Own(call[c])

\* Every flight has one leader, and every call upstream a flight.
Flying ==
  /\ flights = [m \in Memos |-> flights[m]]
  /\ \A c \in Callers : Busy(call[c]) => call[c].key \in flights[call[c].memo]
  /\ \A c, d \in Callers :
       /\ Busy(call[c]) /\ Busy(call[d])
       /\ call[c].memo = call[d].memo /\ call[c].key = call[d].key
       => c = d
  /\ \A m \in Memos : \A k \in flights[m] :
       \E c \in Callers : Busy(call[c]) /\ call[c].memo = m /\ call[c].key = k

\* A limiter counts the calls that hold its slots.
Holders(g) == {c \in Callers : Holds(call[c]) /\ LimiterOf(call[c].memo) = g}
Seated ==
  /\ slots \in [Limiters -> 0..Concurrency]
  /\ \A g \in Limiters : IsFiniteSet(Holders(g)) /\ slots[g] = Cardinality(Holders(g))

\* Each caller that waits stands in its limiter's queue, once, and only while no
\* slot is free.
Lined ==
  /\ queue \in [Limiters -> Seq(Callers)]
  /\ \A g \in Limiters :
       /\ OneEach(queue[g])
       /\ \A c \in Callers : In(c, queue[g])
            <=> call[c].pc = "queued" /\ LimiterOf(call[c].memo) = g
       /\ queue[g] # <<>> => slots[g] = Concurrency

\* A limiter also counts the callers between waiting.Add(1) and waiting.Add(-1),
\* of which at most MaxQueue were not refused.
Waiters(g) == {c \in Callers : Waits(call[c]) /\ LimiterOf(call[c].memo) = g}
Allowed(g) == {c \in Waiters(g) : call[c].pc # "overfull"}
Tallied ==
  /\ waiting \in [Limiters -> Nat]
  /\ \A g \in Limiters : /\ IsFiniteSet(Waiters(g)) /\ waiting[g] = Cardinality(Waiters(g))
                          /\ Cardinality(Allowed(g)) <= MaxQueue

Core == Shaped /\ Owned /\ Flying /\ Seated /\ Lined
IInv == Core /\ Tallied

\* Facts about the constants.
LEMMA Sizes == Concurrency \in Nat \ {0} /\ MaxQueue \in Nat \ {0}
  BY ExtractionAssumption

\* Every memo has a limiter.
LEMMA LimiterFacts ==
  ASSUME NEW m \in Memos
  PROVE  LimiterOf(m) \in Limiters /\ (LimiterOf(m) = "instagram" <=> m = "instagram")
  BY DEF Memos, Limiters, LimiterOf

\* The first states satisfy the invariant.
LEMMA InitInv == Init => IInv
<1> SUFFICES ASSUME Init PROVE IInv
  OBVIOUS
<1>1. PICK s \in Scenarios :
        call = [c \in Callers |-> IF c \in DOMAIN s THEN Asking(s[c]) ELSE Idle]
  BY DEF Init
<1>2. ASSUME NEW c \in Callers
      PROVE  IsCall(call[c]) /\ Own(call[c]) /\ call[c].pc \in {"idle", "new"}
  <2>1. CASE c \notin DOMAIN s
    BY <1>1, <2>1, IdleCall, Results DEF Own
  <2>2. CASE c \in DOMAIN s
    <3> DEFINE r == s[c]
               n == Asking(r)
    <3>1. r \in RequestType
      BY <2>2, ExtractionAssumption
    <3>2. r.kind \in {"resolve", "post", "music", "instagram"}
      BY <3>1 DEF RequestType
    <3> HIDE DEF r
    <3>3. IsCall(n) /\ n.pc = "new" /\ n.ctx = "live" /\ n.got = Nothing
          /\ n.memo = IF r.kind = "post" THEN "resolve" ELSE r.kind
      BY AskingCall
    <3>4. call[c] = n
      BY <1>1, <2>2 DEF r
    <3> HIDE DEF n
    <3>5. n.memo \in Memos
      BY <3>2, <3>3 DEF Memos
    <3> QED
      BY <3>3, <3>4, <3>5, Results DEF Own
  <2> QED
    BY <2>1, <2>2
<1>3. Shaped
  BY <1>1, <1>2 DEF Shaped
<1>4. Owned
  BY <1>2 DEF Owned
<1>5. Flying
  BY <1>2 DEF Flying, Busy, Init
<1>6. Seated
  <2>1. \A g \in Limiters : Holders(g) = {}
    BY <1>2 DEF Holders, Holds
  <2>2. slots = [g \in Limiters |-> 0] /\ 0 \in 0..Concurrency
    BY Sizes DEF Init
  <2> QED
    BY <2>1, <2>2, FS_EmptySet DEF Seated
<1>7. Lined
  <2>1. queue = [g \in Limiters |-> <<>>]
    BY DEF Init
  <2>2. \A g \in Limiters : Len(queue[g]) = 0 /\ queue[g] = <<>> /\ queue[g] \in Seq(Callers)
    BY <2>1
  <2>3. \A g \in Limiters : \A c \in Callers : ~In(c, queue[g])
    BY <2>2 DEF In
  <2>4. \A g \in Limiters : OneEach(queue[g])
    BY <2>2 DEF OneEach
  <2>5. queue \in [Limiters -> Seq(Callers)]
    BY <2>1, <2>2
  <2> QED
    BY <1>2, <2>2, <2>3, <2>4, <2>5 DEF Lined
<1>8. Tallied
  <2>1. \A g \in Limiters : Waiters(g) = {} /\ Allowed(g) = {}
    BY <1>2 DEF Waiters, Allowed, Waits
  <2>2. waiting = [g \in Limiters |-> 0]
    BY DEF Init
  <2> QED
    BY <2>1, <2>2, FS_EmptySet, Sizes DEF Tallied
<1> QED
  BY <1>3, <1>4, <1>5, <1>6, <1>7, <1>8 DEF IInv, Core

-----------------------------------------------------------------------------
(* What a step may leave as it is *)

\* One call moves on.
LEMMA Turn ==
  ASSUME Shaped, Owned, NEW c \in Callers, NEW n, IsCall(n), Own(n),
         call' = [call EXCEPT ![c] = n]
  PROVE  /\ Shaped' /\ Owned' /\ call'[c] = n
         /\ \A d \in Callers : d # c => call'[d] = call[d]
  BY DEF Shaped, Owned

\* The calls upstream are the same, for the same keys.
SameFlights ==
  /\ flights' = flights
  /\ \A d \in Callers :
       /\ Busy(call'[d]) <=> Busy(call[d])
       /\ Busy(call[d]) => call'[d].memo = call[d].memo /\ call'[d].key = call[d].key

\* A step that leaves them alone keeps the flights as they are.
LEMMA FlightsKept == Flying /\ SameFlights => Flying'
  BY DEF Flying, SameFlights

\* The same calls hold slots.
SameHolders ==
  \A d \in Callers :
     /\ Holds(call'[d]) <=> Holds(call[d])
     /\ Holds(call[d]) => call'[d].memo = call[d].memo

\* A step that leaves them alone keeps the holders of every limiter.
LEMMA HoldersKept == SameHolders => \A g : Holders(g)' = Holders(g)
  BY DEF SameHolders, Holders

\* The same calls wait for one.
SameQueued ==
  \A d \in Callers :
     /\ call'[d].pc = "queued" <=> call[d].pc = "queued"
     /\ call[d].pc = "queued" => call'[d].memo = call[d].memo

\* Whoever holds a slot, or waits for one, is busy for a memo.
LEMMA BusyFacts ==
  ASSUME Owned, NEW c \in Callers
  PROVE  /\ Holds(call[c]) \/ call[c].pc = "queued" => Busy(call[c])
         /\ Busy(call[c]) => call[c].memo \in Memos
  BY DEF Holds, Busy, Owned, Own

\* The same calls are counted among those that wait.
SameWaiters ==
  \A d \in Callers :
     /\ Waits(call'[d]) <=> Waits(call[d])
     /\ Waits(call[d]) => call'[d].memo = call[d].memo
     /\ call'[d].pc = "overfull" <=> call[d].pc = "overfull"

\* Then the count of them stays right.
LEMMA TallyKept == Tallied /\ SameWaiters /\ UNCHANGED waiting => Tallied'
<1> SUFFICES ASSUME Tallied, SameWaiters, UNCHANGED waiting PROVE Tallied'
  OBVIOUS
<1>1. \A g \in Limiters : Waiters(g)' = Waiters(g) /\ Allowed(g)' = Allowed(g)
  BY DEF SameWaiters, Waiters, Allowed
<1> QED
  BY <1>1 DEF Tallied

\* A step of calls that keep their flights, slots and places in the queue.
Quiet(k, n) ==
  /\ Busy(n) <=> Busy(k)
  /\ Busy(k) => /\ n.memo = k.memo /\ n.key = k.key
                /\ Holds(n) <=> Holds(k)
                /\ n.pc = "queued" <=> k.pc = "queued"

\* Such steps keep all but the count of those that wait.
LEMMA QuietKeeps ==
  ASSUME Core, Shaped', Owned', UNCHANGED <<flights, slots, queue>>,
         \A d \in Callers : Quiet(call[d], call'[d])
  PROVE  Core'
<1> USE DEF Core
<1>1. \A d \in Callers : (Holds(call[d]) => Busy(call[d])) /\ (Holds(call'[d]) => Busy(call'[d]))
                         /\ (call[d].pc = "queued" => Busy(call[d]))
                         /\ (call'[d].pc = "queued" => Busy(call'[d]))
  BY DEF Holds, Busy
<1>2. SameFlights /\ SameHolders /\ SameQueued
  BY <1>1 DEF SameFlights, SameHolders, SameQueued, Quiet
<1>3. Flying'
  BY <1>2, FlightsKept
<1>4. Seated'
  BY <1>2, HoldersKept DEF Seated
<1>5. Lined'
  BY <1>2 DEF Lined, SameQueued
<1> QED
  BY <1>3, <1>4, <1>5

\* One call moves on, and is counted or not.
LEMMA QuietTurn ==
  ASSUME Core, NEW c \in Callers, NEW n, IsCall(n), Own(n), Quiet(call[c], n),
         call' = [call EXCEPT ![c] = n], UNCHANGED <<flights, slots, queue>>
  PROVE  /\ Core' /\ call'[c] = n
         /\ \A d \in Callers : d # c => call'[d] = call[d]
<1>1. /\ Shaped' /\ Owned' /\ call'[c] = n
      /\ \A d \in Callers : d # c => call'[d] = call[d]
  BY Turn DEF Core
<1>2. \A d \in Callers : Quiet(call[d], call'[d])
  BY <1>1 DEF Quiet
<1> QED
  BY <1>1, <1>2, QuietKeeps

\* Most of them keep that too.
Calm(k, n) ==
  /\ Quiet(k, n)
  /\ Busy(k) => (Waits(n) <=> Waits(k)) /\ (n.pc = "overfull" <=> k.pc = "overfull")

\* These keep the invariant.
LEMMA CalmKeeps ==
  ASSUME IInv, Shaped', Owned', UNCHANGED <<flights, slots, queue, waiting>>,
         \A d \in Callers : Calm(call[d], call'[d])
  PROVE  IInv'
<1>1. Core'
  BY QuietKeeps DEF IInv, Calm
<1>2. \A d \in Callers : (Waits(call[d]) => Busy(call[d])) /\ (Waits(call'[d]) => Busy(call'[d]))
                         /\ (call[d].pc = "overfull" => Busy(call[d]))
                         /\ (call'[d].pc = "overfull" => Busy(call'[d]))
  BY DEF Waits, Busy
<1>3. SameWaiters
  BY <1>2 DEF SameWaiters, Calm, Quiet
<1> QED
  BY <1>1, <1>3, TallyKept DEF IInv

\* One call moves on, calmly.
LEMMA CalmTurn ==
  ASSUME IInv, NEW c \in Callers, NEW n, IsCall(n), Own(n), Calm(call[c], n),
         call' = [call EXCEPT ![c] = n], UNCHANGED <<flights, slots, queue, waiting>>
  PROVE  IInv'
<1>1. /\ Shaped' /\ Owned' /\ call'[c] = n
      /\ \A d \in Callers : d # c => call'[d] = call[d]
  BY Turn DEF IInv, Core
<1>2. \A d \in Callers : Calm(call[d], call'[d])
  BY <1>1 DEF Calm, Quiet
<1> QED
  BY <1>1, <1>2, CalmKeeps

-----------------------------------------------------------------------------
(* Flights and slots begin and end *)

\* A flight starts.
LEMMA StartKeeps ==
  ASSUME IInv, NEW c \in Callers, NEW n, IsCall(n), Own(n), call' = [call EXCEPT ![c] = n],
         ~Busy(call[c]), Busy(n), ~Holds(n), ~Waits(n),
         n.key \notin flights[n.memo],
         flights' = [flights EXCEPT ![n.memo] = @ \cup {n.key}],
         UNCHANGED <<slots, queue, waiting>>
  PROVE  IInv'
<1> USE DEF IInv, Core
<1>1. /\ Shaped' /\ Owned' /\ call'[c] = n
      /\ \A d \in Callers : d # c => call'[d] = call[d]
  BY Turn
<1>2. /\ n.memo \in Memos /\ ~Holds(call[c]) /\ call[c].pc # "queued" /\ n.pc # "queued"
      /\ ~Waits(call[c]) /\ call[c].pc # "overfull" /\ n.pc # "overfull"
  BY DEF Own, Busy, Holds, Waits
<1>3. Flying'
  <2> DEFINE m == n.memo
             k == n.key
  <2>1. /\ flights'[m] = flights[m] \cup {k} /\ \A o \in Memos : o # m => flights'[o] = flights[o]
        /\ flights' = [o \in Memos |-> flights'[o]]
    BY <1>2 DEF Flying
  <2>2. \A d \in Callers : Busy(call[d]) => d # c /\ call[d].memo \in Memos
                                            /\ (call[d].memo = m => call[d].key # k)
    BY DEF Flying, Owned, Own, Busy
  <2>3. \A d \in Callers : Busy(call'[d]) => call'[d].key \in flights'[call'[d].memo]
    <3> SUFFICES ASSUME NEW d \in Callers, Busy(call'[d])
                 PROVE  call'[d].key \in flights'[call'[d].memo]
      OBVIOUS
    <3>1. CASE d = c
      BY <1>1, <2>1, <3>1
    <3>2. CASE d # c
      <4>1. call'[d] = call[d] /\ Busy(call[d])
        BY <1>1, <3>2
      <4>2. call[d].key \in flights[call[d].memo] /\ call[d].memo \in Memos
        BY <2>2, <4>1 DEF Flying
      <4> QED
        BY <2>1, <4>1, <4>2
    <3> QED
      BY <3>1, <3>2
  <2>4. \A a, d \in Callers :
           /\ Busy(call'[a]) /\ Busy(call'[d])
           /\ call'[a].memo = call'[d].memo /\ call'[a].key = call'[d].key
           => a = d
    BY <1>1, <2>2 DEF Flying
  <2>5. ASSUME NEW o \in Memos, NEW x \in flights'[o]
         PROVE  \E a \in Callers : Busy(call'[a]) /\ call'[a].memo = o /\ call'[a].key = x
    <3>1. CASE o = m /\ x = k
      BY <1>1, <3>1
    <3>2. CASE ~(o = m /\ x = k)
      <4>1. x \in flights[o]
        BY <2>1, <2>5, <3>2
      <4>2. PICK a \in Callers : Busy(call[a]) /\ call[a].memo = o /\ call[a].key = x
        BY <4>1 DEF Flying
      <4> QED
        BY <1>1, <2>2, <4>2
    <3> QED
      BY <3>1, <3>2
  <2> QED
    BY <2>1, <2>3, <2>4, <2>5 DEF Flying
<1>4. SameHolders /\ SameQueued
  BY <1>1, <1>2 DEF SameHolders, SameQueued
<1>5. Seated'
  BY <1>4, HoldersKept DEF Seated
<1>6. Lined'
  BY <1>4 DEF Lined, SameQueued
<1>7. SameWaiters
  BY <1>1, <1>2 DEF SameWaiters
<1>8. Tallied'
  BY <1>7, TallyKept
<1> QED
  BY <1>1, <1>3, <1>5, <1>6, <1>8

\* A call gets a slot that is free.
LEMMA TakeKeeps ==
  ASSUME IInv, NEW c \in Callers, NEW n, IsCall(n), Own(n), call' = [call EXCEPT ![c] = n],
         <<call[c].pc, n.pc>> \in {<<"gate", "fetch">>, <<"select", "granted">>},
         n.memo = call[c].memo, n.key = call[c].key,
         slots[LimiterOf(n.memo)] # Concurrency,
         slots' = [slots EXCEPT ![LimiterOf(n.memo)] = @ + 1],
         UNCHANGED <<flights, queue, waiting>>
  PROVE  IInv'
<1> USE DEF IInv, Core
<1> DEFINE g == LimiterOf(n.memo)
<1>0. /\ Busy(call[c]) /\ ~Holds(call[c]) /\ call[c].pc # "queued" /\ call[c].pc # "overfull"
      /\ Busy(n) /\ Holds(n) /\ n.pc # "queued" /\ n.pc # "overfull" /\ (Waits(n) <=> Waits(call[c]))
  BY DEF Busy, Holds, Waits
<1>1. /\ Shaped' /\ Owned' /\ call'[c] = n
      /\ \A d \in Callers : d # c => call'[d] = call[d]
  BY Turn
<1>2. g \in Limiters
  BY <1>0, LimiterFacts DEF Own, Busy
<1>3. SameFlights /\ SameQueued /\ SameWaiters
  BY <1>0, <1>1 DEF SameFlights, SameQueued, SameWaiters
<1>4. Flying'
  BY <1>3, FlightsKept
<1>5. Holders(g)' = Holders(g) \cup {c} /\ c \notin Holders(g)
      /\ \A h : h # g => Holders(h)' = Holders(h)
  BY <1>0, <1>1 DEF Holders
<1>6. slots[g] \in 0..Concurrency /\ slots'[g] = slots[g] + 1 /\ \A h \in Limiters : h # g => slots'[h] = slots[h]
  BY <1>2 DEF Seated
<1> HIDE DEF g
<1>7. slots[g] + 1 \in 0..Concurrency
  BY <1>6, Sizes DEF g
<1>8. slots' \in [Limiters -> 0..Concurrency]
  BY <1>2, <1>6, <1>7 DEF Seated, g
<1>9. IsFiniteSet(Holders(g)') /\ Cardinality(Holders(g)') = Cardinality(Holders(g)) + 1
  BY <1>2, <1>5, FS_AddElement DEF Seated
<1>10. Seated'
  BY <1>2, <1>5, <1>6, <1>8, <1>9 DEF Seated
<1>11. Lined'
  <2>1. queue[g] = <<>>
    BY <1>2 DEF Lined, g
  <2> QED
    BY <1>2, <1>3, <1>6, <2>1 DEF Lined, SameQueued
<1>12. Tallied'
  BY <1>3, TallyKept
<1> QED
  BY <1>1, <1>4, <1>10, <1>11, <1>12

\* A call joins the queue of a limiter that has no slot free.
LEMMA QueueKeeps ==
  ASSUME IInv, NEW c \in Callers, NEW n, IsCall(n), Own(n), call' = [call EXCEPT ![c] = n],
         call[c].pc = "select", n.pc = "queued", n.memo = call[c].memo, n.key = call[c].key,
         slots[LimiterOf(n.memo)] = Concurrency,
         queue' = [queue EXCEPT ![LimiterOf(n.memo)] = Append(@, c)],
         UNCHANGED <<flights, slots, waiting>>
  PROVE  IInv'
<1> USE DEF IInv, Core
<1> DEFINE g == LimiterOf(n.memo)
<1>1. /\ Shaped' /\ Owned' /\ call'[c] = n
      /\ \A d \in Callers : d # c => call'[d] = call[d]
  BY Turn
<1>2. g \in Limiters /\ Busy(n) /\ ~Holds(n) /\ Busy(call[c]) /\ ~Holds(call[c])
      /\ Waits(n) /\ Waits(call[c])
  BY LimiterFacts DEF Own, Busy, Holds, Waits
<1>3. SameFlights /\ SameHolders /\ SameWaiters
  BY <1>1, <1>2 DEF SameFlights, SameHolders, SameWaiters
<1>4. Flying' /\ Seated' /\ Tallied'
  BY <1>3, FlightsKept, HoldersKept, TallyKept DEF Seated
<1>5. queue[g] \in Seq(Callers) /\ OneEach(queue[g]) /\ ~In(c, queue[g])
  BY <1>2 DEF Lined
<1>6. queue'[g] = Append(queue[g], c) /\ \A h \in Limiters : h # g => queue'[h] = queue[h]
  BY <1>2 DEF Lined
<1>7. queue'[g] \in Seq(Callers) /\ OneEach(queue'[g]) /\ \A d : In(d, queue'[g]) <=> In(d, queue[g]) \/ d = c
  BY <1>5, <1>6, Joins
<1>8. queue' \in [Limiters -> Seq(Callers)]
  BY <1>2, <1>6, <1>7 DEF Lined
<1>9. slots'[g] = Concurrency
  OBVIOUS
<1> HIDE DEF g
<1>10. ASSUME NEW h \in Limiters
       PROVE  /\ OneEach(queue'[h]) /\ (queue'[h] # <<>> => slots'[h] = Concurrency)
              /\ \A d \in Callers : In(d, queue'[h])
                   <=> call'[d].pc = "queued" /\ LimiterOf(call'[d].memo) = h
  <2>1. CASE h = g
    BY <1>1, <1>7, <1>9, <2>1 DEF Lined, g
  <2>2. CASE h # g
    BY <1>1, <1>6, <2>2 DEF Lined, g
  <2> QED
    BY <2>1, <2>2
<1>11. Lined'
  BY <1>8, <1>10 DEF Lined
<1> QED
  BY <1>1, <1>4, <1>11

\* A call whose context ended leaves the queue.
LEMMA LeaveKeeps ==
  ASSUME IInv, NEW c \in Callers, NEW n, IsCall(n), Own(n), call' = [call EXCEPT ![c] = n],
         call[c].pc = "queued", n.pc = "gaveup",
         n.memo = call[c].memo, n.key = call[c].key,
         queue' = [queue EXCEPT ![LimiterOf(n.memo)] = LeaveQueue(LimiterOf(n.memo), c)],
         UNCHANGED <<flights, slots, waiting>>
  PROVE  IInv'
<1> USE DEF IInv, Core
<1> DEFINE g == LimiterOf(n.memo)
           i == CHOOSE j \in DOMAIN queue[g] : queue[g][j] = c
<1>1. /\ Shaped' /\ Owned' /\ call'[c] = n
      /\ \A d \in Callers : d # c => call'[d] = call[d]
  BY Turn
<1>2. g \in Limiters /\ Busy(n) /\ ~Holds(n) /\ Busy(call[c]) /\ ~Holds(call[c])
      /\ Waits(n) /\ Waits(call[c])
  BY LimiterFacts DEF Own, Busy, Holds, Waits
<1>3. SameFlights /\ SameHolders /\ SameWaiters
  BY <1>1, <1>2 DEF SameFlights, SameHolders, SameWaiters
<1>4. Flying' /\ Seated' /\ Tallied'
  BY <1>3, FlightsKept, HoldersKept, TallyKept DEF Seated
<1>5. queue[g] \in Seq(Callers) /\ OneEach(queue[g]) /\ In(c, queue[g])
  BY <1>2 DEF Lined
<1>6. i \in 1..Len(queue[g]) /\ queue[g][i] = c
  BY <1>5 DEF In
<1>7. queue'[g] = RemoveAt(queue[g], i) /\ \A h \in Limiters : h # g => queue'[h] = queue[h]
  BY <1>2 DEF Lined, LeaveQueue
<1> HIDE DEF i
<1>8. queue'[g] \in Seq(Callers) /\ OneEach(queue'[g]) /\ \A d : In(d, queue'[g]) <=> In(d, queue[g]) /\ d # c
  BY <1>5, <1>6, <1>7, Drops
<1>9. queue' \in [Limiters -> Seq(Callers)]
  BY <1>2, <1>7, <1>8 DEF Lined
<1>10. slots'[g] = Concurrency
  <2>1. Len(queue[g]) # 0
    BY <1>5, <1>6
  <2> QED
    BY <1>2, <2>1 DEF Lined
<1> HIDE DEF g
<1>11. ASSUME NEW h \in Limiters
       PROVE  /\ OneEach(queue'[h]) /\ (queue'[h] # <<>> => slots'[h] = Concurrency)
              /\ \A d \in Callers : In(d, queue'[h])
                   <=> call'[d].pc = "queued" /\ LimiterOf(call'[d].memo) = h
  <2>1. CASE h = g
    BY <1>1, <1>8, <1>10, <2>1 DEF Lined
  <2>2. CASE h # g
    BY <1>1, <1>7, <2>2 DEF Lined, g
  <2> QED
    BY <2>1, <2>2
<1>12. Lined'
  BY <1>9, <1>11 DEF Lined
<1> QED
  BY <1>1, <1>4, <1>12

\* A slot is given back: to the caller that waits longest, if one waits.
LEMMA GiveKeeps ==
  ASSUME IInv, NEW c \in Callers, NEW n, IsCall(n), Own(n), Holds(call[c]),
         call[c].pc # "granted", n.pc \in {"finish", "sleep"}, ~Holds(n), n.memo = call[c].memo, n.key = call[c].key,
         Released(LimiterOf(n.memo), [call EXCEPT ![c] = n]),
         UNCHANGED <<flights, waiting>>
  PROVE  IInv'
<1> USE DEF IInv, Core
<1> DEFINE g == LimiterOf(n.memo)
           f == [call EXCEPT ![c] = n]
<1>0. /\ g \in Limiters /\ Busy(call[c]) /\ call[c].pc # "queued" /\ n.memo \in Memos
      /\ Busy(n) /\ n.pc # "queued"
  BY LimiterFacts DEF Own, Busy, Holds
<1>w. ~Waits(call[c]) /\ ~Waits(n) /\ call[c].pc # "overfull" /\ n.pc # "overfull"
  BY DEF Waits, Holds
<1>1. c \in Holders(g)
  BY DEF Holders
<1>2. slots[g] \in 0..Concurrency /\ slots[g] = Cardinality(Holders(g)) /\ IsFiniteSet(Holders(g))
  BY <1>0 DEF Seated
<1>3. slots[g] >= 1 /\ IsFiniteSet(Holders(g) \ {c}) /\ Cardinality(Holders(g) \ {c}) = slots[g] - 1
  <2>1. IsFiniteSet(Holders(g) \ {c}) /\ Cardinality(Holders(g) \ {c}) = Cardinality(Holders(g)) - 1
    BY <1>1, <1>2, FS_RemoveElement
  <2>2. Cardinality(Holders(g) \ {c}) \in Nat
    BY <2>1, FS_CardinalityType
  <2> QED
    BY <1>2, <2>1, <2>2
<1>4. CASE queue[g] = <<>>
  <2>1. slots' = [slots EXCEPT ![g] = @ - 1] /\ call' = f /\ queue' = queue
    BY <1>4 DEF Released
  <2>2. /\ Shaped' /\ Owned' /\ call'[c] = n
        /\ \A d \in Callers : d # c => call'[d] = call[d]
    BY <2>1, Turn
  <2>3. SameFlights /\ SameQueued /\ SameWaiters
    BY <1>0, <1>w, <2>2 DEF SameFlights, SameQueued, SameWaiters
  <2>4. Flying' /\ Tallied'
    BY <2>3, FlightsKept, TallyKept
  <2>5. Holders(g)' = Holders(g) \ {c} /\ \A h : h # g => Holders(h)' = Holders(h)
    BY <2>2 DEF Holders
  <2>6. slots'[g] = slots[g] - 1 /\ \A h \in Limiters : h # g => slots'[h] = slots[h]
    BY <1>0, <2>1 DEF Seated
  <2>7. slots[g] - 1 \in 0..Concurrency
    BY <1>2, <1>3, Sizes
  <2>8. slots' \in [Limiters -> 0..Concurrency]
    BY <1>0, <2>1, <2>7 DEF Seated
  <2> HIDE DEF g
  <2>9. Seated'
    BY <1>0, <1>3, <2>5, <2>6, <2>8 DEF Seated
  <2>10. Lined'
    BY <1>4, <2>1, <2>3, <2>6 DEF Lined, SameQueued
  <2> QED
    BY <2>2, <2>4, <2>9, <2>10
<1>5. CASE queue[g] # <<>>
  <2> DEFINE e == Head(queue[g])
             x == [call[e] EXCEPT !.pc = "granted"]
  <2>1. queue' = [queue EXCEPT ![g] = Tail(@)] /\ slots' = slots
        /\ call' = [f EXCEPT ![e].pc = "granted"]
    BY <1>5 DEF Released
  <2>2. queue[g] \in Seq(Callers) /\ OneEach(queue[g])
    BY <1>0 DEF Lined
  <2>3. /\ Tail(queue[g]) \in Seq(Callers) /\ OneEach(Tail(queue[g])) /\ e \in Callers
        /\ In(e, queue[g])
        /\ \A d : In(d, Tail(queue[g])) <=> In(d, queue[g]) /\ d # e
    BY <1>5, <2>2, Served
  <2>4. call[e].pc = "queued" /\ LimiterOf(call[e].memo) = g /\ e # c
    BY <1>0, <2>3 DEF Lined
  <2>5. IsCall(call[e]) /\ Own(call[e]) /\ call[e].memo \in Memos
    BY <2>3, <2>4 DEF Shaped, Owned, Own
  <2> HIDE DEF e
  <2>6. IsCall(x) /\ x.pc = "granted" /\ x.memo = call[e].memo /\ x.key = call[e].key
        /\ x.ctx = call[e].ctx /\ x.got = call[e].got
    BY <2>5, PcField
  <2>7. call' = [f EXCEPT ![e] = x]
    BY <2>1, <2>3, <2>4 DEF Shaped
  <2> HIDE DEF x
  <2>8. /\ call'[c] = n /\ call'[e] = x /\ call' = [d \in Callers |-> call'[d]]
        /\ \A d \in Callers : d # c /\ d # e => call'[d] = call[d]
    BY <2>3, <2>4, <2>7 DEF Shaped
  <2>9. Own(x) /\ Busy(x) /\ Holds(x) /\ x.pc # "queued" /\ Busy(call[e]) /\ ~Holds(call[e])
    BY <2>4, <2>5, <2>6 DEF Own, Busy, Holds
  <2>10. Shaped' /\ Owned'
    BY <2>6, <2>8, <2>9 DEF Shaped, Owned
  <2>11. SameFlights /\ SameWaiters
    <3>1. Waits(x) /\ Waits(call[e]) /\ x.pc # "overfull" /\ call[e].pc # "overfull"
      BY <2>4, <2>6 DEF Waits
    <3> QED
      BY <1>0, <1>w, <2>6, <2>8, <2>9, <3>1 DEF SameFlights, SameWaiters
  <2>12. Flying' /\ Tallied'
    BY <2>11, FlightsKept, TallyKept
  <2>13. Holders(g)' = (Holders(g) \ {c}) \cup {e} /\ e \notin Holders(g)
         /\ \A h : h # g => Holders(h)' = Holders(h)
    BY <2>3, <2>4, <2>6, <2>8, <2>9 DEF Holders
  <2> HIDE DEF g
  <2>14. IsFiniteSet(Holders(g)') /\ Cardinality(Holders(g)') = slots[g]
    <3>1. e \notin Holders(g) \ {c}
      BY <2>13
    <3>2. IsFiniteSet((Holders(g) \ {c}) \cup {e})
          /\ Cardinality((Holders(g) \ {c}) \cup {e}) = Cardinality(Holders(g) \ {c}) + 1
      BY <1>3, <3>1, FS_AddElement
    <3> QED
      BY <1>2, <1>3, <2>13, <3>2
  <2>15. Seated'
    BY <2>1, <2>13, <2>14 DEF Seated
  <2>16. queue'[g] = Tail(queue[g]) /\ (\A h \in Limiters : h # g => queue'[h] = queue[h])
         /\ queue' \in [Limiters -> Seq(Callers)]
    BY <1>0, <2>1, <2>3 DEF Lined
  <2>17. slots'[g] = Concurrency
    BY <1>0, <1>5, <2>1 DEF Lined
  <2>18. \A d \in Callers :
           /\ call'[d].pc = "queued" <=> call[d].pc = "queued" /\ d # e
           /\ call'[d].pc = "queued" => call'[d].memo = call[d].memo
    BY <1>0, <2>8, <2>9
  <2>19. ASSUME NEW h \in Limiters
         PROVE  /\ OneEach(queue'[h]) /\ (queue'[h] # <<>> => slots'[h] = Concurrency)
                /\ \A d \in Callers : In(d, queue'[h])
                     <=> call'[d].pc = "queued" /\ LimiterOf(call'[d].memo) = h
    <3>0. \A d \in Callers : In(d, queue[h]) <=> call[d].pc = "queued" /\ LimiterOf(call[d].memo) = h
      BY DEF Lined
    <3>1. CASE h = g
      <4>1. OneEach(queue'[h]) /\ \A d \in Callers : In(d, queue'[h]) <=> In(d, queue[h]) /\ d # e
        BY <2>3, <2>16, <3>1
      <4> QED
        BY <2>17, <2>18, <3>0, <3>1, <4>1
    <3>2. CASE h # g
      <4>1. OneEach(queue'[h]) /\ queue'[h] = queue[h] /\ (queue'[h] # <<>> => slots'[h] = Concurrency)
        BY <2>1, <2>16, <3>2 DEF Lined
      <4>2. \A d \in Callers : call[d].pc = "queued" /\ LimiterOf(call[d].memo) = h => d # e
        BY <2>4, <3>2
      <4> QED
        BY <2>18, <3>0, <4>1, <4>2
    <3> QED
      BY <3>1, <3>2
  <2>20. Lined'
    BY <2>16, <2>19 DEF Lined
  <2> QED
    BY <2>10, <2>12, <2>15, <2>20
<1> QED
  BY <1>4, <1>5

-----------------------------------------------------------------------------
(* How the steps write a call *)

\* Only the step changes.
LEMMA PcMove ==
  ASSUME Shaped, Owned, NEW c \in Callers, NEW p,
         call[c].pc \notin {"idle", "done"}, p \notin {"idle", "done", "finish", "app"},
         p = "gaveup" => CtxDone(c)
  PROVE  \E n : /\ IsCall(n) /\ Own(n) /\ n.pc = p
                /\ n.memo = call[c].memo /\ n.key = call[c].key
                /\ [call EXCEPT ![c].pc = p] = [call EXCEPT ![c] = n]
<1> DEFINE k == call[c]
           n == [k EXCEPT !.pc = p]
<1>1. IsCall(k) /\ Own(k)
  BY DEF Shaped, Owned
<1>2. [call EXCEPT ![c].pc = p] = [call EXCEPT ![c] = n]
  BY DEF Shaped
<1> HIDE DEF k
<1>3. IsCall(n) /\ n.pc = p /\ n.memo = k.memo /\ n.key = k.key /\ n.ctx = k.ctx /\ n.got = k.got
  BY <1>1, PcField
<1> HIDE DEF n
<1>4. Own(n)
  BY <1>1, <1>3 DEF Own, CtxDone, k
<1> QED
  BY <1>2, <1>3, <1>4 DEF k

\* fn is over, with a result.
LEMMA ResMove ==
  ASSUME Shaped, Owned, NEW c \in Callers, NEW r, IsResult(r),
         call[c].pc \notin {"idle", "done"}, Honest(r.status, call[c].ctx)
  PROVE  \E n : /\ IsCall(n) /\ Own(n) /\ n.pc = "finish"
                /\ n.memo = call[c].memo /\ n.key = call[c].key
                /\ [call EXCEPT ![c].pc = "finish", ![c].res = r] = [call EXCEPT ![c] = n]
<1> DEFINE k == call[c]
           m == [k EXCEPT !.pc = "finish"]
           n == [m EXCEPT !.res = r]
<1>1. IsCall(k) /\ Own(k)
  BY DEF Shaped, Owned
<1>2. [call EXCEPT ![c].pc = "finish", ![c].res = r] = [call EXCEPT ![c] = n]
  BY DEF Shaped
<1> HIDE DEF k
<1>3. IsCall(m) /\ m.pc = "finish" /\ m.memo = k.memo /\ m.key = k.key /\ m.ctx = k.ctx /\ m.got = k.got
  BY <1>1, PcField
<1> HIDE DEF m
<1>4. IsCall(n) /\ n.pc = "finish" /\ n.memo = k.memo /\ n.key = k.key /\ n.ctx = k.ctx
      /\ n.got = k.got /\ n.res = r
  BY <1>3, ResField
<1> HIDE DEF n
<1>5. Own(n)
  BY <1>1, <1>4 DEF Own, k
<1> QED
  BY <1>2, <1>4, <1>5 DEF k

\* memo.do answers.
LEMMA AnswerOwn ==
  ASSUME NEW k, IsCall(k), Own(k), k.pc \notin {"idle", "done"},
         NEW r, IsResult(r), Honest(r.status, k.ctx)
  PROVE  IsCall(Answered(k, r)) /\ Own(Answered(k, r)) /\ ~Busy(Answered(k, r))
<1> DEFINE n == Answered(k, r)
           on == k.kind = "post" /\ k.memo = "resolve" /\ r.status = "ok"
<1>1. /\ IsCall(n) /\ n.got = Nothing
      /\ on => n.pc = "enter" /\ n.memo = "posts" /\ n.ctx = (IF k.ctx = "expired" THEN "live" ELSE k.ctx)
      /\ ~on => n.pc = "done" /\ n.ctx = k.ctx /\ n.res = Fails(r.status)
  BY AnsweredCall
<1> HIDE DEF n, on
<1>2. Own(n)
  BY <1>1, Results DEF Own, Memos
<1>3. ~Busy(n)
  BY <1>1 DEF Busy
<1> QED
  BY <1>1, <1>2, <1>3 DEF n

\* A caller that waits for no one is answered.
LEMMA AnswerKeeps ==
  ASSUME IInv, NEW c \in Callers, NEW r, IsResult(r), Honest(r.status, call[c].ctx),
         call[c].pc \in {"enter", "wait"}, Answer(c, r), UNCHANGED <<flights, slots, queue, waiting>>
  PROVE  IInv'
<1> DEFINE n == Answered(call[c], r)
<1>1. IsCall(call[c]) /\ Own(call[c]) /\ ~Busy(call[c])
  BY DEF IInv, Core, Shaped, Owned, Busy
<1>2. IsCall(n) /\ Own(n) /\ ~Busy(n)
  BY <1>1, AnswerOwn
<1>3. call' = [call EXCEPT ![c] = n]
  BY DEF Answer, IInv, Core, Shaped
<1> HIDE DEF n
<1>4. Calm(call[c], n)
  BY <1>1, <1>2 DEF Calm, Quiet
<1> QED
  BY <1>2, <1>3, <1>4, CalmTurn

\* The error of a context is that of the call.
LEMMA CtxErrHonest ==
  ASSUME Owned, NEW c \in Callers, CtxDone(c)
  PROVE  Honest(Fails(CtxErr(c)).status, call[c].ctx)
  BY Results DEF CtxDone, CtxErr, Honest, Owned, Own

\* After a resolution, a context that is done was cancelled.
LEMMA CancelHonest ==
  ASSUME Owned, NEW c \in Callers, CtxDone(c), call[c].pc # "done", call[c].memo # "resolve"
  PROVE  Honest(Fails("cancelled").status, call[c].ctx)
  BY Results DEF CtxDone, Honest, Owned, Own

\* Other results tell of no context.
LEMMA OtherHonest ==
  ASSUME NEW x
  PROVE  /\ Honest(Fails("failed").status, x) /\ Honest(Fails("busy").status, x)
         /\ \A v : Honest(Result("ok", v).status, x)
  BY Results DEF Honest

\* A call moves on outside of a flight, in its flight, or with its slot.
LEMMA PcKeeps ==
  ASSUME IInv, NEW c \in Callers, NEW p, call' = [call EXCEPT ![c].pc = p],
         call[c].pc \notin {"idle", "done"},
         \/ ~Busy(call[c]) /\ p \in {"enter", "wait"}
         \/ call[c].pc \in {"reuse", "app"} /\ p = "gate"
         \/ call[c].pc = "gate" /\ p = "full"
         \/ call[c].pc = "select" /\ p = "gaveup" /\ CtxDone(c)
         \/ call[c].pc = "fetch" /\ call[c].memo # "instagram" /\ p = "sleep",
         UNCHANGED <<flights, slots, queue, waiting>>
  PROVE  IInv'
<1>1. /\ Shaped /\ Owned /\ call[c].pc \notin {"idle", "done"} /\ p \notin {"idle", "done", "finish", "app"}
      /\ p = "gaveup" => CtxDone(c)
  BY DEF IInv, Core
<1>2. PICK n : /\ IsCall(n) /\ Own(n) /\ n.pc = p
               /\ n.memo = call[c].memo /\ n.key = call[c].key
               /\ [call EXCEPT ![c].pc = p] = [call EXCEPT ![c] = n]
  BY <1>1, PcMove
<1>3. /\ Busy(n) <=> Busy(call[c])
      /\ Busy(n) => /\ (Holds(n) <=> Holds(call[c])) /\ (Waits(n) <=> Waits(call[c]))
                    /\ n.pc \notin {"queued", "overfull"} /\ call[c].pc \notin {"queued", "overfull"}
  BY <1>2 DEF Busy, Holds, Waits
<1>4. Calm(call[c], n)
  BY <1>2, <1>3 DEF Calm, Quiet
<1> QED
  BY <1>2, <1>4, CalmTurn

\* A call that holds no slot ends its fn.
LEMMA ResKeeps ==
  ASSUME IInv, NEW c \in Callers, NEW r, IsResult(r), Honest(r.status, call[c].ctx),
         call[c].pc \in {"gate", "reuse", "app", "sleep"}, ~Holds(call[c]),
         call' = [call EXCEPT ![c].pc = "finish", ![c].res = r],
         UNCHANGED <<flights, slots, queue, waiting>>
  PROVE  IInv'
<1>0. Shaped /\ Owned /\ call[c].pc \notin {"idle", "done"}
  BY DEF IInv, Core, Busy
<1>1. PICK n : /\ IsCall(n) /\ Own(n) /\ n.pc = "finish"
               /\ n.memo = call[c].memo /\ n.key = call[c].key
               /\ [call EXCEPT ![c].pc = "finish", ![c].res = r] = [call EXCEPT ![c] = n]
  BY <1>0, ResMove
<1>2. Calm(call[c], n)
  BY <1>1 DEF Calm, Quiet, Waits, Busy, Holds
<1> QED
  BY <1>1, <1>2, CalmTurn

\* A call that holds a slot ends its fn and gives the slot back.
LEMMA ReturnKeeps ==
  ASSUME IInv, NEW c \in Callers, NEW r, IsResult(r), Honest(r.status, call[c].ctx),
         Holds(call[c]), call[c].pc # "granted", FnReturns(c, r), UNCHANGED <<flights, waiting>>
  PROVE  IInv'
<1>0. Shaped /\ Owned /\ call[c].pc \notin {"idle", "done"}
  BY DEF IInv, Core, Holds
<1>1. PICK n : /\ IsCall(n) /\ Own(n) /\ n.pc = "finish"
               /\ n.memo = call[c].memo /\ n.key = call[c].key
               /\ [call EXCEPT ![c].pc = "finish", ![c].res = r] = [call EXCEPT ![c] = n]
  BY <1>0, ResMove
<1>2. Released(LimiterOf(n.memo), [call EXCEPT ![c] = n])
  BY <1>1 DEF FnReturns
<1>3. Busy(n) /\ ~Holds(n)
  BY <1>1 DEF Busy, Holds
<1> QED
  BY <1>1, <1>2, <1>3, GiveKeeps

-----------------------------------------------------------------------------
(* Every step keeps the invariant *)

\* The call begins, or its context ends.
LEMMA CallerKeeps ==
  ASSUME IInv, NEW c \in Callers, Begin(c) \/ Cancel(c) \/ ResolveTimeout(c)
  PROVE  IInv'
<1> DEFINE k == call[c]
<1>1. IsCall(k) /\ Own(k)
  BY DEF IInv, Core, Shaped, Owned
<1>2. CASE Begin(c)
  <2>1. k.pc = "new" /\ call' = [call EXCEPT ![c].pc = "enter"] /\ UNCHANGED <<flights, slots, queue, waiting>>
    BY <1>2 DEF Begin
  <2>2. ~Busy(k) /\ ~Holds(k)
    BY <2>1 DEF Busy, Holds
  <2> QED
    BY <2>1, <2>2, PcKeeps
<1>3. CASE Cancel(c) \/ ResolveTimeout(c)
  <2> DEFINE x == IF Cancel(c) THEN "cancelled" ELSE "expired"
             n == [k EXCEPT !.ctx = x]
  <2>1. k.pc \notin {"idle", "new", "done"} /\ k.ctx = "live" /\ (x = "expired" => k.memo = "resolve")
        /\ x \in {"cancelled", "expired"}
        /\ call' = [call EXCEPT ![c].ctx = x] /\ UNCHANGED <<flights, slots, queue, waiting>>
    <3>1. CASE Cancel(c)
      BY <3>1 DEF Cancel
    <3>2. CASE ~Cancel(c)
      BY <1>3, <3>2 DEF ResolveTimeout
    <3> QED
      BY <3>1, <3>2
  <2> HIDE DEF x
  <2>2. call' = [call EXCEPT ![c] = n]
    BY <2>1 DEF IInv, Core, Shaped
  <2> HIDE DEF k
  <2>3. IsCall(n) /\ n.pc = k.pc /\ n.memo = k.memo /\ n.key = k.key /\ n.ctx = x
        /\ n.got = k.got /\ n.res = k.res
    BY <1>1, CtxField
  <2> HIDE DEF n
  <2>4. Own(n)
    BY <1>1, <2>1, <2>3 DEF Own, Honest
  <2>5. Calm(k, n)
    BY <2>3 DEF Calm, Quiet, Waits, Busy, Holds
  <2> QED
    BY <2>1, <2>2, <2>3, <2>4, <2>5, CalmTurn DEF k
<1> QED
  BY <1>2, <1>3

\* The top of memo.do.
LEMMA EnterKeeps ==
  ASSUME IInv, NEW c \in Callers, Enter(c)
  PROVE  IInv'
<1> DEFINE k == call[c]
<1>0. k.pc = "enter" /\ UNCHANGED <<slots, queue, waiting>> /\ IsCall(k) /\ Own(k)
  BY DEF Enter, IInv, Core, Shaped, Owned
<1>1. CASE CtxDone(c) /\ Answer(c, Fails(CtxErr(c))) /\ UNCHANGED flights
  BY <1>0, <1>1, CtxErrHonest, AnswerKeeps, Results DEF IInv, Core
<1>2. CASE Answer(c, Result("ok", Value(cache[k.memo], k.key))) /\ UNCHANGED flights
  BY <1>0, <1>2, OtherHonest, AnswerKeeps, Results
<1>3. CASE call' = [call EXCEPT ![c].pc = "wait"] /\ UNCHANGED flights
  <2>1. ~Busy(k) /\ ~Holds(k)
    BY <1>0 DEF Busy, Holds
  <2> QED
    BY <1>0, <1>3, <2>1, PcKeeps
<1>4. CASE Answer(c, Fails("busy")) /\ UNCHANGED flights
  BY <1>0, <1>4, OtherHonest, AnswerKeeps, Results
<1>5. CASE /\ k.key \notin flights[k.memo]
           /\ flights' = [flights EXCEPT ![k.memo] = @ \cup {k.key}]
           /\ call' = [call EXCEPT ![c] = Started(@)]
  <2> DEFINE n == Started(k)
  <2>1. call' = [call EXCEPT ![c] = n]
    BY <1>5 DEF IInv, Core, Shaped
  <2> HIDE DEF k
  <2>2. /\ IsCall(n) /\ n.memo = k.memo /\ n.key = k.key
        /\ n.ctx = k.ctx /\ n.got = k.got
        /\ n.pc \in {"finish", "reuse", "app", "gate"}
        /\ n.pc = "finish" => n.res.status = "ok"
        /\ n.pc = "app" => n.memo = "instagram"
    BY <1>0, StartedCall
  <2> HIDE DEF n
  <2>3. Own(n)
    BY <1>0, <2>2 DEF Own, Honest
  <2>4. ~Busy(k) /\ Busy(n) /\ ~Holds(n) /\ ~Waits(n)
    BY <1>0, <2>2 DEF Busy, Holds, Waits
  <2>5. n.key \notin flights[n.memo] /\ flights' = [flights EXCEPT ![n.memo] = @ \cup {n.key}]
    BY <1>5, <2>2
  <2> QED
    BY <1>0, <2>1, <2>2, <2>3, <2>4, <2>5, StartKeeps DEF k
<1> QED
  BY <1>1, <1>2, <1>3, <1>4, <1>5 DEF Enter

\* A follower.
LEMMA FollowKeeps ==
  ASSUME IInv, NEW c \in Callers, Follow(c)
  PROVE  IInv'
<1> DEFINE k == call[c]
<1>0. k.pc = "wait" /\ UNCHANGED <<flights, slots, queue, waiting>> /\ IsCall(k) /\ Own(k)
  BY DEF Follow, IInv, Core, Shaped, Owned
<1>1. CASE CtxDone(c) /\ Answer(c, Fails(CtxErr(c)))
  BY <1>0, <1>1, CtxErrHonest, AnswerKeeps, Results DEF IInv, Core
<1>2. CASE call' = [call EXCEPT ![c].pc = "enter", ![c].got = Nothing]
  <2> DEFINE m == [k EXCEPT !.pc = "enter"]
             n == [m EXCEPT !.got = Nothing]
  <2>1. call' = [call EXCEPT ![c] = n]
    BY <1>2 DEF IInv, Core, Shaped
  <2> HIDE DEF k
  <2>2. IsCall(m) /\ m.pc = "enter" /\ m.memo = k.memo /\ m.ctx = k.ctx
    BY <1>0, PcField
  <2> HIDE DEF m
  <2>3. IsCall(n) /\ n.pc = "enter" /\ n.memo = k.memo /\ n.ctx = k.ctx /\ n.got = Nothing
    BY <2>2, GotField, Results
  <2> HIDE DEF n
  <2>4. Own(n)
    BY <1>0, <2>3, Results DEF Own
  <2>5. Calm(k, n)
    BY <1>0, <2>3 DEF Calm, Quiet, Waits, Busy
  <2> QED
    BY <1>0, <2>1, <2>3, <2>4, <2>5, CalmTurn DEF k
<1>3. CASE k.got.status \notin {"none", "abandoned"} /\ Answer(c, k.got)
  <2>1. Honest(k.got.status, k.ctx) /\ IsResult(k.got)
    BY <1>0, <1>3 DEF Own, Honest, IsCall
  <2> QED
    BY <1>0, <1>3, <2>1, AnswerKeeps
<1> QED
  BY <1>1, <1>2, <1>3 DEF Follow

\* A follower is told; its flight's leader keeps its own context to itself.
LEMMA ToldOwn ==
  ASSUME IInv, NEW c \in Callers, call[c].pc = "finish", NEW d \in Callers
  PROVE  LET n == [call[d] EXCEPT !.got = FlightResult(c)] IN
         /\ IsCall(n) /\ (Own(n) \/ call[d].pc # "wait")
         /\ n.pc = call[d].pc /\ n.memo = call[d].memo /\ n.key = call[d].key
<1> DEFINE k == call[d]
           n == [k EXCEPT !.got = FlightResult(c)]
<1>1. IsCall(k) /\ Own(k) /\ IsCall(call[c]) /\ Own(call[c])
  BY DEF IInv, Core, Shaped, Owned
<1>2. IsResult(FlightResult(c)) /\ FlightResult(c).status \notin {"cancelled", "timeout"}
  <2>1. IsResult(call[c].res) /\ Honest(call[c].res.status, call[c].ctx)
    BY <1>1 DEF IsCall, Own
  <2>2. CASE call[c].res.status # "ok" /\ CtxDone(c)
    BY <2>2, Results DEF FlightResult
  <2>3. CASE ~(call[c].res.status # "ok" /\ CtxDone(c))
    BY <2>1, <2>3 DEF FlightResult, CtxDone, Honest
  <2> QED
    BY <2>2, <2>3
<1> HIDE DEF k
<1>3. IsCall(n) /\ n.pc = k.pc /\ n.memo = k.memo /\ n.key = k.key /\ n.ctx = k.ctx
      /\ n.got = FlightResult(c)
  BY <1>1, <1>2, GotField
<1> HIDE DEF n
<1>4. k.pc = "wait" => Own(n)
  BY <1>1, <1>2, <1>3 DEF Own
<1> QED
  BY <1>3, <1>4 DEF n, k

\* A flight ends, and so does its leader's call.
LEMMA FinishKeeps ==
  ASSUME IInv, NEW c \in Callers, Finish(c)
  PROVE  IInv'
<1> USE DEF IInv, Core
<1> DEFINE m == call[c].memo
           k == call[c].key
<1>1. /\ call[c].pc = "finish" /\ UNCHANGED <<slots, queue, waiting>>
      /\ flights' = [flights EXCEPT ![m] = @ \ {k}]
      /\ call' = [d \in Callers |->
                IF d = c THEN Answered(call[c], call[c].res)
                ELSE IF d \in Followers(c) THEN [call[d] EXCEPT !.got = FlightResult(c)]
                ELSE call[d]]
  BY DEF Finish
<1>2. IsCall(call[c]) /\ Own(call[c]) /\ Busy(call[c]) /\ m \in Memos
      /\ IsResult(call[c].res) /\ Honest(call[c].res.status, call[c].ctx)
  BY <1>1 DEF Shaped, Owned, Own, IsCall, Busy
<1>3. IsCall(call'[c]) /\ Own(call'[c]) /\ ~Busy(call'[c])
  BY <1>1, <1>2, AnswerOwn
<1>4. ASSUME NEW d \in Callers, d # c
      PROVE  /\ IsCall(call'[d]) /\ Own(call'[d])
             /\ call'[d].pc = call[d].pc /\ call'[d].memo = call[d].memo /\ call'[d].key = call[d].key
  <2>1. CASE d \in Followers(c)
    <3>1. call[d].pc = "wait" /\ call'[d] = [call[d] EXCEPT !.got = FlightResult(c)]
      BY <1>1, <1>4, <2>1 DEF Followers, Blocked
    <3> QED
      BY <1>1, <3>1, ToldOwn
  <2>2. CASE d \notin Followers(c)
    BY <1>1, <1>4, <2>2 DEF Shaped, Owned
  <2> QED
    BY <2>1, <2>2
<1>5. call' = [d \in Callers |-> call'[d]]
  BY <1>1
<1>6. Shaped' /\ Owned'
  BY <1>3, <1>4, <1>5 DEF Shaped, Owned
<1>7. \A d \in Callers : d # c =>
        (Busy(call'[d]) <=> Busy(call[d])) /\ (Holds(call'[d]) <=> Holds(call[d]))
        /\ (call'[d].pc = "queued" <=> call[d].pc = "queued")
  BY <1>4 DEF Busy, Holds
<1>8. ~Holds(call[c]) /\ ~Holds(call'[c]) /\ call[c].pc # "queued" /\ call'[c].pc # "queued"
  BY <1>1, <1>3 DEF Holds, Busy
<1>9. SameHolders /\ SameQueued
  BY <1>4, <1>7, <1>8 DEF SameHolders, SameQueued
<1>w. SameWaiters
  <2>1. ~Waits(call[c]) /\ ~Waits(call'[c]) /\ call[c].pc # "overfull" /\ call'[c].pc # "overfull"
    BY <1>1, <1>3 DEF Waits, Busy
  <2> QED
    BY <1>4, <2>1 DEF SameWaiters, Waits
<1>10. Seated' /\ Lined' /\ Tallied'
  BY <1>1, <1>9, <1>w, HoldersKept, TallyKept DEF Seated, Lined, SameQueued
<1>11. Flying'
  <2>1. /\ flights'[m] = flights[m] \ {k} /\ \A o \in Memos : o # m => flights'[o] = flights[o]
        /\ flights' = [o \in Memos |-> flights'[o]]
    BY <1>1, <1>2 DEF Flying
  <2>2. \A d \in Callers : Busy(call[d]) /\ d # c => call[d].memo \in Memos /\ call[d].key \in flights[call[d].memo]
                                                     /\ ~(call[d].memo = m /\ call[d].key = k)
    BY <1>2 DEF Flying, Owned, Own, Busy
  <2> HIDE DEF m, k
  <2>3. ASSUME NEW d \in Callers, Busy(call'[d]) PROVE call'[d].key \in flights'[call'[d].memo]
    <3>1. d # c
      BY <1>3, <2>3
    <3>2. Busy(call[d]) /\ call'[d].memo = call[d].memo /\ call'[d].key = call[d].key
      BY <1>4, <1>7, <2>3, <3>1
    <3>3. call[d].memo \in Memos /\ call[d].key \in flights[call[d].memo]
          /\ ~(call[d].memo = m /\ call[d].key = k)
      BY <2>2, <3>1, <3>2
    <3>4. CASE call[d].memo = m
      BY <2>1, <3>2, <3>3, <3>4
    <3>5. CASE call[d].memo # m
      BY <2>1, <3>2, <3>3, <3>5
    <3> QED
      BY <3>4, <3>5
  <2>4. \A a, d \in Callers :
           /\ Busy(call'[a]) /\ Busy(call'[d])
           /\ call'[a].memo = call'[d].memo /\ call'[a].key = call'[d].key
           => a = d
    BY <1>3, <1>4, <1>7 DEF Flying
  <2>5. ASSUME NEW o \in Memos, NEW x \in flights'[o]
         PROVE  \E a \in Callers : Busy(call'[a]) /\ call'[a].memo = o /\ call'[a].key = x
    <3>1. x \in flights[o] /\ ~(o = m /\ x = k)
      BY <2>1, <2>5
    <3>2. PICK a \in Callers : Busy(call[a]) /\ call[a].memo = o /\ call[a].key = x
      BY <3>1 DEF Flying
    <3>3. a # c
      BY <3>1, <3>2 DEF m, k
    <3> QED
      BY <1>4, <1>7, <3>2, <3>3
  <2> QED
    BY <2>1, <2>3, <2>4, <2>5 DEF Flying
<1> QED
  BY <1>6, <1>10, <1>11

\* Acquire of the limiter, up to its first select.
LEMMA AcquireKeeps ==
  ASSUME IInv, NEW c \in Callers, Acquire(c)
  PROVE  IInv'
<1> DEFINE k == call[c]
           g == LimiterOf(k.memo)
<1>0. k.pc = "gate" /\ IsCall(k) /\ Own(k) /\ Busy(k) /\ ~Holds(k) /\ Shaped /\ Owned
      /\ UNCHANGED <<flights, queue, waiting>>
  BY DEF Acquire, IInv, Core, Shaped, Owned, Busy, Holds
<1>1. CASE /\ CtxDone(c) /\ call' = [call EXCEPT ![c].pc = "finish", ![c].res = Fails(CtxErr(c))]
           /\ UNCHANGED slots
  <2>1. IsResult(Fails(CtxErr(c))) /\ Honest(Fails(CtxErr(c)).status, k.ctx)
    BY <1>0, <1>1, CtxErrHonest, Results
  <2> QED
    BY <1>0, <1>1, <2>1, ResKeeps
<1>2. CASE /\ slots[g] < Concurrency /\ slots' = [slots EXCEPT ![g] = @ + 1]
           /\ call' = [call EXCEPT ![c].pc = "fetch"]
  <2>1. PICK n : /\ IsCall(n) /\ Own(n) /\ n.pc = "fetch"
                 /\ n.memo = call[c].memo /\ n.key = call[c].key
                 /\ [call EXCEPT ![c].pc = "fetch"] = [call EXCEPT ![c] = n]
    BY <1>0, PcMove
  <2>2. /\ call' = [call EXCEPT ![c] = n] /\ slots[LimiterOf(n.memo)] # Concurrency
        /\ slots' = [slots EXCEPT ![LimiterOf(n.memo)] = @ + 1]
    BY <1>2, <2>1, Sizes
  <2> QED
    BY <1>0, <2>1, <2>2, TakeKeeps
<1>3. CASE call' = [call EXCEPT ![c].pc = "full"] /\ UNCHANGED slots
  BY <1>0, <1>3, PcKeeps
<1> QED
  BY <1>1, <1>2, <1>3 DEF Acquire

\* A caller adds itself to the count of those that wait.
LEMMA CountInKeeps ==
  ASSUME IInv, NEW c \in Callers, CountIn(c)
  PROVE  IInv'
<1>1. PICK g \in Limiters : g = LimiterOf(call[c].memo)
  BY LimiterFacts DEF CountIn, IInv, Core, Owned, Own
<1> DEFINE p == IF waiting'[g] > MaxQueue THEN "overfull" ELSE "select"
<1>0. /\ call[c].pc = "full" /\ waiting' = [waiting EXCEPT ![g] = @ + 1]
      /\ call' = [call EXCEPT ![c].pc = p] /\ UNCHANGED <<flights, slots, queue>>
      /\ Core /\ Shaped /\ Owned /\ Tallied
  BY <1>1 DEF CountIn, IInv, Core
<1>p. p \in {"overfull", "select"} /\ (p # "overfull" => ~(waiting'[g] > MaxQueue))
  OBVIOUS
<1> HIDE DEF p
<1>2. PICK n : /\ IsCall(n) /\ Own(n) /\ n.pc = p
               /\ n.memo = call[c].memo /\ n.key = call[c].key
               /\ [call EXCEPT ![c].pc = p] = [call EXCEPT ![c] = n]
  BY <1>0, <1>p, PcMove
<1>3. Quiet(call[c], n) /\ Waits(n) /\ ~Waits(call[c])
  BY <1>0, <1>2, <1>p DEF Quiet, Busy, Holds, Waits
<1>4. /\ Core' /\ call'[c] = n
      /\ \A d \in Callers : d # c => call'[d] = call[d]
  BY <1>0, <1>2, <1>3, QuietTurn
<1>5. /\ Waiters(g)' = Waiters(g) \cup {c} /\ c \notin Waiters(g)
      /\ \A h : h # g => Waiters(h)' = Waiters(h) /\ Allowed(h)' = Allowed(h)
      /\ n.pc = "overfull" => Allowed(g)' = Allowed(g)
      /\ Allowed(g)' \subseteq Waiters(g)'
  BY <1>1, <1>2, <1>3, <1>4 DEF Waiters, Allowed
<1>6. /\ waiting[g] \in Nat /\ waiting'[g] = waiting[g] + 1 /\ waiting' \in [Limiters -> Nat]
      /\ \A h \in Limiters : h # g => waiting'[h] = waiting[h]
  BY <1>0, <1>1 DEF Tallied
<1>7. IsFiniteSet(Waiters(g)') /\ Cardinality(Waiters(g)') = waiting'[g]
  <2>1. IsFiniteSet(Waiters(g)) /\ waiting[g] = Cardinality(Waiters(g))
    BY <1>0, <1>1 DEF Tallied
  <2>2. /\ IsFiniteSet(Waiters(g) \cup {c})
        /\ Cardinality(Waiters(g) \cup {c}) = Cardinality(Waiters(g)) + 1
    BY <1>5, <2>1, FS_AddElement
  <2> QED
    BY <1>5, <1>6, <2>1, <2>2
<1>8. Cardinality(Allowed(g)') <= MaxQueue
  <2>1. CASE n.pc = "overfull"
    BY <1>0, <1>1, <1>5, <2>1 DEF Tallied
  <2>2. CASE n.pc # "overfull"
    <3>1. waiting'[g] <= MaxQueue
      BY <1>2, <1>p, <1>6, <2>2, Sizes
    <3>2. Cardinality(Allowed(g)') <= Cardinality(Waiters(g)') /\ Cardinality(Allowed(g)') \in Nat
      BY <1>5, <1>7, FS_Subset, FS_CardinalityType
    <3> QED
      BY <1>6, <1>7, <3>1, <3>2, Sizes
  <2> QED
    BY <2>1, <2>2
<1>9. Tallied'
  <2>1. ASSUME NEW h \in Limiters, h # g
        PROVE  /\ IsFiniteSet(Waiters(h)') /\ waiting'[h] = Cardinality(Waiters(h)')
               /\ Cardinality(Allowed(h)') <= MaxQueue
    BY <1>0, <1>5, <1>6, <2>1 DEF Tallied
  <2> QED
    BY <1>6, <1>7, <1>8, <2>1 DEF Tallied
<1> QED
  BY <1>4, <1>9 DEF IInv

\* The select that blocks.
LEMMA SelectKeeps ==
  ASSUME IInv, NEW c \in Callers, Select(c)
  PROVE  IInv'
<1> DEFINE k == call[c]
           g == LimiterOf(k.memo)
<1>0. k.pc = "select" /\ Shaped /\ Owned /\ UNCHANGED <<flights, waiting>>
  BY DEF Select, IInv, Core
<1>1. CASE /\ slots[g] < Concurrency /\ slots' = [slots EXCEPT ![g] = @ + 1]
           /\ call' = [call EXCEPT ![c].pc = "granted"] /\ UNCHANGED queue
  <2>1. PICK n : /\ IsCall(n) /\ Own(n) /\ n.pc = "granted"
                 /\ n.memo = call[c].memo /\ n.key = call[c].key
                 /\ [call EXCEPT ![c].pc = "granted"] = [call EXCEPT ![c] = n]
    BY <1>0, PcMove
  <2>2. /\ call' = [call EXCEPT ![c] = n] /\ slots[LimiterOf(n.memo)] # Concurrency
        /\ slots' = [slots EXCEPT ![LimiterOf(n.memo)] = @ + 1]
    BY <1>1, <2>1, Sizes
  <2> QED
    BY <1>0, <1>1, <2>1, <2>2, TakeKeeps
<1>2. CASE CtxDone(c) /\ call' = [call EXCEPT ![c].pc = "gaveup"] /\ UNCHANGED <<slots, queue>>
  BY <1>0, <1>2, PcKeeps
<1>3. CASE /\ slots[g] = Concurrency /\ queue' = [queue EXCEPT ![g] = Append(@, c)]
           /\ call' = [call EXCEPT ![c].pc = "queued"] /\ UNCHANGED slots
  <2>1. PICK n : /\ IsCall(n) /\ Own(n) /\ n.pc = "queued"
                 /\ n.memo = call[c].memo /\ n.key = call[c].key
                 /\ [call EXCEPT ![c].pc = "queued"] = [call EXCEPT ![c] = n]
    BY <1>0, PcMove
  <2>2. call' = [call EXCEPT ![c] = n] /\ slots[LimiterOf(n.memo)] = Concurrency
        /\ queue' = [queue EXCEPT ![LimiterOf(n.memo)] = Append(@, c)]
    BY <1>3, <2>1
  <2> QED
    BY <1>0, <1>3, <2>1, <2>2, QueueKeeps
<1> QED
  BY <1>1, <1>2, <1>3 DEF Select

\* A caller that waited in vain.
LEMMA StopKeeps ==
  ASSUME IInv, NEW c \in Callers, StopWaiting(c)
  PROVE  IInv'
<1> DEFINE g == LimiterOf(call[c].memo)
<1>0. /\ call[c].pc = "queued" /\ CtxDone(c) /\ UNCHANGED <<flights, slots, waiting>> /\ Shaped /\ Owned
      /\ queue' = [queue EXCEPT ![g] = LeaveQueue(g, c)]
      /\ call' = [call EXCEPT ![c].pc = "gaveup"]
  BY DEF StopWaiting, IInv, Core
<1>1. PICK n : /\ IsCall(n) /\ Own(n) /\ n.pc = "gaveup"
               /\ n.memo = call[c].memo /\ n.key = call[c].key
               /\ [call EXCEPT ![c].pc = "gaveup"] = [call EXCEPT ![c] = n]
  BY <1>0, PcMove
<1>2. /\ call' = [call EXCEPT ![c] = n]
      /\ queue' = [queue EXCEPT ![LimiterOf(n.memo)] = LeaveQueue(LimiterOf(n.memo), c)]
  BY <1>0, <1>1
<1> QED
  BY <1>0, <1>1, <1>2, LeaveKeeps

\* A caller takes itself off the count, with a slot or an error.
LEMMA CountOutKeeps ==
  ASSUME IInv, NEW c \in Callers, CountOut(c)
  PROVE  IInv'
<1>1. PICK g \in Limiters : g = LimiterOf(call[c].memo)
  BY LimiterFacts DEF CountOut, IInv, Core, Owned, Own
<1>0. /\ call[c].pc \in {"overfull", "granted", "gaveup"} /\ waiting' = [waiting EXCEPT ![g] = @ - 1]
      /\ UNCHANGED <<flights, slots, queue>> /\ Core /\ Shaped /\ Owned /\ Tallied
  BY <1>1 DEF CountOut, IInv, Core
<1>2. PICK n : /\ IsCall(n) /\ Own(n) /\ ~Waits(n) /\ Quiet(call[c], n)
               /\ n.memo = call[c].memo /\ call' = [call EXCEPT ![c] = n]
  <2>1. CASE call[c].pc = "granted" /\ call' = [call EXCEPT ![c].pc = "fetch"]
    <3>1. PICK n : /\ IsCall(n) /\ Own(n) /\ n.pc = "fetch"
                   /\ n.memo = call[c].memo /\ n.key = call[c].key
                   /\ [call EXCEPT ![c].pc = "fetch"] = [call EXCEPT ![c] = n]
      BY <1>0, PcMove
    <3>2. ~Waits(n) /\ Quiet(call[c], n)
      BY <2>1, <3>1 DEF Waits, Quiet, Busy, Holds
    <3> QED
      BY <2>1, <3>1, <3>2
  <2>2. ASSUME NEW r, IsResult(r), Honest(r.status, call[c].ctx), call[c].pc \in {"overfull", "gaveup"},
               call' = [call EXCEPT ![c].pc = "finish", ![c].res = r]
        PROVE  \E n : /\ IsCall(n) /\ Own(n) /\ ~Waits(n) /\ Quiet(call[c], n)
                      /\ n.memo = call[c].memo /\ call' = [call EXCEPT ![c] = n]
    <3>1. PICK n : /\ IsCall(n) /\ Own(n) /\ n.pc = "finish"
                   /\ n.memo = call[c].memo /\ n.key = call[c].key
                   /\ [call EXCEPT ![c].pc = "finish", ![c].res = r] = [call EXCEPT ![c] = n]
      BY <1>0, <2>2, ResMove
    <3>2. ~Waits(n) /\ Quiet(call[c], n)
      BY <2>2, <3>1 DEF Waits, Quiet, Busy, Holds
    <3> QED
      BY <2>2, <3>1, <3>2
  <2>3. CASE call[c].pc = "overfull" /\ call' = [call EXCEPT ![c].pc = "finish", ![c].res = Fails("busy")]
    BY <2>2, <2>3, OtherHonest, Results
  <2>4. CASE call[c].pc = "gaveup" /\ call' = [call EXCEPT ![c].pc = "finish", ![c].res = Fails(CtxErr(c))]
    <3>1. CtxDone(c)
      BY <1>0, <2>4 DEF Owned, Own, CtxDone
    <3> QED
      BY <1>0, <2>2, <2>4, <3>1, CtxErrHonest, Results
  <2> QED
    BY <2>1, <2>3, <2>4 DEF CountOut
<1>3. /\ Core' /\ call'[c] = n
      /\ \A d \in Callers : d # c => call'[d] = call[d]
  BY <1>0, <1>2, QuietTurn
<1>4. Waits(call[c])
  BY <1>0 DEF Waits
<1>5. /\ Waiters(g)' = Waiters(g) \ {c} /\ c \in Waiters(g)
      /\ \A h : h # g => Waiters(h)' = Waiters(h) /\ Allowed(h)' = Allowed(h)
      /\ Allowed(g)' \subseteq Allowed(g) /\ Allowed(g) \subseteq Waiters(g)
  BY <1>1, <1>2, <1>3, <1>4 DEF Waiters, Allowed
<1>6. IsFiniteSet(Waiters(g)) /\ waiting[g] = Cardinality(Waiters(g)) /\ Cardinality(Allowed(g)) <= MaxQueue
  BY <1>0, <1>1 DEF Tallied
<1>7. /\ IsFiniteSet(Waiters(g)') /\ Cardinality(Waiters(g)') = waiting[g] - 1
      /\ Cardinality(Waiters(g)') \in Nat
  BY <1>5, <1>6, FS_RemoveElement, FS_CardinalityType
<1>8. waiting'[g] = waiting[g] - 1 /\ \A h \in Limiters : h # g => waiting'[h] = waiting[h]
  BY <1>0, <1>1 DEF Tallied
<1>9. waiting' \in [Limiters -> Nat]
  BY <1>0, <1>1, <1>7 DEF Tallied
<1>10. Cardinality(Allowed(g)') <= MaxQueue
  <2>1. IsFiniteSet(Allowed(g)) /\ IsFiniteSet(Allowed(g)')
        /\ Cardinality(Allowed(g)') <= Cardinality(Allowed(g))
    BY <1>5, <1>6, FS_Subset
  <2>2. Cardinality(Allowed(g)') \in Nat /\ Cardinality(Allowed(g)) \in Nat
    BY <2>1, FS_CardinalityType
  <2> QED
    BY <1>6, <2>1, <2>2, Sizes
<1>11. Tallied'
  <2>1. ASSUME NEW h \in Limiters, h # g
        PROVE  /\ IsFiniteSet(Waiters(h)') /\ waiting'[h] = Cardinality(Waiters(h)')
               /\ Cardinality(Allowed(h)') <= MaxQueue
    BY <1>0, <1>5, <1>8, <2>1 DEF Tallied
  <2> QED
    BY <1>7, <1>8, <1>9, <1>10, <2>1 DEF Tallied
<1> QED
  BY <1>3, <1>11 DEF IInv

\* A result of fn that frees the slot.
LEMMA ReturnOther ==
  ASSUME IInv, NEW c \in Callers, Holds(call[c]), call[c].pc # "granted",
         UNCHANGED <<flights, waiting>>,
         \/ FnReturns(c, Fails("failed"))
         \/ \E v : FnReturns(c, Result("ok", v))
         \/ CtxDone(c) /\ call[c].memo # "resolve" /\ FnReturns(c, Fails("cancelled"))
         \/ call[c].ctx = "cancelled" /\ FnReturns(c, Fails("cancelled"))
  PROVE  IInv'
<1>0. call[c].pc # "done" /\ Owned
  BY DEF Holds, IInv, Core
<1>1. CASE FnReturns(c, Fails("failed"))
  BY <1>1, Results, OtherHonest, ReturnKeeps
<1>2. ASSUME NEW v, FnReturns(c, Result("ok", v)) PROVE IInv'
  BY <1>2, Results, OtherHonest, ReturnKeeps
<1>3. CASE CtxDone(c) /\ call[c].memo # "resolve" /\ FnReturns(c, Fails("cancelled"))
  BY <1>0, <1>3, Results, CancelHonest, ReturnKeeps
<1>4. CASE call[c].ctx = "cancelled" /\ FnReturns(c, Fails("cancelled"))
  <2>1. Honest(Fails("cancelled").status, call[c].ctx)
    BY <1>4, Results DEF Honest
  <2> QED
    BY <1>4, <2>1, Results, ReturnKeeps
<1> QED
  BY <1>1, <1>2, <1>3, <1>4

\* A retry of the same stage keeps the slot, or asks for one again.
LEMMA AttemptKeeps ==
  ASSUME IInv, NEW c \in Callers, UNCHANGED <<flights, slots, queue, waiting>>, NEW p,
         \/ call[c].pc = "fetch" /\ p = "fetch"
         \/ call[c].pc = "sleep" /\ call[c].memo # "instagram" /\ p = "fetch"
         \/ call[c].pc = "sleep" /\ call[c].memo = "instagram" /\ p = "gate",
         NEW n, NEW x, NEW y,
         n = [[[call[c] EXCEPT !.pc = p] EXCEPT !.attempt = x] EXCEPT !.left = y],
         call' = [call EXCEPT ![c] = n]
  PROVE  IInv'
<1> DEFINE k == call[c]
           k1 == [k EXCEPT !.pc = p]
           k2 == [k1 EXCEPT !.attempt = x]
           k3 == [k2 EXCEPT !.left = y]
<1>0. IsCall(k) /\ Own(k)
  BY DEF IInv, Core, Shaped, Owned
<1>1. n = k3
  OBVIOUS
<1> HIDE DEF k
<1>2. IsCall(k1) /\ k1.pc = p /\ k1.memo = k.memo /\ k1.key = k.key /\ k1.ctx = k.ctx /\ k1.got = k.got
  BY <1>0, PcField
<1> HIDE DEF k1
<1>3. IsCall(k2) /\ k2.pc = p /\ k2.memo = k.memo /\ k2.key = k.key /\ k2.ctx = k.ctx /\ k2.got = k.got
  BY <1>2, AttemptField
<1> HIDE DEF k2
<1>4. IsCall(k3) /\ k3.pc = p /\ k3.memo = k.memo /\ k3.key = k.key /\ k3.ctx = k.ctx /\ k3.got = k.got
  BY <1>3, LeftField
<1> HIDE DEF k3
<1>5. Own(k3)
  BY <1>0, <1>4 DEF Own, k
<1>6. Calm(k, k3)
  BY <1>4 DEF Calm, Quiet, Waits, Busy, Holds, k
<1> QED
  BY <1>1, <1>4, <1>5, <1>6, CalmTurn DEF k

\* The steps of fn in TikTok's flights.
LEMMA TikTokKeeps ==
  ASSUME IInv, NEW c \in Callers,
         \/ ReuseMusic(c) \/ FollowShareLink(c) \/ FetchPost(c) \/ FetchMusic(c)
         \/ RetryFetch(c) \/ Sleep(c)
  PROVE  IInv'
<1> DEFINE k == call[c]
<1>0. IsCall(k) /\ Own(k) /\ call = [d \in Callers |-> call[d]]
  BY DEF IInv, Core, Shaped, Owned
<1>1. CASE ReuseMusic(c)
  <2>1. k.pc = "reuse" /\ Busy(k) /\ ~Holds(k) /\ UNCHANGED <<flights, slots, queue, waiting>>
    BY <1>1 DEF ReuseMusic, Busy, Holds
  <2>2. CASE Reusable(c)
    <3> DEFINE r == Result("ok", Value(cache["posts"], call[c].key))
    <3>1. call' = [call EXCEPT ![c].pc = "finish", ![c].res = r]
      BY <1>1, <2>2 DEF ReuseMusic
    <3>2. IsResult(r) /\ Honest(r.status, k.ctx)
      BY Results, OtherHonest
    <3> HIDE DEF r
    <3> QED
      BY <2>1, <3>1, <3>2, ResKeeps
  <2>3. CASE ~Reusable(c)
    <3>1. call' = [call EXCEPT ![c].pc = "gate"]
      BY <1>1, <2>3 DEF ReuseMusic
    <3> QED
      BY <2>1, <3>1, PcKeeps
  <2> QED
    BY <2>2, <2>3
<1>2. CASE FollowShareLink(c)
  <2>1. k.pc = "fetch" /\ Holds(k) /\ UNCHANGED <<flights, waiting>>
    BY <1>2 DEF FollowShareLink, Holds
  <2>2. CASE \/ FnReturns(c, Result("ok", NoValue)) \/ FnReturns(c, Fails("failed"))
             \/ call[c].ctx = "cancelled" /\ FnReturns(c, Fails("cancelled"))
    BY <2>1, <2>2, ReturnOther
  <2>3. CASE /\ call' = [call EXCEPT ![c].attempt = @ + 1, ![c].left = @ - 1]
             /\ UNCHANGED <<slots, queue>>
    <3> DEFINE n == [[[k EXCEPT !.pc = "fetch"] EXCEPT !.attempt = k.attempt + 1] EXCEPT !.left = k.left - 1]
    <3>1. k = [k EXCEPT !.pc = "fetch"]
      BY <1>0, <2>1 DEF IsCall
    <3>2. call' = [call EXCEPT ![c] = n]
      <4>1. call' = [call EXCEPT ![c] = [[k EXCEPT !.attempt = k.attempt + 1] EXCEPT !.left = k.left - 1]]
        <5> DEFINE k1 == [k EXCEPT !.attempt = k.attempt + 1]
        <5>1. k1.left = k.left
          BY <1>0 DEF IsCall
        <5> QED
          BY <1>0, <2>3, <5>1
      <4> QED
        BY <3>1, <4>1
    <3> HIDE DEF n
    <3> QED
      BY <2>1, <2>3, <3>2, AttemptKeeps DEF n
  <2> QED
    BY <1>2, <2>2, <2>3 DEF FollowShareLink
<1>3. CASE FetchPost(c) \/ FetchMusic(c)
  <2>1. k.pc = "fetch" /\ Holds(k) /\ UNCHANGED <<flights, waiting>> /\ k.memo # "resolve"
    BY <1>3 DEF FetchPost, FetchMusic, Holds
  <2> QED
    BY <1>3, <2>1, ReturnOther DEF FetchPost, FetchMusic
<1>4. CASE RetryFetch(c)
  <2>1. k.pc = "fetch" /\ Holds(k) /\ UNCHANGED <<flights, slots, queue, waiting>> /\ k.memo # "instagram"
        /\ call' = [call EXCEPT ![c].pc = "sleep"]
    BY <1>4 DEF RetryFetch, Holds
  <2> QED
    BY <2>1, PcKeeps
<1>5. CASE Sleep(c)
  <2>1. k.pc = "sleep" /\ Holds(k) /\ UNCHANGED <<flights, waiting>> /\ k.memo \notin {"instagram", "resolve"}
    BY <1>5 DEF Sleep, Holds
  <2>2. CASE \/ FnReturns(c, Fails("failed"))
             \/ CtxDone(c) /\ FnReturns(c, Fails("cancelled"))
    BY <2>1, <2>2, ReturnOther
  <2>3. CASE /\ call' = [call EXCEPT ![c].pc = "fetch", ![c].attempt = @ + 1, ![c].left = @ - 1]
             /\ UNCHANGED <<slots, queue>>
    <3> DEFINE n == [[[k EXCEPT !.pc = "fetch"] EXCEPT !.attempt = k.attempt + 1] EXCEPT !.left = k.left - 1]
               k1 == [k EXCEPT !.pc = "fetch"]
               k2 == [k1 EXCEPT !.attempt = k.attempt + 1]
    <3>1. k1.attempt = k.attempt /\ k1.left = k.left /\ IsCall(k1)
      BY <1>0 DEF IsCall
    <3>2. k2.left = k.left
      <4> HIDE DEF k1
      <4> QED
        BY <3>1 DEF IsCall
    <3>3. call' = [call EXCEPT ![c] = n]
      BY <1>0, <2>3, <3>1, <3>2
    <3> HIDE DEF n
    <3> QED
      BY <2>1, <2>3, <3>3, AttemptKeeps DEF n
  <2> QED
    BY <1>5, <2>2, <2>3 DEF Sleep
<1> QED
  BY <1>1, <1>2, <1>3, <1>4, <1>5

\* The steps of fn in Instagram's flights.
LEMMA InstagramKeeps ==
  ASSUME IInv, NEW c \in Callers, ExtractApp(c) \/ FetchLegacy(c) \/ SleepLegacy(c)
  PROVE  IInv'
<1> DEFINE k == call[c]
<1>0. IsCall(k) /\ Own(k) /\ call = [d \in Callers |-> call[d]] /\ Shaped /\ Owned
  BY DEF IInv, Core, Shaped, Owned
<1>1. CASE FetchLegacy(c)
  <2>1. k.pc = "fetch" /\ Holds(k) /\ UNCHANGED <<flights, waiting>> /\ k.memo = "instagram"
    BY <1>1 DEF FetchLegacy, Holds
  <2>2. CASE \/ FnReturns(c, Result("ok", New(FALSE))) \/ FnReturns(c, Fails("failed"))
             \/ CtxDone(c) /\ FnReturns(c, Fails("cancelled"))
    BY <2>1, <2>2, ReturnOther
  <2>3. CASE Released("instagram", [call EXCEPT ![c].pc = "sleep"])
    <3>1. PICK n : /\ IsCall(n) /\ Own(n) /\ n.pc = "sleep"
                   /\ n.memo = call[c].memo /\ n.key = call[c].key
                   /\ [call EXCEPT ![c].pc = "sleep"] = [call EXCEPT ![c] = n]
      BY <1>0, <2>1, PcMove
    <3>2. Released(LimiterOf(n.memo), [call EXCEPT ![c] = n]) /\ Busy(n) /\ ~Holds(n)
      BY <2>1, <2>3, <3>1 DEF LimiterOf, Busy, Holds
    <3> QED
      BY <2>1, <3>1, <3>2, GiveKeeps
  <2> QED
    BY <1>1, <2>2, <2>3 DEF FetchLegacy, extractLegacy
<1>2. CASE ExtractApp(c)
  <2>1. k.pc = "app" /\ Busy(k) /\ ~Holds(k) /\ UNCHANGED <<flights, slots, queue, waiting>>
    BY <1>2 DEF ExtractApp, Busy, Holds
  <2> QED
    <3>1. CASE call' = [call EXCEPT ![c].pc = "gate"]
      BY <2>1, <3>1, PcKeeps
    <3>2. CASE call' = [call EXCEPT ![c].pc = "finish", ![c].res = Result("ok", New(FALSE))]
      BY <2>1, <3>2, Results, OtherHonest, ResKeeps
    <3>3. CASE call' = [call EXCEPT ![c].pc = "finish", ![c].res = Fails("failed")]
      BY <2>1, <3>3, Results, OtherHonest, ResKeeps
    <3>4. CASE CtxDone(c) /\ call' = [call EXCEPT ![c].pc = "finish", ![c].res = Fails("cancelled")]
      <4>1. k.memo = "instagram"
        BY <1>0, <2>1 DEF Own
      <4> QED
        BY <2>1, <3>4, <4>1, Results, CancelHonest, ResKeeps, <1>0
    <3> QED
      BY <1>2, <3>1, <3>2, <3>3, <3>4 DEF ExtractApp
<1>3. CASE SleepLegacy(c)
  <2>1. k.pc = "sleep" /\ k.memo = "instagram" /\ Busy(k) /\ ~Holds(k) /\ UNCHANGED <<flights, slots, queue, waiting>>
    BY <1>3 DEF SleepLegacy, Busy, Holds
  <2>2. CASE call' = [call EXCEPT ![c].pc = "gate", ![c].attempt = @ + 1]
    <3> DEFINE k1 == [k EXCEPT !.pc = "gate"]
               k2 == [k1 EXCEPT !.attempt = k.attempt + 1]
               n == [k2 EXCEPT !.left = k.left]
    <3>1. k1.attempt = k.attempt /\ k1.left = k.left /\ IsCall(k1)
      BY <1>0 DEF IsCall
    <3>2. k2.left = k.left /\ IsCall(k2)
      <4> HIDE DEF k1
      <4> QED
        BY <3>1 DEF IsCall
    <3>3. n = k2
      <4> HIDE DEF k2
      <4> QED
        BY <3>2 DEF IsCall
    <3>4. call' = [call EXCEPT ![c] = n]
      BY <1>0, <2>2, <3>1, <3>3
    <3> HIDE DEF n
    <3> QED
      BY <2>1, <3>4, AttemptKeeps DEF n
  <2>3. CASE CtxDone(c) /\ call' = [call EXCEPT ![c].pc = "finish", ![c].res = Fails("cancelled")]
    BY <1>0, <2>1, <2>3, Results, CancelHonest, ResKeeps
  <2> QED
    BY <1>3, <2>2, <2>3 DEF SleepLegacy
<1> QED
  BY <1>1, <1>2, <1>3

\* Time passes: nothing but the age of responses changes.
LEMMA TickKeeps == IInv /\ Tick => IInv'
<1> SUFFICES ASSUME IInv, Tick PROVE IInv'
  OBVIOUS
<1>1. UNCHANGED <<flights, slots, queue, waiting>> /\ call' = [c \in Callers |-> call'[c]]
  BY DEF Tick
<1>2. ASSUME NEW c \in Callers
      PROVE  IsCall(call'[c]) /\ Own(call'[c]) /\ Calm(call[c], call'[c])
  <2> DEFINE k == call[c]
             g == [k.got EXCEPT !.value = AgedValue(k.got.value)]
             r == [k.res EXCEPT !.value = AgedValue(k.res.value)]
             m == [k EXCEPT !.got = g]
             n == [m EXCEPT !.res = r]
  <2>1. IsCall(k) /\ Own(k) /\ IsResult(k.got) /\ IsResult(k.res)
    BY DEF IInv, Core, Shaped, Owned, IsCall
  <2>2. IsResult(g) /\ g.status = k.got.status
    BY <2>1 DEF IsResult
  <2>3. IsResult(r) /\ r.status = k.res.status
    BY <2>1 DEF IsResult
  <2>4. m.res = k.res
    BY <2>1, <2>2, GotField
  <2>5. call'[c] = n
    BY <2>4 DEF Tick
  <2> HIDE DEF g, r, k
  <2>6. IsCall(m) /\ m.pc = k.pc /\ m.memo = k.memo /\ m.key = k.key /\ m.ctx = k.ctx /\ m.got = g
    BY <2>1, <2>2, GotField
  <2> HIDE DEF m
  <2>7. IsCall(n) /\ n.pc = k.pc /\ n.memo = k.memo /\ n.key = k.key /\ n.ctx = k.ctx
        /\ n.got = g /\ n.res = r
    BY <2>3, <2>6, ResField
  <2> HIDE DEF n
  <2>8. Own(n)
    BY <2>1, <2>2, <2>3, <2>7 DEF Own
  <2>9. Calm(k, n)
    BY <2>7 DEF Calm, Quiet, Waits, Busy, Holds
  <2> QED
    BY <2>5, <2>7, <2>8, <2>9 DEF k
<1>3. Shaped' /\ Owned'
  BY <1>1, <1>2 DEF Shaped, Owned
<1> QED
  BY <1>1, <1>2, <1>3, CalmKeeps

\* Every step keeps the invariant.
LEMMA NextInv == IInv /\ [Next]_vars => IInv'
<1> SUFFICES ASSUME IInv, [Next]_vars PROVE IInv'
  OBVIOUS
<1>1. CASE UNCHANGED vars
  <2>1. Shaped' /\ Owned' /\ \A d \in Callers : Calm(call[d], call'[d])
    BY <1>1 DEF vars, IInv, Core, Shaped, Owned, Calm, Quiet
  <2> QED
    BY <1>1, <2>1, CalmKeeps DEF vars
<1>2. CASE Tick
  BY <1>2, TickKeeps
<1>3. ASSUME NEW c \in Callers, Begin(c) \/ Cancel(c) \/ ResolveTimeout(c) \/ Step(c)
      PROVE  IInv'
  BY <1>3, CallerKeeps, EnterKeeps, FollowKeeps, FinishKeeps, AcquireKeeps,
     CountInKeeps, SelectKeeps, StopKeeps, CountOutKeeps, TikTokKeeps, InstagramKeeps DEF Step
<1> QED
  BY <1>1, <1>2, <1>3 DEF Next

\* The invariant holds in every state.
THEOREM Invariance == Spec => []IInv
  BY InitInv, NextInv, PTL DEF Spec

\* Whatever calls share a flight and whoever leads it, a call is reported as
\* cancelled or past its deadline only if its own context was (memo.do).
THEOREM CancelsItself == Spec => []CancelIsOwn
<1>1. IInv => CancelIsOwn
  BY DEF IInv, Core, Owned, Own, Honest, CancelIsOwn
<1> QED
  BY <1>1, Invariance, PTL

\* For any number of calls, keys and slots: at most one call per key works
\* upstream, exactly while its flight lasts; a limiter counts the calls that hold
\* its slots, a caller is queued only while there is none free, the count of
\* waiting callers is exact and at most MaxQueue of them have leave to wait.
THEOREM OneFlightPerKey == Spec => []WorkIsBounded
<1>1. ASSUME IInv PROVE WorkIsBounded
  <2> USE <1>1 DEF IInv, Core
  <2>1. ASSUME NEW m \in Memos, NEW k \in Links \cup Videos \cup Posts
        PROVE  Cardinality(Leaders(m, k)) = IF k \in flights[m] THEN 1 ELSE 0
    <3>1. Leaders(m, k) = {c \in Callers : Busy(call[c]) /\ call[c].memo = m /\ call[c].key = k}
      BY DEF Leaders, Busy
    <3>2. CASE k \in flights[m]
      <4>1. PICK c \in Callers : Busy(call[c]) /\ call[c].memo = m /\ call[c].key = k
        BY <3>2 DEF Flying
      <4>2. Leaders(m, k) = {c}
        BY <3>1, <4>1 DEF Flying
      <4> QED
        BY <3>2, <4>2, FS_Singleton
    <3>3. CASE k \notin flights[m]
      <4>1. Leaders(m, k) = {}
        BY <3>1, <3>3 DEF Flying
      <4> QED
        BY <3>3, <4>1, FS_EmptySet
    <3> QED
      BY <3>2, <3>3
  <2>2. ASSUME NEW g \in Limiters
        PROVE  /\ slots[g] = Cardinality({c \in Callers : HoldsSlot(c, g)})
               /\ slots[g] <= Concurrency
               /\ ToSet(queue[g]) = {c \in Callers : call[c].pc = "queued"
                                                       /\ LimiterOf(call[c].memo) = g}
               /\ queue[g] # <<>> => slots[g] = Concurrency
               /\ waiting[g] = Cardinality({c \in Callers : Counted(c, g)})
               /\ Cardinality({c \in Callers : Admitted(c, g)}) <= MaxQueue
    <3>1. \A c \in Callers : HoldsSlot(c, g) <=> Holds(call[c]) /\ LimiterOf(call[c].memo) = g
      BY BusyFacts, LimiterFacts DEF HoldsSlot, Holds, Owned, Own
    <3>2. {c \in Callers : HoldsSlot(c, g)} = Holders(g)
      BY <3>1 DEF Holders
    <3>3. slots[g] = Cardinality(Holders(g)) /\ slots[g] \in 0..Concurrency
      BY DEF Seated
    <3>4. slots[g] <= Concurrency
      BY <3>3, Sizes
    <3>5. queue[g] \in Seq(Callers) /\ (queue[g] # <<>> => slots[g] = Concurrency)
          /\ \A c \in Callers : In(c, queue[g]) <=> call[c].pc = "queued" /\ LimiterOf(call[c].memo) = g
      BY DEF Lined
    <3>6. ToSet(queue[g]) = {c \in Callers : In(c, queue[g])}
      BY <3>5 DEF ToSet, In
    <3>7. /\ {c \in Callers : Counted(c, g)} = Waiters(g)
          /\ {c \in Callers : Admitted(c, g)} = Allowed(g)
      BY DEF Counted, Admitted, Waiters, Allowed, Waits
    <3> QED
      BY <3>2, <3>3, <3>4, <3>5, <3>6, <3>7 DEF Tallied
  <2> QED
    BY <2>1, <2>2 DEF WorkIsBounded
<1> QED
  BY <1>1, Invariance, PTL
-----------------------------------------------------------------------------
(* What the caches hold *)

\* The entries at some positions of a list are entries of the list: the k-th of
\* them exists because the ranks of the positions are all different.
LEMMA Kept ==
  ASSUME NEW S, NEW q \in Seq(S), NEW K \in SUBSET DOMAIN q
  PROVE  Keep(q, K) \in Seq(S)
<1> DEFINE Upto(i) == {j \in K : j <= i}
           N == Cardinality(K)
           rank == [i \in K |-> Cardinality(Upto(i))]
<1>1. IsFiniteSet(K) /\ N \in Nat /\ K \subseteq Nat
  <2>1. DOMAIN q = 1..Len(q) /\ Len(q) \in Nat
    BY LenProperties
  <2>2. IsFiniteSet(1..Len(q))
    BY <2>1, FS_Interval
  <2> QED
    BY <2>1, <2>2, FS_Subset, FS_CardinalityType
<1>2. ASSUME NEW i \in K
      PROVE  /\ IsFiniteSet(Upto(i)) /\ rank[i] \in 1..N /\ rank[i] = Cardinality(Upto(i))
  <2>1. IsFiniteSet(Upto(i)) /\ Cardinality(Upto(i)) <= N /\ Cardinality(Upto(i)) \in Nat
    BY <1>1, FS_Subset, FS_CardinalityType
  <2>2. i \in Upto(i)
    BY <1>1
  <2>3. Cardinality(Upto(i)) # 0
    BY <2>1, <2>2, FS_EmptySet
  <2> QED
    BY <1>1, <2>1, <2>3
<1>3. ASSUME NEW i \in K, NEW j \in K, i < j
      PROVE  rank[i] # rank[j]
  <2>1. Upto(i) \subseteq Upto(j) /\ j \in Upto(j) /\ j \notin Upto(i)
    BY <1>1, <1>3
  <2>2. Upto(i) # Upto(j)
    BY <2>1
  <2> QED
    BY <1>2, <2>1, <2>2, FS_Subset
<1>4. rank \in Injection(K, 1..N)
  <2>1. rank \in [K -> 1..N]
    BY <1>2
  <2>2. ASSUME NEW i \in K, NEW j \in K, rank[i] = rank[j]
        PROVE  i = j
    <3>1. i \in Nat /\ j \in Nat
      BY <1>1
    <3>2. ~(i < j) /\ ~(j < i)
      BY <1>3, <2>2
    <3> QED
      BY <3>1, <3>2
  <2> QED
    BY <2>1, <2>2 DEF Injection, IsInjective
<1>5. Cardinality(1..N) = N /\ IsFiniteSet(1..N)
  BY <1>1, FS_Interval
<1>6. rank \in Surjection(K, 1..N)
  BY <1>4, <1>5, FS_Injection
<1>7. ASSUME NEW n \in 1..N
      PROVE  Keep(q, K)[n] \in S
  <2>1. \E i \in K : rank[i] = n
    BY <1>6 DEF Surjection
  <2>2. \E i \in K : Cardinality({j \in K : j <= i}) = n
    BY <2>1
  <2>3. (CHOOSE i \in K : Cardinality({j \in K : j <= i}) = n) \in K
    BY <2>2
  <2>4. \A i \in K : q[i] \in S
    BY LenProperties, ElementOfSeq
  <2> QED
    BY <2>3, <2>4 DEF Keep
<1>8. Keep(q, K) \in [1..N -> S]
  <2>1. Keep(q, K) = [n \in 1..N |-> Keep(q, K)[n]]
    BY DEF Keep
  <2> QED
    BY <1>7, <2>1
<1> QED
  BY <1>1, <1>8, SeqDef

\* A response, with the time its assets have left.
IsValue(v) == v = Response(v.left, v.audio) /\ v.left \in Nat

\* An entry of a cache; one of the music cache does not outlive its assets.
Sound(n, e) ==
  /\ e = Entry(e.key, e.value, e.left) /\ e.left \in Nat /\ IsValue(e.value)
  /\ n = "music" => e.left <= e.value.left

\* A cache with sound entries only; that all caches are such, and that what a
\* call returns is a response.
Holding(n, q) == \E S : q \in Seq(S) /\ \A e \in S : Sound(n, e)
Stocked ==
  /\ cache = [n \in Memos |-> cache[n]] /\ \A n \in Memos : Holding(n, cache[n])
  /\ \A c \in Callers : IsValue(call[c].res.value)

\* The values fn and memo.do make up.
LEMMA Values ==
  /\ \A a : IsValue(New(a)) /\ IsValue(NoValue) /\ IsValue(Nothing.value)
  /\ \A s : IsValue(Fails(s).value)
  BY ExtractionAssumption DEF IsValue, New, NoValue, Nothing, Fails, Result, Response

\* A hit has a value.
LEMMA HitValue ==
  ASSUME NEW n, NEW q, Holding(n, q), NEW k, Hit(q, k)
  PROVE  IsValue(Value(q, k))
<1>1. PICK S : q \in Seq(S) /\ \A e \in S : Sound(n, e)
  BY DEF Holding
<1>2. \A e \in Live(q, k) : e \in S
  BY <1>1 DEF Live, ToSet
<1>3. (CHOOSE e \in Live(q, k) : TRUE) \in Live(q, k)
  BY DEF Hit
<1> QED
  BY <1>1, <1>2, <1>3 DEF Value, Sound

\* Get invents no entry.
LEMMA GetHolds ==
  ASSUME NEW n, NEW q, Holding(n, q), NEW k
  PROVE  Holding(n, Get(q, k))
<1>1. PICK S : q \in Seq(S) /\ \A e \in S : Sound(n, e)
  BY DEF Holding
<1>2. Keep(q, {i \in DOMAIN q : q[i] \in Live(q, k)}) \in Seq(S) /\ remove(q, k) \in Seq(S)
  BY <1>1, Kept DEF remove
<1>3. Get(q, k) \in Seq(S)
  BY <1>2, ConcatProperties DEF Get
<1> QED
  BY <1>1, <1>3 DEF Holding

\* SetUntil adds one, if it has time left.
LEMMA SetHolds ==
  ASSUME NEW n, NEW q, Holding(n, q), NEW k, NEW v, IsValue(v), NEW left \in Nat,
         n = "music" => left <= v.left
  PROVE  Holding(n, SetUntil(q, k, v, left, Capacity))
<1> DEFINE live == Keep(q, {i \in DOMAIN q : q[i].left > 0})
           rest == remove(live, k)
           new == Entry(k, v, left)
           m == IF Len(rest) < Capacity THEN Len(rest) ELSE Capacity - 1
<1>1. PICK S : q \in Seq(S) /\ \A e \in S : Sound(n, e)
  BY DEF Holding
<1>2. live \in Seq(S)
  BY <1>1, Kept
<1> HIDE DEF live
<1>3. rest \in Seq(S)
  BY <1>2, Kept DEF remove
<1> HIDE DEF rest
<1>4. SetUntil(q, k, v, left, Capacity) = IF left = 0 THEN rest ELSE <<new>> \o SubSeq(rest, 1, m)
  BY DEF SetUntil, live, rest
<1>5. CASE left = 0
  BY <1>1, <1>3, <1>4, <1>5 DEF Holding
<1>6. CASE left # 0
  <2> DEFINE T == S \cup {new}
  <2>1. Sound(n, new)
    BY DEF Sound, Entry
  <2>2. Len(rest) \in Nat /\ m \in Int /\ m <= Len(rest)
    BY <1>3, LenProperties, ExtractionAssumption
  <2> HIDE DEF m, new
  <2>3. \A i \in 1..m : rest[i] \in T
    BY <1>3, <2>2, ElementOfSeq
  <2>4. SubSeq(rest, 1, m) \in Seq(T)
    BY <2>2, <2>3, SubSeqProperties
  <2>5. <<new>> \in Seq(T)
    OBVIOUS
  <2>6. <<new>> \o SubSeq(rest, 1, m) \in Seq(T)
    BY <2>4, <2>5, ConcatProperties
  <2> QED
    BY <1>1, <1>4, <1>6, <2>1, <2>6 DEF Holding
<1> QED
  BY <1>5, <1>6

\* Entries age together with what they hold.
LEMMA AgeHolds ==
  ASSUME NEW n, NEW q, Holding(n, q)
  PROVE  Holding(n, [i \in DOMAIN q |-> [q[i] EXCEPT !.left = Less(@), !.value = AgedValue(@)]])
<1> DEFINE Aged(e) == [e EXCEPT !.left = Less(@), !.value = AgedValue(@)]
<1>1. PICK S : q \in Seq(S) /\ \A e \in S : Sound(n, e)
  BY DEF Holding
<1> DEFINE T == {Aged(e) : e \in S}
<1>2. ASSUME NEW e \in S
      PROVE  Sound(n, Aged(e))
  <2> DEFINE v == e.value
             w == AgedValue(v)
  <2>1. Sound(n, e) /\ IsValue(v)
    BY <1>1 DEF Sound
  <2>2. w.left = Less(v.left) /\ w = Response(Less(v.left), v.audio)
    BY <2>1 DEF IsValue, AgedValue, Response
  <2>3. \A t \in Nat : Less(t) \in Nat
    BY DEF Less
  <2>4. IsValue(w)
    BY <2>1, <2>2, <2>3 DEF IsValue, Response
  <2>5. Aged(e) = Entry(e.key, w, Less(e.left))
    <3> DEFINE l == Less(e.left)
               m == [e EXCEPT !.left = l]
    <3>1. m = Entry(e.key, v, l) /\ m.value = v
      BY <2>1 DEF Sound, Entry
    <3>2. Aged(e) = [m EXCEPT !.value = w]
      BY <3>1
    <3> HIDE DEF l, w, v, m
    <3>3. [m EXCEPT !.value = w] = Entry(e.key, w, l)
      BY <3>1 DEF Entry
    <3> QED
      BY <3>2, <3>3 DEF l
  <2>6. n = "music" => Less(e.left) <= Less(v.left)
    BY <2>1 DEF Sound, IsValue, Less
  <2> HIDE DEF w, v
  <2> QED
    BY <2>1, <2>2, <2>3, <2>4, <2>5, <2>6 DEF Sound, Entry
<1>3. [i \in DOMAIN q |-> Aged(q[i])] \in Seq(T)
  <2>1. DOMAIN q = 1..Len(q) /\ Len(q) \in Nat
    BY <1>1, LenProperties
  <2>2. \A i \in DOMAIN q : Aged(q[i]) \in T
    BY <1>1, <2>1, ElementOfSeq
  <2> HIDE DEF Aged
  <2>3. [i \in DOMAIN q |-> Aged(q[i])] \in [1..Len(q) -> T]
    BY <2>1, <2>2
  <2> QED
    BY <2>1, <2>3, SeqDef
<1>4. \A e \in T : Sound(n, e)
  BY <1>2
<1> QED
  BY <1>3, <1>4 DEF Holding
\* Every result a step leaves was there before, or has a value.
Valued(f) ==
  /\ DOMAIN f = Callers
  /\ \A d \in Callers : /\ "res" \in DOMAIN f[d]
                        /\ f[d].res = call[d].res \/ IsValue(f[d].res.value)

\* So a step has to see to the caches only where it writes to them.
LEMMA StockFrame ==
  ASSUME Stocked, Valued(call'), cache' = [n \in Memos |-> cache'[n]],
         \A n \in Memos : cache'[n] = cache[n] \/ Holding(n, cache'[n])
  PROVE  Stocked'
  BY DEF Stocked, Valued

\* Most steps write nothing to a cache.
LEMMA StockCalm ==
  ASSUME Stocked, Valued(call'), UNCHANGED cache
  PROVE  Stocked'
<1>1. cache' = [n \in Memos |-> cache'[n]] /\ \A n \in Memos : cache'[n] = cache[n]
  BY DEF Stocked
<1> QED
  BY <1>1, StockFrame

\* One cache changes.
LEMMA StockOne ==
  ASSUME Stocked, Valued(call'), NEW n \in Memos, NEW q, Holding(n, q),
         cache' = [cache EXCEPT ![n] = q]
  PROVE  Stocked'
<1>1. /\ cache' = [m \in Memos |-> cache'[m]] /\ cache'[n] = q
      /\ \A m \in Memos : m # n => cache'[m] = cache[m]
  BY DEF Stocked
<1> QED
  BY <1>1, StockFrame

\* A call as it was is as good as before,
LEMMA CallValued ==
  ASSUME Shaped, NEW c \in Callers, NEW n, IsCall(n),
         n.res = call[c].res \/ IsValue(n.res.value)
  PROVE  Valued([call EXCEPT ![c] = n])
<1>1. "res" \in DOMAIN n /\ \A d \in Callers : "res" \in DOMAIN call[d]
  BY DEF IsCall, Shaped
<1> QED
  BY <1>1 DEF Shaped, Valued

\* and so is one that moves on, or notes what was tried.
LEMMA MoveValued ==
  ASSUME Shaped, NEW c \in Callers, NEW p, NEW x, NEW y
  PROVE  /\ Valued([call EXCEPT ![c].pc = p])
         /\ Valued([call EXCEPT ![c].ctx = p])
         /\ Valued([call EXCEPT ![c].pc = p, ![c].got = Nothing])
         /\ Valued([call EXCEPT ![c].attempt = x, ![c].left = y])
         /\ Valued([call EXCEPT ![c].pc = p, ![c].attempt = x])
         /\ Valued([call EXCEPT ![c].pc = p, ![c].attempt = x, ![c].left = y])
<1> DEFINE k == call[c]
<1>0. IsCall(k) /\ call = [d \in Callers |-> call[d]] /\ IsResult(Nothing)
  BY Results DEF Shaped
<1>1. Valued([call EXCEPT ![c].pc = p])
  <2> DEFINE n == [k EXCEPT !.pc = p]
  <2>1. IsCall(n) /\ n.res = k.res /\ [call EXCEPT ![c].pc = p] = [call EXCEPT ![c] = n]
    BY <1>0, PcField
  <2> HIDE DEF n
  <2> QED
    BY <2>1, CallValued
<1>2. Valued([call EXCEPT ![c].ctx = p])
  <2> DEFINE n == [k EXCEPT !.ctx = p]
  <2>1. IsCall(n) /\ n.res = k.res /\ [call EXCEPT ![c].ctx = p] = [call EXCEPT ![c] = n]
    BY <1>0, CtxField
  <2> HIDE DEF n
  <2> QED
    BY <2>1, CallValued
<1>3. Valued([call EXCEPT ![c].pc = p, ![c].got = Nothing])
  <2> DEFINE m == [k EXCEPT !.pc = p]
             n == [m EXCEPT !.got = Nothing]
  <2>1. [call EXCEPT ![c].pc = p, ![c].got = Nothing] = [call EXCEPT ![c] = n]
    BY <1>0
  <2>2. IsCall(m) /\ m.res = k.res
    BY <1>0, PcField
  <2> HIDE DEF m
  <2>3. IsCall(n) /\ n.res = k.res
    BY <1>0, <2>2, GotField
  <2> HIDE DEF n
  <2> QED
    BY <2>1, <2>3, CallValued
<1>4. Valued([call EXCEPT ![c].attempt = x, ![c].left = y])
  <2> DEFINE m == [k EXCEPT !.attempt = x]
             n == [m EXCEPT !.left = y]
  <2>1. [call EXCEPT ![c].attempt = x, ![c].left = y] = [call EXCEPT ![c] = n]
    BY <1>0
  <2>2. IsCall(m) /\ m.res = k.res
    BY <1>0, AttemptField
  <2> HIDE DEF m
  <2>3. IsCall(n) /\ n.res = k.res
    BY <2>2, LeftField
  <2> HIDE DEF n
  <2> QED
    BY <2>1, <2>3, CallValued
<1>5. /\ Valued([call EXCEPT ![c].pc = p, ![c].attempt = x])
      /\ Valued([call EXCEPT ![c].pc = p, ![c].attempt = x, ![c].left = y])
  <2> DEFINE l == [k EXCEPT !.pc = p]
             m == [l EXCEPT !.attempt = x]
             n == [m EXCEPT !.left = y]
  <2>1. /\ [call EXCEPT ![c].pc = p, ![c].attempt = x] = [call EXCEPT ![c] = m]
        /\ [call EXCEPT ![c].pc = p, ![c].attempt = x, ![c].left = y] = [call EXCEPT ![c] = n]
    BY <1>0
  <2>2. IsCall(l) /\ l.res = k.res
    BY <1>0, PcField
  <2> HIDE DEF l
  <2>3. IsCall(m) /\ m.res = k.res
    BY <2>2, AttemptField
  <2> HIDE DEF m
  <2>4. IsCall(n) /\ n.res = k.res
    BY <2>3, LeftField
  <2> HIDE DEF n
  <2> QED
    BY <2>1, <2>3, <2>4, CallValued
<1> QED
  BY <1>1, <1>2, <1>3, <1>4, <1>5

\* fn returns something of value.
LEMMA EndValued ==
  ASSUME Shaped, NEW c \in Callers, NEW r, IsResult(r), IsValue(r.value)
  PROVE  Valued([call EXCEPT ![c].pc = "finish", ![c].res = r])
<1> DEFINE k == call[c]
           m == [k EXCEPT !.pc = "finish"]
           n == [m EXCEPT !.res = r]
<1>1. IsCall(k) /\ call = [d \in Callers |-> call[d]]
  BY DEF Shaped
<1>2. [call EXCEPT ![c].pc = "finish", ![c].res = r] = [call EXCEPT ![c] = n]
  BY <1>1
<1>3. IsCall(m)
  BY <1>1, PcField
<1> HIDE DEF m
<1>4. IsCall(n) /\ n.res = r
  BY <1>3, ResField
<1> HIDE DEF n
<1> QED
  BY <1>2, <1>4, CallValued

\* The caller that gets a slot handed over only moves on.
LEMMA ReleaseValued ==
  ASSUME NEW f, Valued(f), NEW g, Released(g, f)
  PROVE  Valued(call')
<1>1. CASE call' = f
  BY <1>1 DEF Valued
<1>2. CASE call' = [f EXCEPT ![Head(queue[g])].pc = "granted"]
  <2>1. DOMAIN call' = Callers
    BY <1>2 DEF Valued
  <2>2. ASSUME NEW d \in Callers
        PROVE  "res" \in DOMAIN call'[d] /\ call'[d].res = f[d].res
    <3>1. call'[d] = f[d] \/ call'[d] = [f[d] EXCEPT !.pc = "granted"]
      BY <1>2 DEF Valued
    <3>2. "res" \in DOMAIN f[d]
      BY DEF Valued
    <3> QED
      BY <3>1, <3>2
  <2> QED
    BY <2>1, <2>2 DEF Valued
<1> QED
  BY <1>1, <1>2 DEF Released

\* memo.do's answer carries no value further.
LEMMA AnswerValued ==
  ASSUME Shaped, NEW c \in Callers, NEW r, IsResult(r), Answer(c, r)
  PROVE  Valued(call')
<1> DEFINE n == Answered(call[c], r)
<1>1. IsCall(call[c])
  BY DEF Shaped
<1>2. IsCall(n) /\ (n.res = Nothing \/ n.res = Fails(r.status))
  BY <1>1, AnsweredCall
<1>3. call' = [call EXCEPT ![c] = n]
  BY DEF Answer, Shaped
<1> HIDE DEF n
<1> QED
  BY <1>2, <1>3, Values, CallValued

\* What fn may return.
Worth(r) == IsResult(r) /\ IsValue(r.value)

\* A failure, a fresh response and the shortened link are such results.
LEMMA Worths ==
  /\ \A s : Worth(Fails(s))
  /\ \A a : Worth(Result("ok", New(a)))
  /\ Worth(Result("ok", NoValue))
  BY Results, Values DEF Worth

\* The slot goes back with the result.
LEMMA ReturnValued ==
  ASSUME Shaped, NEW c \in Callers, NEW r, Worth(r), FnReturns(c, r)
  PROVE  Valued(call')
  BY EndValued, ReleaseValued DEF Worth, FnReturns

\* The steps around fn that only move the call.
LEMMA CallerStocks ==
  ASSUME Shaped, Stocked, NEW c \in Callers,
         Begin(c) \/ Cancel(c) \/ ResolveTimeout(c) \/ RetryFetch(c)
  PROVE  Stocked'
<1>1. UNCHANGED cache
  BY DEF Begin, Cancel, ResolveTimeout, RetryFetch
<1>2. \E p : call' = [call EXCEPT ![c].pc = p] \/ call' = [call EXCEPT ![c].ctx = p]
  BY DEF Begin, Cancel, ResolveTimeout, RetryFetch
<1>3. Valued(call')
  <2>1. ASSUME NEW p, call' = [call EXCEPT ![c].pc = p] PROVE Valued(call')
    BY <2>1, MoveValued
  <2>2. ASSUME NEW p, call' = [call EXCEPT ![c].ctx = p] PROVE Valued(call')
    BY <2>2, MoveValued
  <2> QED
    BY <1>2, <2>1, <2>2
<1> QED
  BY <1>1, <1>3, StockCalm

\* The top of memo.do, which may read a cache.
LEMMA EnterStocks ==
  ASSUME Shaped, Owned, Stocked, NEW c \in Callers, Enter(c)
  PROVE  Stocked'
<1> DEFINE m == call[c].memo
           k == call[c].key
<1>1. IsCall(call[c]) /\ call[c].pc = "enter" /\ m \in Memos /\ call = [d \in Callers |-> call[d]]
  BY DEF Shaped, Owned, Own, Enter
<1>2. Valued(call')
  <2>1. CASE \E r : IsResult(r) /\ Answer(c, r)
    BY <2>1, AnswerValued
  <2>2. CASE call' = [call EXCEPT ![c].pc = "wait"]
    BY <2>2, MoveValued
  <2>3. CASE call' = [call EXCEPT ![c] = Started(@)]
    <3> DEFINE n == Started(call[c])
    <3>1. IsCall(n) /\ (n.res = call[c].res \/ n.res = Result("ok", NoValue))
      BY <1>1, StartedCall
    <3>2. call' = [call EXCEPT ![c] = n]
      BY <1>1, <2>3
    <3> HIDE DEF n
    <3>3. n.res = call[c].res \/ IsValue(n.res.value)
      BY <3>1, Worths DEF Worth
    <3> QED
      BY <3>1, <3>2, <3>3, CallValued
  <2> QED
    BY <2>1, <2>2, <2>3, Results DEF Enter
<1>3. CASE cache' = cache
  BY <1>2, <1>3, StockCalm
<1>4. CASE cache' = [cache EXCEPT ![m] = Get(@, k)]
  <2>1. Holding(m, Get(cache[m], k)) /\ cache' = [cache EXCEPT ![m] = Get(cache[m], k)]
    BY <1>1, <1>4, GetHolds DEF Stocked
  <2> QED
    BY <1>1, <1>2, <2>1, StockOne
<1> QED
  BY <1>3, <1>4 DEF Enter

\* A follower.
LEMMA FollowStocks ==
  ASSUME Shaped, Stocked, NEW c \in Callers, Follow(c)
  PROVE  Stocked'
<1>1. UNCHANGED cache
  BY DEF Follow
<1>2. IsResult(call[c].got)
  BY DEF Shaped, IsCall
<1>3. Valued(call')
  <2>1. CASE \E r : IsResult(r) /\ Answer(c, r)
    BY <2>1, AnswerValued
  <2>2. CASE call' = [call EXCEPT ![c].pc = "enter", ![c].got = Nothing]
    BY <2>2, MoveValued
  <2> QED
    BY <1>2, <2>1, <2>2, Results DEF Follow
<1> QED
  BY <1>1, <1>3, StockCalm

\* The leader, after fn: what it caches as music expires with its assets, or
\* before (memo.expires).
LEMMA FinishStocks ==
  ASSUME Shaped, Owned, Stocked, NEW c \in Callers, Finish(c)
  PROVE  Stocked'
<1> DEFINE m == call[c].memo
           k == call[c].key
           v == call[c].res.value
<1>1. IsCall(call[c]) /\ IsResult(call[c].res) /\ call[c].pc = "finish" /\ m \in Memos
      /\ IsValue(v)
  BY DEF Shaped, IsCall, Owned, Own, Finish, Stocked
<1>2. Valued(call')
  <2>1. call' = [d \in Callers |->
                IF d = c THEN Answered(call[c], call[c].res)
                ELSE IF d \in Followers(c) THEN [call[d] EXCEPT !.got = FlightResult(c)]
                ELSE call[d]]
    BY DEF Finish
  <2>2. ASSUME NEW d \in Callers
        PROVE  /\ "res" \in DOMAIN call'[d]
               /\ call'[d].res = call[d].res \/ IsValue(call'[d].res.value)
    <3>1. CASE d = c
      <4> DEFINE n == Answered(call[c], call[c].res)
      <4>1. IsCall(n) /\ (n.res = Nothing \/ n.res = Fails(call[c].res.status))
        BY <1>1, AnsweredCall
      <4>2. call'[d] = n
        BY <2>1, <3>1
      <4> HIDE DEF n
      <4>3. "res" \in DOMAIN n
        BY <4>1 DEF IsCall
      <4> QED
        BY <4>1, <4>2, <4>3, Values
    <3>2. CASE d # c
      <4>1. call'[d] = call[d] \/ call'[d] = [call[d] EXCEPT !.got = FlightResult(c)]
        BY <2>1, <3>2
      <4>2. "res" \in DOMAIN call[d]
        BY DEF Shaped, IsCall
      <4> QED
        BY <4>1, <4>2
    <3> QED
      BY <3>1, <3>2
  <2> QED
    BY <2>1, <2>2 DEF Valued
<1>3. CASE cache' = cache
  BY <1>2, <1>3, StockCalm
<1>4. CASE cache' = [cache EXCEPT ![m] = SetUntil(@, k, v, PutFor(m, v), Capacity)]
  <2>1. TTL(m) \in Nat
    BY <1>1, ExtractionAssumption DEF TTL, Memos
  <2>2. PutFor(m, v) \in Nat /\ (m = "music" => PutFor(m, v) <= v.left)
    BY <1>1, <2>1 DEF PutFor, IsValue
  <2>3. Holding(m, SetUntil(cache[m], k, v, PutFor(m, v), Capacity))
    BY <1>1, <2>2, SetHolds DEF Stocked
  <2> DEFINE q == SetUntil(cache[m], k, v, PutFor(m, v), Capacity)
  <2>4. cache' = [cache EXCEPT ![m] = q]
    BY <1>1, <1>4 DEF Stocked
  <2> HIDE DEF q
  <2> QED
    BY <1>1, <1>2, <2>3, <2>4, StockOne DEF q
<1> QED
  BY <1>3, <1>4 DEF Finish

\* The steps of Acquire.
LEMMA LimiterStocks ==
  ASSUME Shaped, Stocked, NEW c \in Callers,
         Acquire(c) \/ CountIn(c) \/ Select(c) \/ StopWaiting(c) \/ CountOut(c)
  PROVE  Stocked'
<1>1. UNCHANGED cache
  BY DEF Acquire, CountIn, Select, StopWaiting, CountOut
<1>2. ASSUME NEW p, call' = [call EXCEPT ![c].pc = p] PROVE Valued(call')
  BY <1>2, MoveValued
<1>4. ASSUME NEW s, call' = [call EXCEPT ![c].pc = "finish", ![c].res = Fails(s)]
      PROVE  Valued(call')
  BY <1>4, EndValued, Worths DEF Worth
<1>3. Valued(call')
  BY <1>2, <1>4 DEF Acquire, CountIn, Select, StopWaiting, CountOut
<1> QED
  BY <1>1, <1>3, StockCalm

\* Music of a cached post.
LEMMA ReuseStocks ==
  ASSUME Shaped, Stocked, NEW c \in Callers, ReuseMusic(c)
  PROVE  Stocked'
<1> DEFINE q == cache["posts"]
           k == call[c].key
           r == Result("ok", Value(q, k))
<1>1. Holding("posts", q) /\ "posts" \in Memos
  BY DEF Stocked, Memos
<1>2. Valued(call')
  <2>1. CASE Reusable(c)
    <3>1. IsValue(Value(q, k))
      BY <1>1, <2>1, HitValue DEF Reusable
    <3>2. IsResult(r) /\ r.value = Value(q, k)
      BY Results
    <3>3. call' = [call EXCEPT ![c].pc = "finish", ![c].res = r]
      BY <2>1 DEF ReuseMusic
    <3> HIDE DEF r
    <3> QED
      BY <3>1, <3>2, <3>3, EndValued
  <2>2. CASE ~Reusable(c)
    BY <2>2, MoveValued DEF ReuseMusic
  <2> QED
    BY <2>1, <2>2
<1>3. CASE cache' = cache
  BY <1>2, <1>3, StockCalm
<1>4. CASE cache' = [cache EXCEPT !["posts"] = Get(@, k)]
  <2>1. Holding("posts", Get(q, k)) /\ cache' = [cache EXCEPT !["posts"] = Get(q, k)]
    BY <1>1, <1>4, GetHolds
  <2> QED
    BY <1>1, <1>2, <2>1, StockOne
<1> QED
  BY <1>3, <1>4 DEF ReuseMusic

\* The rest of fn.
LEMMA FnStocks ==
  ASSUME Shaped, Stocked, NEW c \in Callers,
         \/ FollowShareLink(c) \/ FetchPost(c) \/ FetchMusic(c) \/ Sleep(c)
         \/ ExtractApp(c) \/ FetchLegacy(c) \/ SleepLegacy(c)
  PROVE  Stocked'
<1>1. UNCHANGED cache
  BY DEF FollowShareLink, FetchPost, FetchMusic, Sleep, ExtractApp, FetchLegacy, SleepLegacy
<1>2. CASE \E r : Worth(r) /\ FnReturns(c, r)
  BY <1>1, <1>2, ReturnValued, StockCalm
<1>3. CASE \E r : Worth(r) /\ call' = [call EXCEPT ![c].pc = "finish", ![c].res = r]
  BY <1>1, <1>3, EndValued, StockCalm DEF Worth
<1>4. ASSUME NEW x, NEW y, NEW p,
             \/ call' = [call EXCEPT ![c].attempt = x, ![c].left = y]
             \/ call' = [call EXCEPT ![c].pc = p, ![c].attempt = x]
             \/ call' = [call EXCEPT ![c].pc = p, ![c].attempt = x, ![c].left = y]
             \/ call' = [call EXCEPT ![c].pc = p]
      PROVE  Stocked'
  <2>1. CASE call' = [call EXCEPT ![c].attempt = x, ![c].left = y]
    BY <1>1, <2>1, MoveValued, StockCalm
  <2>2. CASE call' = [call EXCEPT ![c].pc = p, ![c].attempt = x]
    BY <1>1, <2>2, MoveValued, StockCalm
  <2>3. CASE call' = [call EXCEPT ![c].pc = p, ![c].attempt = x, ![c].left = y]
    BY <1>1, <2>3, MoveValued, StockCalm
  <2>4. CASE call' = [call EXCEPT ![c].pc = p]
    BY <1>1, <2>4, MoveValued, StockCalm
  <2> QED
    BY <1>4, <2>1, <2>2, <2>3, <2>4
<1>5. CASE Released("instagram", [call EXCEPT ![c].pc = "sleep"])
  BY <1>1, <1>5, MoveValued, ReleaseValued, StockCalm
<1>0. call = [d \in Callers |-> call[d]]
  BY DEF Shaped
<1>6. CASE FollowShareLink(c)
  <2>1. CASE call' = [call EXCEPT ![c].attempt = @ + 1, ![c].left = @ - 1]
    <3> DEFINE f == [call EXCEPT ![c].attempt = call[c].attempt + 1]
    <3>1. \E y : call' = [call EXCEPT ![c].attempt = call[c].attempt + 1, ![c].left = y]
      <4>1. call' = [call EXCEPT ![c].attempt = call[c].attempt + 1, ![c].left = f[c].left - 1]
        BY <2>1
      <4> HIDE DEF f
      <4> QED
        BY <4>1
    <3> QED
      BY <3>1, <1>4
  <2> QED
    BY <1>2, <1>6, <2>1, Worths DEF FollowShareLink
<1>7. CASE FetchPost(c) \/ FetchMusic(c)
  BY <1>2, <1>7, Worths DEF FetchPost, FetchMusic
<1>8. CASE Sleep(c)
  <2>1. CASE call' = [call EXCEPT ![c].pc = "fetch", ![c].attempt = @ + 1, ![c].left = @ - 1]
    <3>1. \E x, y : call' = [call EXCEPT ![c].pc = "fetch", ![c].attempt = x, ![c].left = y]
      BY <2>1
    <3> QED
      BY <3>1, <1>4
  <2> QED
    BY <1>2, <1>8, <2>1, Worths DEF Sleep
<1>9. CASE ExtractApp(c)
  BY <1>3, <1>4, <1>9, Worths DEF ExtractApp
<1>10. CASE FetchLegacy(c)
  BY <1>2, <1>5, <1>10, Worths DEF FetchLegacy, extractLegacy
<1>11. CASE SleepLegacy(c)
  BY <1>0, <1>3, <1>4, <1>11, Worths DEF SleepLegacy
<1> QED
  BY <1>6, <1>7, <1>8, <1>9, <1>10, <1>11

\* Time passes for the caches and the results alike.
LEMMA TickStocks ==
  ASSUME Shaped, Stocked, Tick
  PROVE  Stocked'
<1>1. cache' = [n \in Memos |-> cache'[n]] /\ \A n \in Memos : Holding(n, cache'[n])
  <2>1. /\ cache' = [n \in Memos |-> cache'[n]]
        /\ \A n \in Memos : cache'[n] = [i \in DOMAIN cache[n] |->
              [cache[n][i] EXCEPT !.left = Less(@), !.value = AgedValue(@)]]
    BY DEF Tick
  <2>2. ASSUME NEW n \in Memos PROVE Holding(n, cache'[n])
    <3> DEFINE q == cache[n]
    <3>1. Holding(n, q)
      BY DEF Stocked
    <3>2. cache'[n] = [i \in DOMAIN q |-> [q[i] EXCEPT !.left = Less(@), !.value = AgedValue(@)]]
      BY <2>1
    <3> HIDE DEF q
    <3>3. Holding(n, [i \in DOMAIN q |-> [q[i] EXCEPT !.left = Less(@), !.value = AgedValue(@)]])
      BY <3>1, AgeHolds
    <3> QED
      BY <3>2, <3>3
  <2> QED
    BY <2>1, <2>2
<1>2. ASSUME NEW c \in Callers
      PROVE  IsValue(call'[c].res.value)
  <2> DEFINE k == call[c]
             g == [k.got EXCEPT !.value = AgedValue(k.got.value)]
             v == k.res.value
             r == [k.res EXCEPT !.value = AgedValue(v)]
             m == [k EXCEPT !.got = g]
             n == [m EXCEPT !.res = r]
  <2>1. IsCall(k) /\ IsResult(k.got) /\ IsResult(k.res) /\ IsValue(v)
    BY DEF Shaped, IsCall, Stocked
  <2>2. IsResult(g) /\ IsResult(r) /\ r.value = AgedValue(v)
    BY <2>1 DEF IsResult
  <2>3. IsValue(AgedValue(v))
    BY <2>1 DEF IsValue, AgedValue, Response, Less
  <2>4. IsCall(m) /\ m.res = k.res
    BY <2>1, <2>2, GotField
  <2>5. call'[c] = n
    BY <2>4 DEF Tick
  <2> HIDE DEF m, r, g
  <2>6. n.res = r
    BY <2>2, <2>4, ResField
  <2> QED
    BY <2>2, <2>3, <2>5, <2>6
<1> QED
  BY <1>1, <1>2 DEF Stocked

\* The invariant of the caches holds in every state.
THEOREM CachesInvariance == Spec => []Stocked
<1>1. Init => Stocked
  <2> SUFFICES ASSUME Init PROVE Stocked
    OBVIOUS
  <2>1. cache = [n \in Memos |-> <<>>]
    BY DEF Init
  <2>2. \A n : Holding(n, <<>>)
    <3> DEFINE S == {}
    <3>1. <<>> \in Seq(S) /\ \A e \in S : e # e
      BY EmptySeq
    <3> HIDE DEF S
    <3> QED
      BY <3>1 DEF Holding
  <2>3. ASSUME NEW c \in Callers
        PROVE  IsValue(call[c].res.value)
    <3>1. Idle.res = Nothing /\ \A r : Asking(r).res = Nothing
      BY DEF Idle, Asking
    <3>2. call[c].res = Nothing
      BY <3>1 DEF Init
    <3> QED
      BY <3>2, Values
  <2> QED
    BY <2>1, <2>2, <2>3 DEF Stocked
<1>2. IInv /\ Stocked /\ [Next]_vars => Stocked'
  <2> SUFFICES ASSUME IInv, Stocked, [Next]_vars PROVE Stocked'
    OBVIOUS
  <2>1. Shaped /\ Owned
    BY DEF IInv, Core
  <2>2. CASE UNCHANGED vars
    BY <2>2 DEF vars, Stocked
  <2>3. CASE Tick
    BY <2>1, <2>3, TickStocks
  <2>4. ASSUME NEW c \in Callers, Begin(c) \/ Cancel(c) \/ ResolveTimeout(c) \/ Step(c)
        PROVE  Stocked'
    BY <2>1, <2>4, CallerStocks, EnterStocks, FollowStocks, FinishStocks, LimiterStocks,
       ReuseStocks, FnStocks DEF Step
  <2> QED
    BY <2>2, <2>3, <2>4 DEF Next
<1> QED
  BY <1>1, <1>2, Invariance, PTL DEF Spec

\* The music cache never promises assets longer than they live, for caches of
\* every size, any time to live, and posts of any age (TikTok.ExtractMusic).
THEOREM MusicIsKept == Spec => []MusicKeepsPromise
<1>1. ASSUME Stocked PROVE MusicKeepsPromise
  <2> DEFINE q == cache["music"]
  <2>1. Holding("music", q)
    BY <1>1 DEF Stocked, Memos
  <2>2. PICK S : q \in Seq(S) /\ \A e \in S : Sound("music", e)
    BY <2>1 DEF Holding
  <2>3. \A i \in DOMAIN q : q[i] \in S
    BY <2>2, LenProperties, ElementOfSeq
  <2> QED
    BY <2>2, <2>3 DEF MusicKeepsPromise, Sound
<1> QED
  BY <1>1, CachesInvariance, PTL
=============================================================================
