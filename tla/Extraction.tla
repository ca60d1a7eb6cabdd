----------------------------- MODULE Extraction -----------------------------
(***************************************************************************)
(* Extraction of TikTok posts and music and of Instagram posts             *)
(* (internal/platform): concurrent calls for the same key share one flight *)
(* of the platform's memo, answers are cached, and the calls upstream pass *)
(* a core.Limiter.                                                         *)
(*                                                                         *)
(* One step is one critical section of memo.mu or of a cache, one operation*)
(* on a limiter, or one answer from upstream.  External: what TikTok and   *)
(* Instagram answer, and the accounts and identities that carry the calls. *)
(* Left out: the two caches that keep an extraction under its own fresh id,*)
(* which only GetExtraction reads.                                         *)
(***************************************************************************)
EXTENDS Cache, FiniteSets

CONSTANTS
  Callers,          \* the calls, each made once
  Scenarios,        \* what the calls ask for: functions from calls to RequestType
  Links,            \* TikTok links
  DirectLinks,      \* the links that name their post
  VideoOf,          \* link -> the post it leads to
  Posts,            \* Instagram posts
  Fallback,         \* InstagramLegacyFallback
  Capacity,         \* entries of one response cache
  MaxFlights,       \* memo.maximum
  Concurrency,      \* slots of each limiter
  MaxQueue,         \* callers that may wait for one
  MaxRetries,       \* attempts of one stage
  Allowance,        \* retries that the stages of one operation share
  CacheTTL,         \* how long assets live
  MetadataTTL,      \* how long TikTok posts and music are cached
  ResolutionTTL     \* how long resolved links are cached

Videos == {VideoOf[l] : l \in Links}
RequestType ==
       [kind : {"resolve", "post"}, key : Links, refresh : BOOLEAN]
  \cup [kind : {"music"}, key : Videos, refresh : BOOLEAN]
  \cup [kind : {"instagram"}, key : Posts, refresh : BOOLEAN]

ASSUME ExtractionAssumption ==
  /\ \A s \in Scenarios :
       DOMAIN s \subseteq Callers /\ \A c \in DOMAIN s : s[c] \in RequestType
  /\ DirectLinks \subseteq Links
  /\ Fallback \in BOOLEAN
  /\ {Capacity, MaxFlights, Concurrency, MaxQueue, MaxRetries, CacheTTL,
      MetadataTTL, ResolutionTTL} \subseteq Nat \ {0}
  /\ Allowance \in Nat

VARIABLES
  cache,    \* name -> core.Cache
  flights,  \* memo -> keys with a call in flight
  slots,    \* limiter -> slots taken
  queue,    \* limiter -> callers blocked in Acquire, in order
  waiting,  \* limiter -> its count of waiting callers
  call      \* caller -> its call

vars == <<cache, flights, slots, queue, waiting, call>>

Memos == {"resolve", "posts", "music", "instagram"}
Limiters == {"resolve", "tiktok", "instagram"}
LimiterOf(memo) == IF memo \in {"posts", "music"} THEN "tiktok" ELSE memo

TTL(name) ==
  CASE name = "resolve" -> ResolutionTTL
    [] name \in {"posts", "music"} -> MetadataTTL
    [] OTHER -> CacheTTL

\* A response: the time its assets have left (expires_at), and whether it has
\* the audio of a post's music.
Response(left, audio) == [left |-> left, audio |-> audio]
NoValue == Response(0, FALSE)

\* What a call of the memo or of fn returned.  cancelled is context.Canceled,
\* timeout the deadline of the call's own context, failed every other error.
Result(status, value) == [status |-> status, value |-> value]
Nothing == Result("none", NoValue)
Fails(status) == Result(status, NoValue)

Idle ==
  [pc |-> "idle", kind |-> "none", memo |-> "none", key |-> "none", refresh |-> FALSE,
   ctx |-> "live", attempt |-> 0, left |-> 0, got |-> Nothing, res |-> Nothing]

\* A call that is going to be made.  An operation has Allowance retries left.
Asking(r) ==
  [Idle EXCEPT !.pc = "new", !.kind = r.kind, !.key = r.key, !.refresh = r.refresh,
               !.memo = IF r.kind = "post" THEN "resolve" ELSE r.kind,
               !.left = Allowance]

Init ==
  /\ cache = [n \in Memos |-> <<>>]
  /\ flights = [m \in Memos |-> {}]
  /\ slots = [g \in Limiters |-> 0]
  /\ queue = [g \in Limiters |-> <<>>]
  /\ waiting = [g \in Limiters |-> 0]
  /\ \E s \in Scenarios :
       call = [c \in Callers |-> IF c \in DOMAIN s THEN Asking(s[c]) ELSE Idle]

-----------------------------------------------------------------------------
(* Identifiers, contexts and answers *)

CtxErr(c) == IF call[c].ctx = "expired" THEN "timeout" ELSE call[c].ctx
CtxDone(c) == call[c].ctx # "live"

\* What the caller of memo.do makes of its answer: ExtractURL goes on from the
\* resolved link to the post; the deadline of the resolution ends with it.
Answered(k, res) ==
  IF k.kind = "post" /\ k.memo = "resolve" /\ res.status = "ok"
  THEN [k EXCEPT !.pc = "enter", !.memo = "posts", !.key = VideoOf[k.key],
                 !.ctx = IF @ = "expired" THEN "live" ELSE @,
                 !.attempt = 0, !.got = Nothing, !.res = Nothing]
  ELSE [Idle EXCEPT !.pc = "done", !.ctx = k.ctx, !.res = Fails(res.status)]

Answer(c, res) == call' = [call EXCEPT ![c] = Answered(@, res)]

-----------------------------------------------------------------------------
(* The caller *)

\* ResolveURL, ExtractURL and ExtractMusic start at their first memo.
Begin(c) ==
  /\ call[c].pc = "new"
  /\ call' = [call EXCEPT ![c].pc = "enter"]
  /\ UNCHANGED <<cache, flights, slots, queue, waiting>>

\* The client goes away, or its operation ends.
Cancel(c) ==
  /\ call[c].pc \notin {"idle", "new", "done"}
  /\ call[c].ctx = "live"
  /\ call' = [call EXCEPT ![c].ctx = "cancelled"]
  /\ UNCHANGED <<cache, flights, slots, queue, waiting>>

\* resolve bounds itself with ResolveTimeout.
ResolveTimeout(c) ==
  /\ call[c].pc \notin {"idle", "new", "done"}
  /\ call[c].memo = "resolve"
  /\ call[c].ctx = "live"
  /\ call' = [call EXCEPT ![c].ctx = "expired"]
  /\ UNCHANGED <<cache, flights, slots, queue, waiting>>

-----------------------------------------------------------------------------
(* memo.do *)

\* The first step of fn: a link that names its post needs no call, music looks
\* for a cached post, and Instagram posts are first asked of the accounts.
Started(k) ==
  IF k.memo = "resolve" /\ k.key \in DirectLinks
  THEN [k EXCEPT !.pc = "finish", !.res = Result("ok", NoValue)]
  ELSE [k EXCEPT !.pc = CASE k.memo = "music" -> "reuse"
                          [] k.memo = "instagram" -> "app"
                          [] OTHER -> "gate"]

\* The top of the loop, up to the answer from the cache, the wait for another
\* caller's flight, or a flight of its own.
MayServe(c) == ~call[c].refresh /\ Hit(cache[call[c].memo], call[c].key)

Enter(c) ==
  LET m == call[c].memo
      k == call[c].key
  IN
  /\ call[c].pc = "enter"
  /\ UNCHANGED <<slots, queue, waiting>>
  /\ cache' = IF CtxDone(c) \/ call[c].refresh THEN cache
              ELSE [cache EXCEPT ![m] = Get(@, k)]
  /\ \/ /\ CtxDone(c)
        /\ Answer(c, Fails(CtxErr(c))) /\ UNCHANGED flights
     \/ /\ ~CtxDone(c) /\ MayServe(c)
        /\ Answer(c, Result("ok", Value(cache[m], k))) /\ UNCHANGED flights
     \/ /\ ~CtxDone(c) /\ ~MayServe(c) /\ k \in flights[m]
        /\ call' = [call EXCEPT ![c].pc = "wait"] /\ UNCHANGED flights
     \/ /\ ~CtxDone(c) /\ ~MayServe(c) /\ k \notin flights[m]
        /\ Cardinality(flights[m]) >= MaxFlights
        /\ Answer(c, Fails("busy")) /\ UNCHANGED flights
     \/ /\ ~CtxDone(c) /\ ~MayServe(c) /\ k \notin flights[m]
        /\ Cardinality(flights[m]) < MaxFlights
        /\ flights' = [flights EXCEPT ![m] = @ \cup {k}]
        /\ call' = [call EXCEPT ![c] = Started(@)]

\* A follower: its own context, or the flight it waits for.
Follow(c) ==
  /\ call[c].pc = "wait"
  /\ UNCHANGED <<cache, flights, slots, queue, waiting>>
  /\ \/ /\ CtxDone(c)
        /\ Answer(c, Fails(CtxErr(c)))
     \/ /\ call[c].got.status = "abandoned"
        /\ call' = [call EXCEPT ![c].pc = "enter", ![c].got = Nothing]
     \/ /\ call[c].got.status \notin {"none", "abandoned"}
        /\ Answer(c, call[c].got)

\* put: music is not kept longer than its assets.
MutantPutFor(m, value) == TTL(m)
PutFor(m, value) ==
  IF m = "music" /\ value.left < TTL(m) THEN value.left ELSE TTL(m)

MutantFlightResult(c) == call[c].res
\* What followers get: the flight of a leader whose context ended is abandoned.
FlightResult(c) ==
  IF call[c].res.status # "ok" /\ CtxDone(c) THEN Fails("abandoned") ELSE call[c].res

\* The callers blocked on the flight of a key.
Blocked(m, k) ==
  {d \in Callers : /\ call[d].pc = "wait" /\ call[d].got = Nothing
                   /\ call[d].memo = m /\ call[d].key = k}
MutantFollowers(c) ==
  IF FlightResult(c).status = "abandoned" THEN {} ELSE Blocked(call[c].memo, call[c].key)
\* Closing the flight's done wakes all of them, whatever the result.
Followers(c) == Blocked(call[c].memo, call[c].key)

\* The leader, after fn: every follower of the flight is told.
Finish(c) ==
  LET m == call[c].memo
      k == call[c].key
  IN
  /\ call[c].pc = "finish"
  /\ cache' = IF call[c].res.status # "ok" THEN cache
              ELSE [cache EXCEPT ![m] = SetUntil(@, k, call[c].res.value,
                                                 PutFor(m, call[c].res.value), Capacity)]
  /\ flights' = [flights EXCEPT ![m] = @ \ {k}]
  /\ call' = [d \in Callers |->
                IF d = c THEN Answered(call[c], call[c].res)
                ELSE IF d \in Followers(c) THEN [call[d] EXCEPT !.got = FlightResult(c)]
                ELSE call[d]]
  /\ UNCHANGED <<slots, queue, waiting>>

-----------------------------------------------------------------------------
(* core.Limiter *)

\* A slot given back goes to the caller that waits longest: the channel hands
\* it over, so that no newcomer can take it first.
Released(g, f) ==
  IF queue[g] = <<>>
  THEN /\ slots' = [slots EXCEPT ![g] = @ - 1]
       /\ call' = f
       /\ UNCHANGED queue
  ELSE /\ queue' = [queue EXCEPT ![g] = Tail(@)]
       /\ call' = [f EXCEPT ![Head(queue[g])].pc = "granted"]
       /\ UNCHANGED slots

\* fn ends with a result; the slot it holds is released.
FnReturns(c, res) ==
  Released(LimiterOf(call[c].memo),
           [call EXCEPT ![c].pc = "finish", ![c].res = res])

\* Acquire: a free slot is taken at once.
Acquire(c) ==
  LET g == LimiterOf(call[c].memo) IN
  /\ call[c].pc = "gate"
  /\ UNCHANGED <<cache, flights, queue, waiting>>
  /\ \/ /\ CtxDone(c)
        /\ call' = [call EXCEPT ![c].pc = "finish", ![c].res = Fails(CtxErr(c))]
        /\ UNCHANGED slots
     \/ /\ ~CtxDone(c) /\ slots[g] < Concurrency
        /\ slots' = [slots EXCEPT ![g] = @ + 1]
        /\ call' = [call EXCEPT ![c].pc = "fetch"]
     \/ /\ ~CtxDone(c) /\ slots[g] = Concurrency
        /\ call' = [call EXCEPT ![c].pc = "full"]
        /\ UNCHANGED slots

\* waiting.Add(1); the caller that takes the count past its limit is refused.
MutantCountIn(c) ==
  LET g == LimiterOf(call[c].memo) IN
  /\ call[c].pc = "full"
  /\ waiting' = [waiting EXCEPT ![g] = @ + 1]
  /\ call' = [call EXCEPT ![c].pc = IF waiting[g] > MaxQueue THEN "overfull" ELSE "select"]
  /\ UNCHANGED <<cache, flights, slots, queue>>
CountIn(c) ==
  LET g == LimiterOf(call[c].memo) IN
  /\ call[c].pc = "full"
  /\ waiting' = [waiting EXCEPT ![g] = @ + 1]
  /\ call' = [call EXCEPT ![c].pc = IF waiting'[g] > MaxQueue THEN "overfull" ELSE "select"]
  /\ UNCHANGED <<cache, flights, slots, queue>>

\* The select that blocks: a slot that has become free, the end of the context,
\* or a place in the channel's queue.
Select(c) ==
  LET g == LimiterOf(call[c].memo) IN
  /\ call[c].pc = "select"
  /\ UNCHANGED <<cache, flights, waiting>>
  /\ \/ /\ slots[g] < Concurrency
        /\ slots' = [slots EXCEPT ![g] = @ + 1]
        /\ call' = [call EXCEPT ![c].pc = "granted"]
        /\ UNCHANGED queue
     \/ /\ CtxDone(c)
        /\ call' = [call EXCEPT ![c].pc = "gaveup"]
        /\ UNCHANGED <<slots, queue>>
     \/ /\ slots[g] = Concurrency /\ ~CtxDone(c)
        /\ queue' = [queue EXCEPT ![g] = Append(@, c)]
        /\ call' = [call EXCEPT ![c].pc = "queued"]
        /\ UNCHANGED slots

LeaveQueue(g, c) == RemoveAt(queue[g], CHOOSE i \in DOMAIN queue[g] : queue[g][i] = c)

StopWaiting(c) ==
  LET g == LimiterOf(call[c].memo) IN
  /\ call[c].pc = "queued" /\ CtxDone(c)
  /\ queue' = [queue EXCEPT ![g] = LeaveQueue(g, c)]
  /\ call' = [call EXCEPT ![c].pc = "gaveup"]
  /\ UNCHANGED <<cache, flights, slots, waiting>>

\* waiting.Add(-1), at once or deferred, and the return of Acquire.
CountOut(c) ==
  /\ call[c].pc \in {"overfull", "granted", "gaveup"}
  /\ waiting' = [waiting EXCEPT ![LimiterOf(call[c].memo)] = @ - 1]
  /\ \/ /\ call[c].pc = "overfull"
        /\ call' = [call EXCEPT ![c].pc = "finish", ![c].res = Fails("busy")]
     \/ /\ call[c].pc = "granted"
        /\ call' = [call EXCEPT ![c].pc = "fetch"]
     \/ /\ call[c].pc = "gaveup"
        /\ call' = [call EXCEPT ![c].pc = "finish", ![c].res = Fails(CtxErr(c))]
  /\ UNCHANGED <<cache, flights, slots, queue>>

-----------------------------------------------------------------------------
(* fn: what the flight of each memo does *)

\* The post whose music can be returned without a call.
Reusable(c) ==
  /\ ~call[c].refresh
  /\ Hit(cache["posts"], call[c].key)
  /\ LET post == Value(cache["posts"], call[c].key) IN post.audio /\ post.left > 0

ReuseMusic(c) ==
  /\ call[c].pc = "reuse"
  /\ cache' = IF call[c].refresh THEN cache
              ELSE [cache EXCEPT !["posts"] = Get(@, call[c].key)]
  /\ call' = IF Reusable(c)
             THEN [call EXCEPT ![c].pc = "finish",
                               ![c].res = Result("ok", Value(cache["posts"], call[c].key))]
             ELSE [call EXCEPT ![c].pc = "gate"]
  /\ UNCHANGED <<flights, slots, queue, waiting>>

\* A new response; its assets are registered until it expires.
New(audio) == Response(CacheTTL, audio)

\* RetryAvailable, and the attempts of the stage.
MayRetry(c) ==
  /\ call[c].attempt + 1 < MaxRetries
  /\ ~CtxDone(c) /\ call[c].left > 0

\* followShareLink: a link that leads nowhere is not tried again.  A retry
\* spends the operation's allowance.
FollowShareLink(c) ==
  /\ call[c].pc = "fetch" /\ call[c].memo = "resolve"
  /\ UNCHANGED <<cache, flights, waiting>>
  /\ \/ FnReturns(c, Result("ok", NoValue))
     \/ FnReturns(c, Fails("failed"))
     \/ call[c].ctx = "cancelled" /\ FnReturns(c, Fails("cancelled"))
     \/ /\ MayRetry(c)
        /\ call' = [call EXCEPT ![c].attempt = @ + 1, ![c].left = @ - 1]
        /\ UNCHANGED <<slots, queue>>

\* fetchMetadata and normalize, for a post.  failed includes UpstreamTimeout,
\* the deadline of this call alone.
FetchPost(c) ==
  /\ call[c].pc = "fetch" /\ call[c].memo = "posts"
  /\ UNCHANGED <<cache, flights, waiting>>
  /\ \/ /\ ~CtxDone(c)
        /\ \E audio \in BOOLEAN : FnReturns(c, Result("ok", New(audio)))
     \/ FnReturns(c, Fails("failed"))
     \/ CtxDone(c) /\ FnReturns(c, Fails("cancelled"))

\* fetchMetadata, for the music of a post that is not cached.
FetchMusic(c) ==
  /\ call[c].pc = "fetch" /\ call[c].memo = "music"
  /\ UNCHANGED <<cache, flights, waiting>>
  /\ \/ FnReturns(c, Result("ok", New(TRUE)))
     \/ FnReturns(c, Fails("failed"))
     \/ CtxDone(c) /\ FnReturns(c, Fails("cancelled"))

\* The wait between two attempts of fetchMetadata; the slot stays taken.
RetryFetch(c) ==
  /\ call[c].pc = "fetch" /\ call[c].memo \in {"posts", "music"}
  /\ MayRetry(c)
  /\ call' = [call EXCEPT ![c].pc = "sleep"]
  /\ UNCHANGED <<cache, flights, slots, queue, waiting>>

Sleep(c) ==
  /\ call[c].pc = "sleep" /\ call[c].memo \in {"posts", "music"}
  /\ UNCHANGED <<cache, flights, waiting>>
  /\ \/ /\ ~CtxDone(c) /\ call[c].left > 0
        /\ call' = [call EXCEPT ![c].pc = "fetch", ![c].attempt = @ + 1, ![c].left = @ - 1]
        /\ UNCHANGED <<slots, queue>>
     \/ FnReturns(c, Fails("failed"))
     \/ CtxDone(c) /\ FnReturns(c, Fails("cancelled"))

\* ExtractURL of Instagram: a failure of the accounts may be final, as a policy
\* and the end of the call's context are; any other falls back to the legacy
\* service.
FallsBack(c) == Fallback /\ ~CtxDone(c)

\* extractApp: one account's answer.
ExtractApp(c) ==
  /\ call[c].pc = "app"
  /\ UNCHANGED <<cache, flights, slots, queue, waiting>>
  /\ \/ /\ ~CtxDone(c)
        /\ call' = [call EXCEPT ![c].pc = "finish", ![c].res = Result("ok", New(FALSE))]
     \/ /\ FallsBack(c)
        /\ call' = [call EXCEPT ![c].pc = "gate"]
     \/ /\ call' = [call EXCEPT ![c].pc = "finish", ![c].res = Fails("failed")]
     \/ /\ CtxDone(c)
        /\ call' = [call EXCEPT ![c].pc = "finish", ![c].res = Fails("cancelled")]

\* extractLegacy: what it makes of a payload; one without usable media is an error.
extractLegacy == {Result("ok", New(FALSE)), Fails("failed")}

\* fetch: a slot for each attempt, none while it sleeps.
FetchLegacy(c) ==
  /\ call[c].pc = "fetch" /\ call[c].memo = "instagram"
  /\ UNCHANGED <<cache, flights, waiting>>
  /\ \/ \E res \in extractLegacy : FnReturns(c, res)
     \/ FnReturns(c, Fails("failed"))
     \/ /\ CtxDone(c) /\ call[c].attempt + 1 >= MaxRetries
        /\ FnReturns(c, Fails("cancelled"))
     \/ /\ call[c].attempt + 1 < MaxRetries
        /\ Released("instagram", [call EXCEPT ![c].pc = "sleep"])

SleepLegacy(c) ==
  /\ call[c].pc = "sleep" /\ call[c].memo = "instagram"
  /\ UNCHANGED <<cache, flights, slots, queue, waiting>>
  /\ \/ call' = [call EXCEPT ![c].pc = "gate", ![c].attempt = @ + 1]
     \/ /\ CtxDone(c)
        /\ call' = [call EXCEPT ![c].pc = "finish", ![c].res = Fails("cancelled")]

-----------------------------------------------------------------------------

AgedValue(v) == [v EXCEPT !.left = Less(@)]

\* Time passes for everything that expires.
Tick ==
  /\ cache' = [n \in Memos |->
                 [i \in DOMAIN cache[n] |->
                    [cache[n][i] EXCEPT !.left = Less(@), !.value = AgedValue(@)]]]
  /\ call' = [c \in Callers |->
                [call[c] EXCEPT !.got.value = AgedValue(@), !.res.value = AgedValue(@)]]
  /\ UNCHANGED <<flights, slots, queue, waiting>>

\* The steps a call takes by itself.
Step(c) ==
  \/ Enter(c) \/ Follow(c) \/ Finish(c)
  \/ Acquire(c) \/ CountIn(c) \/ Select(c) \/ StopWaiting(c) \/ CountOut(c)
  \/ ReuseMusic(c) \/ FollowShareLink(c)
  \/ FetchPost(c) \/ FetchMusic(c) \/ RetryFetch(c) \/ Sleep(c)
  \/ ExtractApp(c) \/ FetchLegacy(c) \/ SleepLegacy(c)

Next ==
  \/ \E c \in Callers : Begin(c) \/ Cancel(c) \/ ResolveTimeout(c) \/ Step(c)
  \/ Tick

Spec == Init /\ [][Next]_vars

\* Goroutines run, and upstream calls and sleeps are bounded by their timeouts.
FairSpec == Spec /\ \A c \in Callers : WF_vars(Step(c))

-----------------------------------------------------------------------------
(* Properties *)

ResultType ==
  [status : {"none", "ok", "failed", "busy", "cancelled", "timeout", "abandoned"},
   value : [left : Nat, audio : BOOLEAN]]

TypeOK ==
  /\ DOMAIN cache = Memos
  /\ \A n \in Memos : Len(cache[n]) <= Capacity
  /\ \A m \in Memos : flights[m] \subseteq Links \cup Videos \cup Posts
  /\ slots \in [Limiters -> 0..Concurrency]
  /\ \A g \in Limiters : Len(queue[g]) <= MaxQueue /\ waiting[g] \in Nat
  /\ \A c \in Callers :
       /\ call[c].ctx \in {"live", "cancelled", "expired"}
       /\ call[c].attempt \in 0..MaxRetries - 1 /\ call[c].left \in 0..Allowance
       /\ call[c].got \in ResultType /\ call[c].res \in ResultType

\* A call is reported as cancelled, or past its deadline, only if its own
\* context was: the followers of a flight whose leader went away start over
\* instead of taking the leader's cancellation (memo.do, flight.canceled).
CancelIsOwn ==
  \A c \in Callers : call[c].pc = "done" =>
    /\ call[c].res.status = "cancelled" => call[c].ctx = "cancelled"
    /\ call[c].res.status = "timeout" => call[c].ctx = "expired"
    /\ call[c].res.status # "abandoned"

Leaders(m, k) ==
  {c \in Callers : /\ call[c].memo = m /\ call[c].key = k
                   /\ call[c].pc \notin {"idle", "new", "enter", "wait", "done"}}

HoldsSlot(c, g) ==
  /\ LimiterOf(call[c].memo) = g
  /\ call[c].pc \in {"fetch", "granted"} \/ (call[c].pc = "sleep" /\ g # "instagram")

\* Between waiting.Add(1) and waiting.Add(-1); with leave to wait.
Counted(c, g) ==
  /\ LimiterOf(call[c].memo) = g
  /\ call[c].pc \in {"overfull", "select", "queued", "granted", "gaveup"}
Admitted(c, g) == Counted(c, g) /\ call[c].pc # "overfull"

\* At most one call per key works upstream, for as long as its flight lasts, so
\* that a response is never overwritten by an older one; a limiter's slots are
\* those of the calls that work, and a caller is queued for one only while none
\* is free.  The count of waiting callers is exact although callers change it
\* before they look at it and after they stopped waiting: none is leaked, and no
\* more than MaxQueue have leave to wait (memo.flights, Limiter.slots,
\* Limiter.waiting).
WorkIsBounded ==
  /\ \A m \in Memos, k \in Links \cup Videos \cup Posts :
       Cardinality(Leaders(m, k)) = IF k \in flights[m] THEN 1 ELSE 0
  /\ \A g \in Limiters :
       /\ slots[g] = Cardinality({c \in Callers : HoldsSlot(c, g)})
       /\ slots[g] <= Concurrency
       /\ ToSet(queue[g]) = {c \in Callers : call[c].pc = "queued"
                                               /\ LimiterOf(call[c].memo) = g}
       /\ queue[g] # <<>> => slots[g] = Concurrency
       /\ waiting[g] = Cardinality({c \in Callers : Counted(c, g)})
       /\ Cardinality({c \in Callers : Admitted(c, g)}) <= MaxQueue

\* The music cache never outlives the assets it refers to, which may be older
\* than the entry when they come from a cached post (TikTok.ExtractMusic,
\* memo.expires).
MusicKeepsPromise ==
  \A i \in DOMAIN cache["music"] :
    cache["music"][i].left <= cache["music"][i].value.left

\* Every call returns: no flight is left behind by a leader that was cancelled,
\* timed out or refused a slot, and no slot is lost.
EveryCallReturns ==
  \A c \in Callers : call[c].pc = "enter" ~> call[c].pc = "done"
=============================================================================
