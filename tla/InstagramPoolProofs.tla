------------------------ MODULE InstagramPoolProofs ------------------------
(***************************************************************************)
(* Proofs about InstagramPool, for any number of accounts, calls and       *)
(* downloads, any limits, and statements that fail or lose their reply at  *)
(* any point.                                                              *)
(*                                                                         *)
(* The invariant has eight parts.  Shaped: what the records are made of.   *)
(* Calling: what a call of Detail relies on while it renews, judges or     *)
(* marks.  Gated: a gate has one holder.  Updated: what updateExisting     *)
(* relies on from drain to finish.  Owned: a session belongs to one        *)
(* account.  Saved: the table has the newest session of every account.     *)
(* Healthy: where the health of an account is kept until the table has it. *)
(* Counted: the counters.                                                  *)
(***************************************************************************)
EXTENDS InstagramPool, FiniteSetTheorems, TLAPS

-----------------------------------------------------------------------------
(* The invariant.                                                          *)

\* The steps of a call that has a lease, and those in which it holds the gate.
LeasePC == {"session", "check", "sent", "renew", "login", "save", "publish",
            "judge", "mark", "flush", "settle", "persist", "release"}
GatePC  == {"login", "save", "publish", "mark", "flush", "settle"}

\* A verdict: only a session that ends the account is renewed, and an account
\* ends for a reason.
IsOut(o) ==
    /\ {"err", "retry", "disable", "reason", "cool", "renew"} \subseteq DOMAIN o
    /\ o.cool \in Nat
    /\ o.disable => o.reason # "none"
    /\ o.renew => o.disable

IsRow(k) ==
    /\ {"auth", "ctx", "login", "dead", "reason", "until"} \subseteq DOMAIN k
    /\ k.auth \in Nat /\ k.until \in Nat
IsHealth(k) ==
    {"reason", "until"} \subseteq DOMAIN k /\ k.until \in Nat
IsAccount(k) ==
    /\ {"auth", "login", "disabled", "reason", "cooldown", "busy", "mediaBusy",
        "updating", "gate", "refreshAfter", "refreshErr"} \subseteq DOMAIN k
    /\ k.auth \in Nat /\ k.cooldown \in Nat /\ k.refreshAfter \in Nat
    /\ k.busy \in Nat /\ k.mediaBusy \in Nat
    /\ k.disabled \in BOOLEAN /\ k.gate \in BOOLEAN
    /\ IsOut(k.refreshErr)
IsCall(k) ==
    /\ {"pc", "a", "tried", "queued", "cancelled", "auth", "renewed", "session",
        "out", "saved", "until"} \subseteq DOMAIN k
    /\ k.auth \in Nat /\ k.session \in Nat /\ k.until \in Nat
    /\ IsOut(k.out)
IsMedia(k) ==
    {"pc", "a", "queued"} \subseteq DOMAIN k /\ (k.pc = "run" => k.a \in Accounts)
IsUpdate(k) ==
    /\ {"pc", "a", "cookies", "backup", "session", "until", "gate",
        "result"} \subseteq DOMAIN k
    /\ k.session \in Nat /\ k.until \in Nat

Shaped ==
    /\ accounts = table /\ Stored \subseteq Accounts
    /\ DOMAIN row = Accounts /\ \A a \in Accounts : IsRow(row[a])
    /\ DOMAIN pend = Accounts /\ \A a \in Accounts : IsHealth(pend[a])
    /\ DOMAIN acc = Accounts /\ \A a \in Accounts : IsAccount(acc[a])
    /\ DOMAIN req = Details /\ \A r \in Details : IsCall(req[r])
    /\ DOMAIN med = Media /\ \A m \in Media : IsMedia(med[m])
    /\ IsUpdate(upd)
    /\ clock \in Nat /\ minted \in Nat

\* A call of Detail.  A call without a lease has no account.  A session is
\* renewed, and its account judged dead, only after Instagram has rejected it;
\* nobody changes the account's session while the gate is held for its renewal;
\* a renewed session is newer than the one it replaces, and in the table before
\* it is used; and a death that is about to be written is the account's.
CallOK(r) ==
    LET c == req[r]
        a == req[r].a
    IN
    /\ c.pc \in LeasePC => a \in Stored
    /\ c.pc \notin LeasePC => a = None
    /\ c.queued => c.pc = "acquire"
    /\ c.pc \in {"idle", "acquire"} => c.auth = NoSession /\ c.session = NoSession
    /\ c.pc \in {"renew", "login", "save", "publish"} => c.auth \in rejected
    /\ c.pc \in {"login", "save", "publish"} =>
         acc[a].auth = c.auth /\ ~acc[a].disabled
    /\ c.pc \in {"save", "publish"} => acc[a].auth < c.session
    /\ c.pc = "publish" => row[a].auth = c.session
    /\ (c.pc = "judge" /\ c.out.disable) => c.auth \in rejected \/ acc[a].disabled
    /\ (c.pc = "mark" /\ c.out.reason # "none") =>
         acc[a].disabled /\ acc[a].reason = c.out.reason
Calling == \A r \in Details : CallOK(r)

\* One holder of a gate at a time.
Gated ==
    /\ \A r \in Details : req[r].pc \in GatePC => acc[req[r].a].gate
    /\ \A r, s \in Details : (req[r].pc \in GatePC /\ req[s].pc \in GatePC
                              /\ r # s) => req[r].a # req[s].a
    /\ upd.gate => acc[upd.a].gate
    /\ \A r \in Details : (upd.gate /\ req[r].pc \in GatePC) => req[r].a # upd.a

\* The update.  Its account takes no lease and, once drained, has none; no death
\* of it is pending; the session it commits is accepted, and no older than the
\* one in use.
Updated ==
    LET a == upd.a IN
    /\ upd.pc = "idle" => ~upd.gate
    /\ upd.pc # "idle" => a \in Stored /\ acc[a].updating
    /\ upd.pc \in {"verify", "mark", "flushHealth", "settle", "replace",
                   "publish", "setlogin"} => upd.gate
    /\ upd.pc \notin {"idle", "drain", "finish"} =>
         \A r \in Details : req[r].a # a
    /\ upd.pc \notin {"idle", "drain", "flush", "finish"} => pend[a].reason = "none"
    /\ upd.pc \in {"replace", "publish"} =>
         /\ upd.session \notin rejected
         /\ acc[a].auth <= upd.session
    /\ upd.pc = "publish" => row[a].auth = upd.session /\ ~row[a].dead

\* A session belongs to the account that was logged in.
Belongs(own, s, a) == s # NoSession => s <= minted /\ own[s] = a
OwnedBy(own) ==
    /\ \A a \in Accounts : Belongs(own, acc[a].auth, a) /\ Belongs(own, row[a].auth, a)
    /\ \A r \in Details : req[r].a \in Accounts =>
         Belongs(own, req[r].auth, req[r].a) /\ Belongs(own, req[r].session, req[r].a)
    /\ upd.a \in Accounts => Belongs(own, upd.session, upd.a)
Owned == \E own \in [Nat -> Accounts \cup {None}] : OwnedBy(own)

\* The table holds the newest session of every account and its context.
Saved ==
    \A a \in Accounts :
        /\ row[a].ctx = row[a].auth
        /\ a \in Stored => row[a].auth > 0 /\ acc[a].auth <= row[a].auth

\* A death, and a cooldown, is with a call that is about to mark it, with the
\* store that has not written it yet, or in the table.
Marks(r, a)   == req[r].pc = "mark" /\ req[r].a = a
Marked(a)     == \E r \in Details : Marks(r, a) /\ req[r].out.reason # "none"
Dead(a)       == acc[a].disabled /\ acc[a].auth \in rejected
                 /\ acc[a].auth = row[a].auth
HealthOf(a) ==
    /\ row[a].dead => acc[a].disabled
    /\ pend[a].reason # "none" =>
         acc[a].disabled /\ (Marked(a) \/ pend[a].reason = acc[a].reason)
    /\ Dead(a) => \/ Marked(a)
                  \/ pend[a].reason # "none"
                  \/ row[a].dead /\ row[a].reason = acc[a].reason
    /\ \/ acc[a].cooldown <= row[a].until
       \/ acc[a].cooldown <= pend[a].until
       \/ \E r \in Details : Marks(r, a) /\ acc[a].cooldown <= req[r].until
       \/ upd.pc = "mark" /\ upd.a = a /\ acc[a].cooldown <= upd.until
    /\ (acc[a].disabled /\ acc[a].auth \notin rejected) =>
         \A r \in Details : req[r].a # a
Healthy ==
    /\ NoSession \in rejected
    /\ ~dirty => \A a \in Accounts : pend[a] = NoHealth
    /\ \A a \in Stored : HealthOf(a)

\* The counters: leases, downloads, calls in the queue, health writes in flight
\* and updates.
Leases(a)    == {r \in Details : req[r].a = a}
Downloads(a) == {m \in Media : med[m].pc = "run" /\ med[m].a = a}
WritePC == {"mark", "flush", "settle"}
Leasing == \A a \in Accounts :
    acc[a].busy = Cardinality(Leases(a)) /\ acc[a].busy <= Concurrency
Downloading == \A a \in Accounts :
    acc[a].mediaBusy = Cardinality(Downloads(a)) /\ acc[a].mediaBusy <= DownloadConcurrency
Queueing ==
    /\ queued = Cardinality({r \in Details : req[r].queued})
                + Cardinality({m \in Media : med[m].queued})
    /\ queued <= MaxQueued
    /\ \A m \in Media : med[m].queued => med[m].pc = "acquire"
UpdateWrites == IF upd.pc \in {"mark", "flushHealth", "settle"} THEN 1 ELSE 0
Writing ==
    writes = Cardinality({r \in Details : req[r].pc \in WritePC}) + UpdateWrites
Updating == updating = IF upd.pc = "idle" THEN 0 ELSE 1
Counted == Leasing /\ Downloading /\ Queueing /\ Writing /\ Updating

IInv == Shaped /\ Calling /\ Gated /\ Updated /\ Owned /\ Saved /\ Healthy
        /\ Counted

-----------------------------------------------------------------------------
(* Frames: what a step that leaves alone what a part is about leaves true. *)

SameAuth   == \A b \in Accounts : acc'[b].auth = acc[b].auth
SameHealth == \A b \in Accounts : /\ acc'[b].disabled = acc[b].disabled
                                  /\ acc'[b].reason = acc[b].reason
                                  /\ acc'[b].cooldown = acc[b].cooldown
SameGate   == \A b \in Accounts : acc'[b].gate = acc[b].gate
SameFlag   == \A b \in Accounts : acc'[b].updating = acc[b].updating
SameLoad   == \A b \in Accounts : acc'[b].busy = acc[b].busy
SameDownloads == \A b \in Accounts : acc'[b].mediaBusy = acc[b].mediaBusy
SameRows   == \A b \in Accounts : /\ row'[b].auth = row[b].auth
                                  /\ row'[b].ctx = row[b].ctx
                                  /\ row'[b].dead = row[b].dead
                                  /\ row'[b].reason = row[b].reason
                                  /\ row'[b].until = row[b].until
\* Only the call r takes the step.
Only(r) == /\ DOMAIN req' = DOMAIN req
           /\ \A s \in Details : s # r => req'[s] = req[s]

\* What the provers need of the constants.
LEMMA ConstantFacts ==
    /\ ActiveAccounts \in Nat /\ Concurrency \in Nat \ {0}
    /\ DownloadConcurrency \in Nat \ {0} /\ MaxQueued \in Nat \ {0}
    /\ MaxAttempts \in Nat \ {0} /\ MaxDelay \in Nat \ {0} /\ MaxClock \in Nat
    /\ MaxSession \in Nat /\ MaxUntil \in Nat
    /\ IsFiniteSet(Details) /\ IsFiniteSet(Media) /\ Details \cap Media = {}
    /\ None \notin Accounts /\ Seeded \in Seq(Accounts)
  BY PoolAssumption, StoreAssumption DEF None

\* The accounts of leases and updates are accounts.
LEMMA LeasedIsAccount ==
    ASSUME Shaped, Calling, NEW r \in Details, req[r].pc \in LeasePC
    PROVE  req[r].a \in Stored /\ req[r].a \in Accounts
  BY DEF Shaped, Calling, CallOK

\* A call that is not stepping keeps what it relies on, as long as nobody
\* revives its account, forgets that its session was rejected, or touches the
\* session it renews or the death it marks.
LEMMA OtherCall ==
    ASSUME NEW s \in Details, CallOK(s), req'[s] = req[s], table' = table,
           (req[s].a \in Stored /\ req[s].auth \in rejected) => req[s].auth \in rejected',
           (req[s].a \in Stored /\ acc[req[s].a].disabled) => acc'[req[s].a].disabled,
           req[s].pc \in {"login", "save", "publish"} =>
             /\ acc'[req[s].a].auth = acc[req[s].a].auth
             /\ acc'[req[s].a].disabled => acc[req[s].a].disabled
             /\ row'[req[s].a].auth = row[req[s].a].auth,
           req[s].pc = "mark" => acc'[req[s].a].reason = acc[req[s].a].reason
    PROVE  CallOK(s)'
  BY DEF CallOK, Stored, LeasePC

\* A step of r that changes no session and no health.
LEMMA CallingFrame ==
    ASSUME Shaped, Calling, NEW r \in Details, Only(r), CallOK(r)',
           SameAuth, SameHealth, SameRows, table' = table, rejected \subseteq rejected'
    PROVE  Calling'
<1>1. ASSUME NEW s \in Details, s # r PROVE CallOK(s)'
  <2>1. CallOK(s) /\ req'[s] = req[s]
    BY <1>1 DEF Calling, Only
  <2>2. req[s].pc \in LeasePC => req[s].a \in Accounts
    BY LeasedIsAccount
  <2>3. req[s].a \in Stored => req[s].a \in Accounts
    BY DEF Shaped
  <2> QED
    BY <2>1, <2>2, <2>3, OtherCall DEF SameAuth, SameHealth, SameRows, LeasePC
<1> QED
  BY <1>1 DEF Calling

\* A step of no call of Detail.
LEMMA CallingCalm ==
    ASSUME Shaped, Calling, req' = req, SameAuth, SameHealth, SameRows,
           table' = table, rejected \subseteq rejected'
    PROVE  Calling'
<1>1. ASSUME NEW s \in Details PROVE CallOK(s)'
  <2>1. CallOK(s) /\ req'[s] = req[s]
    BY DEF Calling
  <2>2. req[s].pc \in LeasePC => req[s].a \in Accounts
    BY LeasedIsAccount
  <2>3. req[s].a \in Stored => req[s].a \in Accounts
    BY DEF Shaped
  <2> QED
    BY <2>1, <2>2, <2>3, OtherCall DEF SameAuth, SameHealth, SameRows, LeasePC
<1> QED
  BY <1>1 DEF Calling

\* Nobody takes or frees a gate.
LEMMA GatedFrame ==
    ASSUME Shaped, Calling, Updated, Gated, SameGate,
           \A s \in Details : req'[s].pc \in GatePC =>
               req[s].pc \in GatePC /\ req'[s].a = req[s].a,
           upd'.gate => upd.gate /\ upd'.a = upd.a
    PROVE  Gated'
<1>1. \A s \in Details : req[s].pc \in GatePC => req[s].a \in Accounts
  BY LeasedIsAccount DEF GatePC, LeasePC
<1>2. upd.gate => upd.a \in Accounts
  BY DEF Updated, Shaped
<1> QED
  BY <1>1, <1>2 DEF Gated, SameGate

\* r takes a free gate.
LEMMA GateTaken ==
    ASSUME Shaped, Calling, Updated, Gated, NEW r \in Details, Only(r),
           req[r].a \in Accounts, ~acc[req[r].a].gate, acc'[req[r].a].gate,
           req'[r].a = req[r].a,
           \A b \in Accounts : b # req[r].a => acc'[b].gate = acc[b].gate,
           upd' = upd
    PROVE  Gated'
<1>1. \A s \in Details : req[s].pc \in GatePC =>
          req[s].a \in Accounts /\ acc[req[s].a].gate
  BY LeasedIsAccount DEF GatePC, LeasePC, Gated
<1>2. upd.gate => upd.a \in Accounts /\ acc[upd.a].gate
  BY DEF Updated, Shaped, Gated
<1> QED
  BY <1>1, <1>2 DEF Gated, Only

\* r frees the gate it holds.
LEMMA GateLeft ==
    ASSUME Shaped, Calling, Updated, Gated, NEW r \in Details, Only(r),
           req[r].pc \in GatePC, req'[r].pc \notin GatePC,
           \A b \in Accounts : b # req[r].a => acc'[b].gate = acc[b].gate,
           upd' = upd
    PROVE  Gated'
<1>1. \A s \in Details : req[s].pc \in GatePC => req[s].a \in Accounts
  BY LeasedIsAccount DEF GatePC, LeasePC
<1>2. upd.gate => upd.a \in Accounts
  BY DEF Updated, Shaped
<1> QED
  BY <1>1, <1>2 DEF Gated, Only

\* Somebody else's step does not disturb the update.
LEMMA UpdatedFrame ==
    ASSUME Updated, Shaped, upd' = upd, table' = table,
           upd.a \in Accounts => (acc[upd.a].updating => acc'[upd.a].updating),
           upd.a \in Accounts => (upd.gate => acc'[upd.a].auth = acc[upd.a].auth),
           upd.pc \notin {"idle", "drain", "finish"} =>
               \A s \in Details : req'[s].a = req[s].a \/ req'[s].a # upd.a,
           upd.pc \notin {"idle", "drain", "flush", "finish"} =>
               (pend[upd.a].reason = "none" => pend'[upd.a].reason = "none"),
           (upd.pc \in {"replace", "publish"} /\ upd.session \notin rejected)
               => upd.session \notin rejected',
           upd.pc = "publish" => /\ row'[upd.a].auth = row[upd.a].auth
                                 /\ row'[upd.a].dead => row[upd.a].dead
    PROVE  Updated'
<1>1. upd.pc # "idle" => upd.a \in Accounts
  BY DEF Updated, Shaped
<1> QED
  BY <1>1 DEF Updated, Stored

\* The sessions an account has, had or is about to get.
Bears(s, a) ==
    \/ s = NoSession \/ s = acc[a].auth \/ s = row[a].auth
    \/ \E r \in Details : req[r].a = a /\ (s = req[r].auth \/ s = req[r].session)
    \/ upd.a = a /\ s = upd.session

\* Sessions only move within an account, or are new.
Moves(s, b, a) == Bears(s, b) \/ (minted' = minted + 1 /\ s = minted + 1 /\ b = a)

\* Sessions keep their owners.
LEMMA OwnedFrame ==
    ASSUME Shaped, Owned, NEW a \in Accounts \cup {None},
           minted' \in Nat, minted <= minted',
           \A b \in Accounts : Moves(acc'[b].auth, b, a) /\ Moves(row'[b].auth, b, a),
           \A s \in Details : req'[s].a \in Accounts =>
               Moves(req'[s].auth, req'[s].a, a) /\ Moves(req'[s].session, req'[s].a, a),
           upd'.a \in Accounts => Moves(upd'.session, upd'.a, a)
    PROVE  Owned'
<1>1. PICK own \in [Nat -> Accounts \cup {None}] : OwnedBy(own)
  BY DEF Owned
<1>2. minted \in Nat
  BY DEF Shaped
<1>3. PICK new \in [Nat -> Accounts \cup {None}] :
          new = IF minted' = minted + 1 THEN [own EXCEPT ![minted + 1] = a] ELSE own
  BY <1>1, <1>2
<1>4. ASSUME NEW b \in Accounts, NEW s \in Nat, Bears(s, b)
      PROVE  Belongs(own, s, b)
  BY <1>1, <1>4 DEF OwnedBy, Bears, Belongs
<1>5. ASSUME NEW b \in Accounts, NEW s \in Nat, Moves(s, b, a)
      PROVE  s # NoSession => s <= minted' /\ new[s] = b
  <2>1. CASE Bears(s, b)
    <3>1. s # NoSession => s <= minted /\ own[s] = b
      BY <1>4, <2>1 DEF Belongs
    <3> QED
      BY <3>1, <1>1, <1>2, <1>3
  <2>2. CASE minted' = minted + 1 /\ s = minted + 1 /\ b = a
    BY <2>2, <1>1, <1>2, <1>3
  <2> QED
    BY <1>5, <2>1, <2>2 DEF Moves
<1>6. \A b \in Accounts : \A s : Moves(s, b, a) => s \in Nat
  BY <1>2 DEF Moves, Bears, Shaped, IsAccount, IsRow, IsCall, IsUpdate, NoSession
<1>7. OwnedBy(new)'
  <2>1. \A b \in Accounts : Belongs(new, acc[b].auth, b)' /\ Belongs(new, row[b].auth, b)'
    BY <1>5, <1>6 DEF Belongs
  <2>2. \A s \in Details : req'[s].a \in Accounts =>
            Belongs(new, req[s].auth, req[s].a)' /\ Belongs(new, req[s].session, req[s].a)'
    BY <1>5, <1>6 DEF Belongs
  <2>3. upd'.a \in Accounts => Belongs(new, upd.session, upd.a)'
    BY <1>5, <1>6 DEF Belongs
  <2> QED
    BY <2>1, <2>2, <2>3 DEF OwnedBy
<1> QED
  BY <1>3, <1>7 DEF Owned

\* A step of r that mints nothing and gives r a session of its account, or none.
LEMMA OwnedStep ==
    ASSUME Shaped, Owned, NEW r \in Details, Only(r), SameAuth, SameRows,
           minted' = minted, upd' = upd,
           req'[r].a \in Accounts => /\ Bears(req'[r].auth, req'[r].a)
                                     /\ Bears(req'[r].session, req'[r].a)
    PROVE  Owned'
<1>1. \A b \in Accounts : Moves(acc'[b].auth, b, None) /\ Moves(row'[b].auth, b, None)
  BY DEF SameAuth, SameRows, Moves, Bears
<1>2. \A s \in Details : req'[s].a \in Accounts =>
          Moves(req'[s].auth, req'[s].a, None) /\ Moves(req'[s].session, req'[s].a, None)
  BY DEF Only, Moves, Bears
<1>3. upd'.a \in Accounts => Moves(upd'.session, upd'.a, None)
  BY DEF Moves, Bears
<1>4. minted' \in Nat /\ minted <= minted' /\ None \in Accounts \cup {None}
  BY DEF Shaped
<1> QED
  BY <1>1, <1>2, <1>3, <1>4, OwnedFrame

\* A session of one account is no session of another.
LEMMA OwnersDiffer ==
    ASSUME Shaped, Owned, NEW a \in Accounts, NEW b \in Accounts, NEW s \in Nat,
           Bears(s, a), Bears(s, b), s # NoSession
    PROVE  a = b /\ s <= minted
<1>1. PICK own \in [Nat -> Accounts \cup {None}] : OwnedBy(own)
  BY DEF Owned
<1>2. Belongs(own, s, a) /\ Belongs(own, s, b)
  BY <1>1 DEF OwnedBy, Bears, Belongs
<1> QED
  BY <1>2 DEF Belongs

\* The rows keep their sessions, and the pool uses the same ones.
LEMMA SavedFrame ==
    ASSUME Saved, SameAuth, SameRows, table' = table
    PROVE  Saved'
  BY DEF Saved, SameAuth, SameRows, Stored

\* The health of an account stays where it is.
LEMMA HealthFrame ==
    ASSUME NEW a \in Accounts, HealthOf(a),
           row'[a].auth = row[a].auth, row'[a].dead = row[a].dead,
           row'[a].reason = row[a].reason, row'[a].until = row[a].until,
           pend'[a] = pend[a],
           acc'[a].auth = acc[a].auth, acc'[a].disabled = acc[a].disabled,
           acc'[a].reason = acc[a].reason, acc'[a].cooldown = acc[a].cooldown,
           (acc[a].disabled /\ acc[a].auth \in rejected') => acc[a].auth \in rejected,
           (acc[a].disabled /\ acc[a].auth \in rejected) =>
               acc[a].auth \in rejected' \/ \A r \in Details : req'[r].a # a,
           \A r \in Details : Marks(r, a) =>
               /\ req'[r].pc = "mark" /\ req'[r].a = a
               /\ req'[r].out.reason = req[r].out.reason /\ req'[r].until = req[r].until,
           \A r \in Details : req'[r].a = a => req[r].a = a \/ ~acc[a].disabled,
           (upd.pc = "mark" /\ upd.a = a) =>
               upd'.pc = "mark" /\ upd'.a = a /\ upd'.until = upd.until
    PROVE  HealthOf(a)'
<1>1. Marked(a) => Marked(a)'
  BY DEF Marked, Marks
<1>2. Dead(a)' => Dead(a)
  BY DEF Dead
<1>3. (Dead(a) => \/ Marked(a) \/ pend[a].reason # "none"
                  \/ row[a].dead /\ row[a].reason = acc[a].reason)'
  BY <1>1, <1>2 DEF HealthOf
<1>4. (\/ acc[a].cooldown <= row[a].until
       \/ acc[a].cooldown <= pend[a].until
       \/ \E r \in Details : Marks(r, a) /\ acc[a].cooldown <= req[r].until
       \/ upd.pc = "mark" /\ upd.a = a /\ acc[a].cooldown <= upd.until)'
  BY DEF HealthOf, Marks
<1>5. (pend[a].reason # "none" =>
         acc[a].disabled /\ (Marked(a) \/ pend[a].reason = acc[a].reason))'
  BY <1>1 DEF HealthOf
<1>6. ((acc[a].disabled /\ acc[a].auth \notin rejected) =>
         \A r \in Details : req[r].a # a)'
  BY DEF HealthOf
<1>7. (row[a].dead => acc[a].disabled)'
  BY DEF HealthOf
<1> QED
  BY <1>3, <1>4, <1>5, <1>6, <1>7 DEF HealthOf

\* A step of r that changes no session, no health, and is not the mark of one.
LEMMA HealthyFrame ==
    ASSUME Shaped, Healthy, NEW r \in Details, Only(r), SameAuth, SameHealth,
           SameRows, pend' = pend, dirty' = dirty, table' = table,
           rejected' = rejected, upd' = upd, req[r].pc # "mark",
           req'[r].a \in Stored => \/ req'[r].a = req[r].a
                                   \/ ~acc[req'[r].a].disabled
    PROVE  Healthy'
<1>1. ASSUME NEW a \in Stored PROVE HealthOf(a)'
  <2>1. a \in Accounts /\ HealthOf(a)
    BY DEF Shaped, Healthy
  <2>2. \A s \in Details : Marks(s, a) =>
               /\ req'[s].pc = "mark" /\ req'[s].a = a
               /\ req'[s].out.reason = req[s].out.reason /\ req'[s].until = req[s].until
    BY DEF Marks, Only
  <2>3. \A s \in Details : req'[s].a = a => req[s].a = a \/ ~acc[a].disabled
    BY DEF Only
  <2> QED
    BY <2>1, <2>2, <2>3, HealthFrame DEF SameAuth, SameHealth, SameRows
<1> QED
  BY <1>1 DEF Healthy, Stored

\* A step of no call of Detail.
LEMMA HealthyCalm ==
    ASSUME Shaped, Healthy, req' = req, SameAuth, SameHealth,
           SameRows, pend' = pend, dirty' = dirty, table' = table,
           rejected' = rejected,
           upd.pc = "mark" => upd'.pc = "mark" /\ upd'.a = upd.a /\ upd'.until = upd.until
    PROVE  Healthy'
<1>1. ASSUME NEW a \in Stored PROVE HealthOf(a)'
  <2>1. a \in Accounts /\ HealthOf(a)
    BY DEF Shaped, Healthy
  <2>2. \A s \in Details : Marks(s, a) =>
               /\ req'[s].pc = "mark" /\ req'[s].a = a
               /\ req'[s].out.reason = req[s].out.reason /\ req'[s].until = req[s].until
    BY DEF Marks
  <2> QED
    BY <2>1, <2>2, HealthFrame DEF SameAuth, SameHealth, SameRows
<1> QED
  BY <1>1 DEF Healthy, Stored

-----------------------------------------------------------------------------
(* Counting.                                                               *)

\* The counters are what CountersExact says they are.
LEMMA CountedIsExact ==
    ASSUME Counted
    PROVE  CountersExact
  BY DEF Counted, Leasing, Leases, Downloading, Downloads, Queueing, Writing, WritePC,
         UpdateWrites, Updating, CountersExact

\* One more.
LEMMA OneMore ==
    ASSUME NEW S, IsFiniteSet(S), NEW x, x \notin S, NEW T, T = S \cup {x}
    PROVE  Cardinality(T) = Cardinality(S) + 1
  BY FS_AddElement

\* One less.
LEMMA OneLess ==
    ASSUME NEW S, IsFiniteSet(S), NEW x \in S, NEW T, T = S \ {x}
    PROVE  Cardinality(T) = Cardinality(S) - 1 /\ Cardinality(S) >= 1
<1>1. IsFiniteSet(T) /\ x \notin T /\ S = T \cup {x}
  BY FS_RemoveElement
<1>2. Cardinality(S) = Cardinality(T) + 1
  BY <1>1, OneMore
<1>3. Cardinality(T) \in Nat
  BY <1>1, FS_CardinalityType
<1> QED
  BY <1>2, <1>3

\* What is counted is finite.
LEMMA CountsAreNat ==
    /\ \A a : IsFiniteSet(Leases(a)) /\ Cardinality(Leases(a)) \in Nat
    /\ \A a : IsFiniteSet(Downloads(a)) /\ Cardinality(Downloads(a)) \in Nat
    /\ IsFiniteSet({r \in Details : req[r].queued})
    /\ Cardinality({r \in Details : req[r].queued}) \in Nat
    /\ IsFiniteSet({m \in Media : med[m].queued})
    /\ Cardinality({m \in Media : med[m].queued}) \in Nat
    /\ IsFiniteSet({r \in Details : req[r].pc \in WritePC})
    /\ Cardinality({r \in Details : req[r].pc \in WritePC}) \in Nat
<1>1. IsFiniteSet(Details) /\ IsFiniteSet(Media)
  BY ConstantFacts
<1>2. \A S : S \subseteq Details => IsFiniteSet(S) /\ Cardinality(S) \in Nat
  BY <1>1, FS_Subset, FS_CardinalityType
<1>3. \A S : S \subseteq Media => IsFiniteSet(S) /\ Cardinality(S) \in Nat
  BY <1>1, FS_Subset, FS_CardinalityType
<1>4. \A a : Leases(a) \subseteq Details
  BY DEF Leases
<1>5. \A a : Downloads(a) \subseteq Media
  BY DEF Downloads
<1>6. /\ {r \in Details : req[r].queued} \subseteq Details
      /\ {m \in Media : med[m].queued} \subseteq Media
      /\ {r \in Details : req[r].pc \in WritePC} \subseteq Details
  OBVIOUS
<1> QED
  BY <1>2, <1>3, <1>4, <1>5, <1>6

\* Nobody takes or ends a lease.
LEMMA LeasingFrame ==
    ASSUME Leasing, SameLoad, \A s \in Details : req'[s].a = req[s].a
    PROVE  Leasing'
<1>1. \A b : Leases(b)' = Leases(b)
  BY DEF Leases
<1> QED
  BY <1>1 DEF Leasing, SameLoad

\* r takes a lease of a.
LEMMA LeaseTaken ==
    ASSUME Shaped, Leasing, NEW r \in Details, NEW a \in Accounts, Only(r),
           req[r].a \notin Accounts, req'[r].a = a, acc[a].busy < Concurrency,
           acc'[a].busy = acc[a].busy + 1,
           \A b \in Accounts : b # a => acc'[b].busy = acc[b].busy
    PROVE  Leasing'
<1>1. \A b \in Accounts : b # a => Leases(b)' = Leases(b)
  BY DEF Leases, Only
<1>2. Leases(a)' = Leases(a) \cup {r} /\ r \notin Leases(a)
  BY DEF Leases, Only
<1>3. Cardinality(Leases(a)') = Cardinality(Leases(a)) + 1
  BY <1>2, OneMore, CountsAreNat
<1>4. acc[a].busy = Cardinality(Leases(a)) /\ acc[a].busy \in Nat /\ Concurrency \in Nat
  BY ConstantFacts DEF Leasing, Shaped, IsAccount
<1>5. acc'[a].busy = Cardinality(Leases(a)') /\ acc'[a].busy <= Concurrency
  BY <1>3, <1>4
<1> QED
  BY <1>1, <1>5 DEF Leasing

\* r ends its lease of a.
LEMMA LeaseEnded ==
    ASSUME Shaped, Leasing, NEW r \in Details, NEW a \in Accounts, Only(r),
           req[r].a = a, req'[r].a \notin Accounts,
           acc'[a].busy = acc[a].busy - 1,
           \A b \in Accounts : b # a => acc'[b].busy = acc[b].busy
    PROVE  Leasing' /\ acc'[a].busy \in Nat
<1>1. \A b \in Accounts : b # a => Leases(b)' = Leases(b)
  BY DEF Leases, Only
<1>2. Leases(a)' = Leases(a) \ {r} /\ r \in Leases(a)
  BY DEF Leases, Only
<1>3. Cardinality(Leases(a)') = Cardinality(Leases(a)) - 1 /\ Cardinality(Leases(a)) >= 1
  BY <1>2, OneLess, CountsAreNat
<1>4. acc[a].busy = Cardinality(Leases(a)) /\ acc[a].busy \in Nat /\ Concurrency \in Nat
      /\ acc[a].busy <= Concurrency
  BY ConstantFacts DEF Leasing, Shaped, IsAccount
<1>5. acc'[a].busy = Cardinality(Leases(a)') /\ acc'[a].busy <= Concurrency
      /\ acc'[a].busy \in Nat
  BY <1>3, <1>4
<1> QED
  BY <1>1, <1>5 DEF Leasing

\* No download begins or ends.
LEMMA DownloadingFrame ==
    ASSUME Downloading, SameDownloads, med' = med
    PROVE  Downloading'
<1>1. \A b : Downloads(b)' = Downloads(b)
  BY DEF Downloads
<1> QED
  BY <1>1 DEF Downloading, SameDownloads

\* The queue stays as it is.
LEMMA QueueingFrame ==
    ASSUME Queueing, queued' = queued, med' = med,
           \A s \in Details : /\ req[s].queued => req'[s].queued
                              /\ req'[s].queued => req[s].queued
    PROVE  Queueing'
<1>1. {r \in Details : req'[r].queued} = {r \in Details : req[r].queued}
  OBVIOUS
<1> QED
  BY <1>1 DEF Queueing

\* r joins the queue.
LEMMA QueueJoined ==
    ASSUME Queueing, NEW r \in Details, Only(r), ~req[r].queued, req'[r].queued,
           queued < MaxQueued, queued' = queued + 1, med' = med
    PROVE  Queueing'
<1> DEFINE S == {s \in Details : req[s].queued}
           T == {s \in Details : req'[s].queued}
           M == {m \in Media : med[m].queued}
<1>1. T = S \cup {r} /\ r \notin S
  BY DEF Only
<1>2. IsFiniteSet(S) /\ Cardinality(S) \in Nat /\ Cardinality(M) \in Nat
  BY CountsAreNat
<1>3. queued = Cardinality(S) + Cardinality(M)
  BY DEF Queueing
<1>4. {m \in Media : med'[m].queued} = M
  OBVIOUS
<1> HIDE DEF S, T, M
<1>5. Cardinality(T) = Cardinality(S) + 1
  BY <1>1, <1>2, OneMore
<1>6. queued' = Cardinality(T) + Cardinality(M) /\ queued' <= MaxQueued
  BY <1>2, <1>3, <1>5, ConstantFacts
<1> QED
  BY <1>4, <1>6 DEF Queueing, T

\* r is not in the queue any more, if it was.
LEMMA QueueLeft ==
    ASSUME Queueing, NEW r \in Details, Only(r), ~req'[r].queued,
           queued' = Dequeue(req[r]), med' = med
    PROVE  Queueing'
<1> DEFINE S == {s \in Details : req[s].queued}
           T == {s \in Details : req'[s].queued}
           M == {m \in Media : med[m].queued}
<1>1. CASE req[r].queued
  <2>1. T = S \ {r} /\ r \in S
    BY <1>1 DEF Only
  <2>2. IsFiniteSet(S) /\ Cardinality(S) \in Nat /\ Cardinality(M) \in Nat
    BY CountsAreNat
  <2>3. queued = Cardinality(S) + Cardinality(M) /\ queued <= MaxQueued
    BY DEF Queueing
  <2>4. {m \in Media : med'[m].queued} = M /\ queued' = queued - 1
    BY <1>1 DEF Dequeue
  <2> HIDE DEF S, T, M
  <2>5. Cardinality(T) = Cardinality(S) - 1 /\ Cardinality(S) >= 1
    BY <2>1, <2>2, OneLess
  <2>6. queued' = Cardinality(T) + Cardinality(M) /\ queued' <= MaxQueued
    BY <2>2, <2>3, <2>4, <2>5, ConstantFacts
  <2> QED
    BY <2>4, <2>6 DEF Queueing, T
<1>2. CASE ~req[r].queued
  <2>1. queued' = queued /\ T = S
    BY <1>2 DEF Dequeue, Only
  <2> QED
    BY <2>1 DEF Queueing
<1> QED
  BY <1>1, <1>2

\* No health write begins or ends.
LEMMA WritingFrame ==
    ASSUME Writing, writes' = writes, UpdateWrites' = UpdateWrites,
           \A s \in Details : /\ req[s].pc \in WritePC => req'[s].pc \in WritePC
                              /\ req'[s].pc \in WritePC => req[s].pc \in WritePC
    PROVE  Writing'
<1>1. {r \in Details : req'[r].pc \in WritePC} = {r \in Details : req[r].pc \in WritePC}
  OBVIOUS
<1> QED
  BY <1>1 DEF Writing

\* r begins one.
LEMMA WriteBegun ==
    ASSUME Writing, NEW r \in Details, Only(r), req[r].pc \notin WritePC,
           req'[r].pc \in WritePC, writes' = writes + 1, upd' = upd
    PROVE  Writing'
<1> DEFINE S == {s \in Details : req[s].pc \in WritePC}
           T == {s \in Details : req'[s].pc \in WritePC}
<1>1. T = S \cup {r} /\ r \notin S
  BY DEF Only
<1>2. IsFiniteSet(S) /\ Cardinality(S) \in Nat
  BY CountsAreNat
<1>3. writes = Cardinality(S) + UpdateWrites
  BY DEF Writing
<1>4. UpdateWrites' = UpdateWrites /\ UpdateWrites \in Nat
  BY DEF UpdateWrites
<1> HIDE DEF S, T
<1>5. Cardinality(T) = Cardinality(S) + 1
  BY <1>1, <1>2, OneMore
<1>6. writes' = Cardinality(T) + UpdateWrites'
  BY <1>2, <1>3, <1>4, <1>5
<1> QED
  BY <1>6 DEF Writing, T

\* r ends its own.
LEMMA WriteEnded ==
    ASSUME Writing, NEW r \in Details, Only(r), req[r].pc \in WritePC,
           req'[r].pc \notin WritePC, writes' = writes - 1, upd' = upd
    PROVE  Writing'
<1> DEFINE S == {s \in Details : req[s].pc \in WritePC}
           T == {s \in Details : req'[s].pc \in WritePC}
<1>1. T = S \ {r} /\ r \in S
  BY DEF Only
<1>2. IsFiniteSet(S) /\ Cardinality(S) \in Nat
  BY CountsAreNat
<1>3. writes = Cardinality(S) + UpdateWrites
  BY DEF Writing
<1>4. UpdateWrites' = UpdateWrites /\ UpdateWrites \in Nat
  BY DEF UpdateWrites
<1> HIDE DEF S, T
<1>5. Cardinality(T) = Cardinality(S) - 1
  BY <1>1, <1>2, OneLess
<1>6. writes' = Cardinality(T) + UpdateWrites'
  BY <1>2, <1>3, <1>4, <1>5
<1> QED
  BY <1>6 DEF Writing, T

\* Nothing is being written and nothing is pending: no call marks anything.
LEMMA NobodyWrites ==
    ASSUME Writing, writes = 0
    PROVE  /\ \A r \in Details : req[r].pc \notin WritePC
           /\ upd.pc \notin {"mark", "flushHealth", "settle"}
<1> DEFINE S == {s \in Details : req[s].pc \in WritePC}
<1>1. IsFiniteSet(S) /\ Cardinality(S) \in Nat
  BY CountsAreNat
<1>2. 0 = Cardinality(S) + UpdateWrites /\ UpdateWrites \in {0, 1}
  BY DEF Writing, UpdateWrites
<1>3. Cardinality(S) = 0 /\ UpdateWrites = 0
  <2> HIDE DEF S
  <2> QED
    BY <1>1, <1>2
<1>4. S = {}
  BY <1>1, <1>3, FS_EmptySet
<1> QED
  BY <1>3, <1>4 DEF UpdateWrites

\* An account without leases is nobody's.
LEMMA NobodyLeases ==
    ASSUME Leasing, NEW a \in Accounts, acc[a].busy = 0
    PROVE  \A r \in Details : req[r].a # a
<1>1. Leases(a) = {}
  BY CountsAreNat, FS_EmptySet DEF Leasing
<1> QED
  BY <1>1 DEF Leases

-----------------------------------------------------------------------------
(* Calls of Detail.                                                        *)

\* A step of r that changes neither sessions nor health, in the pool or in the
\* table, and at most takes a lease of a live account that is not updated.
LEMMA Quiet ==
    ASSUME IInv, NEW r \in Details, Only(r), CallOK(r)', req[r].pc # "mark",
           SameAuth, SameHealth, SameFlag, SameDownloads, SameRows,
           pend' = pend, dirty' = dirty, table' = table, rejected' = rejected,
           minted' = minted, upd' = upd, med' = med, updating' = updating,
           req'[r].a \in Accounts =>
               /\ Bears(req'[r].auth, req'[r].a)
               /\ Bears(req'[r].session, req'[r].a)
               /\ \/ req'[r].a = req[r].a
                  \/ ~acc[req'[r].a].disabled /\ ~acc[req'[r].a].updating
    PROVE  Calling' /\ Updated' /\ Owned' /\ Saved' /\ Healthy' /\ Downloading' /\ Updating'
<1>0. Shaped /\ Calling /\ Updated /\ Owned /\ Saved /\ Healthy /\ Downloading /\ Updating
  BY DEF IInv, Counted
<1>1. Calling'
  BY <1>0, CallingFrame
<1>2. Updated'
  <2>1. upd.pc # "idle" => upd.a \in Accounts /\ acc[upd.a].updating
    BY <1>0 DEF Updated, Shaped
  <2>2. upd.pc # "idle" => \A s \in Details : req'[s].a = req[s].a \/ req'[s].a # upd.a
    BY <2>1 DEF Only
  <2>3. upd.pc = "publish" => /\ row'[upd.a].auth = row[upd.a].auth
                              /\ row'[upd.a].dead => row[upd.a].dead
    BY <2>1 DEF SameRows
  <2>4. upd.a \in Accounts => /\ acc'[upd.a].auth = acc[upd.a].auth
                              /\ acc'[upd.a].updating = acc[upd.a].updating
    BY DEF SameAuth, SameFlag
  <2> QED
    BY <1>0, <2>2, <2>3, <2>4, UpdatedFrame
<1>3. Owned'
  BY <1>0, OwnedStep
<1>4. Saved'
  BY <1>0, SavedFrame
<1>5. Healthy'
  <2>1. req'[r].a \in Stored => req'[r].a = req[r].a \/ ~acc[req'[r].a].disabled
    BY <1>0 DEF Shaped
  <2> QED
    BY <1>0, <2>1, HealthyFrame
<1>6. Downloading'
  BY <1>0, DownloadingFrame
<1>7. Updating'
  BY <1>0 DEF Updating
<1> QED
  BY <1>1, <1>2, <1>3, <1>4, <1>5, <1>6, <1>7

\* The invariant, put together.
LEMMA Together ==
    ASSUME Shaped', Calling' /\ Updated' /\ Owned' /\ Saved' /\ Healthy',
           Gated', Leasing', Downloading' /\ Updating', Queueing', Writing'
    PROVE  IInv'
  BY DEF IInv, Counted

\* A step that leaves the account records alone.
LEMMA SameAccounts ==
    ASSUME acc' = acc
    PROVE  SameAuth /\ SameHealth /\ SameGate /\ SameFlag /\ SameLoad /\ SameDownloads
  BY DEF SameAuth, SameHealth, SameGate, SameFlag, SameLoad, SameDownloads

\* A step that leaves the rows alone.
LEMMA SameTable ==
    ASSUME row' = row
    PROVE  SameRows
  BY DEF SameRows

\* The shapes, when only calls change.
LEMMA ShapedCalls ==
    ASSUME Shaped, NEW r \in Details, Only(r), IsCall(req'[r]),
           storeVars' = storeVars, accounts' = accounts, acc' = acc, med' = med,
           upd' = upd, clock' = clock, minted' = minted
    PROVE  Shaped'
<1>1. table' = table /\ row' = row /\ pend' = pend
  BY DEF storeVars
<1>2. DOMAIN req' = Details /\ \A s \in Details : IsCall(req'[s])
  BY DEF Shaped, Only
<1> QED
  BY <1>1, <1>2 DEF Shaped, Stored

\* wait for a slot.
LEMMA WaitKeeps ==
    ASSUME IInv, NEW r \in Details, Wait(r)
    PROVE  IInv'
<1>0. Shaped /\ Calling /\ Gated /\ Updated /\ Leasing /\ Queueing /\ Writing
      /\ CallOK(r) /\ IsCall(req[r]) /\ DOMAIN req = Details
  BY DEF IInv, Counted, Calling, Shaped
<1>1. req[r].pc = "acquire" /\ req' = [req EXCEPT ![r].queued = TRUE]
  BY DEF Wait
<1>2. Only(r) /\ DOMAIN req'[r] = DOMAIN req[r] /\ req'[r].queued = TRUE
      /\ req'[r].pc = "acquire" /\ req'[r].a = req[r].a /\ req'[r].auth = req[r].auth
      /\ req'[r].session = req[r].session /\ req'[r].out = req[r].out
      /\ req'[r].until = req[r].until
  BY <1>0, <1>1 DEF Only, IsCall
<1>3. /\ storeVars' = storeVars /\ accounts' = accounts /\ acc' = acc /\ med' = med
      /\ upd' = upd /\ clock' = clock /\ minted' = minted /\ rejected' = rejected
      /\ table' = table /\ row' = row /\ pend' = pend /\ dirty' = dirty
      /\ writes' = writes /\ updating' = updating
  BY DEF Wait, storeVars, ghosts, env
<1>4. Shaped'
  <2>1. IsCall(req'[r])
    BY <1>0, <1>2 DEF IsCall
  <2> QED
    BY <1>0, <1>2, <1>3, <2>1, ShapedCalls
<1>5. CallOK(r)'
  BY <1>0, <1>1, <1>2 DEF CallOK, LeasePC
<1>6. req'[r].a \notin Accounts
  BY <1>0, <1>1, <1>2, ConstantFacts DEF CallOK, LeasePC
<1>7. Calling' /\ Updated' /\ Owned' /\ Saved' /\ Healthy' /\ Downloading' /\ Updating'
  BY <1>1, <1>2, <1>3, <1>5, <1>6, Quiet, SameAccounts, SameTable
<1>8. Gated'
  BY <1>0, <1>1, <1>2, <1>3, GatedFrame, SameAccounts DEF Only, GatePC
<1>9. Leasing'
  BY <1>0, <1>2, <1>3, LeasingFrame, SameAccounts DEF Only
<1>10. Writing'
  BY <1>0, <1>1, <1>2, <1>3, WritingFrame DEF Only, WritePC, UpdateWrites
<1>11. Queueing'
  <2>1. CASE req[r].queued
    BY <2>1, <1>0, <1>2, <1>3, QueueingFrame DEF Only, Wait
  <2>2. CASE ~req[r].queued
    BY <2>2, <1>0, <1>2, <1>3, QueueJoined DEF Wait
  <2> QED
    BY <2>1, <2>2
<1> QED
  BY <1>4, <1>7, <1>8, <1>9, <1>10, <1>11, Together

\* The verdicts.
LEMMA Outs ==
    /\ IsOut(Success) /\ IsOut(Failure) /\ ~Failure.disable /\ ~Failure.renew
    /\ Failure.cool = 0
    /\ IsOut(Unlucky) /\ ~Unlucky.disable /\ ~Unlucky.renew
    /\ IsOut(Expired)
    /\ \A d \in Nat : IsOut(LoginExpired(d)) /\ ~LoginExpired(d).renew
    /\ \A d \in Nat : IsOut(Throttled(d)) /\ ~Throttled(d).disable /\ ~Throttled(d).renew
                      /\ Throttled(d).cool = d
    /\ \A d \in Nat : IsOut(Restricted(d)) /\ ~Restricted(d).renew
<1>1. IsOut(Success) /\ IsOut(Failure) /\ ~Failure.disable /\ ~Failure.renew
      /\ Failure.cool = 0
  BY DEF IsOut, Success, Failure
<1>2. IsOut(Unlucky) /\ ~Unlucky.disable /\ ~Unlucky.renew
  BY DEF IsOut, Success, Failure, Unlucky
<1>3. IsOut(Expired) /\ \A d \in Nat : IsOut(LoginExpired(d)) /\ ~LoginExpired(d).renew
  BY DEF IsOut, Success, Failure, Unlucky, Expired, LoginExpired
<1>4. ASSUME NEW d \in Nat
      PROVE  IsOut(Throttled(d)) /\ ~Throttled(d).disable /\ ~Throttled(d).renew
             /\ Throttled(d).cool = d
  BY DEF IsOut, Success, Failure, Unlucky, Throttled
<1>5. ASSUME NEW d \in Nat
      PROVE  IsOut(Restricted(d)) /\ ~Restricted(d).renew
  BY DEF IsOut, Success, Failure, Restricted
<1> QED
  BY <1>1, <1>2, <1>3, <1>4, <1>5

\* The answers of lookup and of a login.
LEMMA AnswersAreOuts ==
    /\ \A out \in lookup : IsOut(out)
    /\ \A out \in recoveryDisposition \cup {Failure} : IsOut(out) /\ ~out.renew
<1>1. 1..MaxDelay \subseteq Nat /\ 0..MaxDelay \subseteq Nat
  BY ConstantFacts
<1> QED
  BY <1>1, Outs DEF lookup, recoveryDisposition

\* A call that has not begun, or has ended.
LEMMA IdleAndDone ==
    /\ IsCall(Idle) /\ Idle.pc = "idle" /\ Idle.a = None /\ ~Idle.queued
    /\ Idle.auth = 0 /\ Idle.session = 0
    /\ IsCall(Done) /\ Done.pc = "done" /\ Done.a = None /\ ~Done.queued
    /\ Done.auth = 0 /\ Done.session = 0
<1>1. IsOut(Success)
  BY Outs
<1>2. IsCall(Idle) /\ Idle.pc = "idle" /\ Idle.a = None /\ ~Idle.queued
      /\ Idle.auth = 0 /\ Idle.session = 0
  BY <1>1 DEF IsCall, Idle, NoSession
<1>3. /\ DOMAIN Done = DOMAIN Idle /\ Done.pc = "done" /\ Done.a = Idle.a
      /\ Done.queued = Idle.queued /\ Done.auth = Idle.auth /\ Done.session = Idle.session
      /\ Done.until = Idle.until /\ Done.out = Idle.out
  BY DEF Done, Idle
<1> QED
  BY <1>2, <1>3 DEF IsCall

\* acquire fails, or its caller goes away: the call ends.
LEMMA GivesUp ==
    ASSUME IInv, NEW r \in Details, req[r].pc = "acquire",
           req' = [req EXCEPT ![r] = Done], queued' = Dequeue(req[r]),
           storeVars' = storeVars, accounts' = accounts, acc' = acc, med' = med,
           upd' = upd, clock' = clock, minted' = minted, rejected' = rejected,
           writes' = writes, updating' = updating
    PROVE  IInv'
<1>0. Shaped /\ Calling /\ Gated /\ Updated /\ Leasing /\ Queueing /\ Writing
      /\ CallOK(r) /\ IsCall(req[r]) /\ DOMAIN req = Details
  BY DEF IInv, Counted, Calling, Shaped
<1>2. Only(r) /\ req'[r] = Done
  BY <1>0 DEF Only
<1>3. table' = table /\ row' = row /\ pend' = pend /\ dirty' = dirty
  BY DEF storeVars
<1>4. Shaped'
  BY <1>0, <1>2, IdleAndDone, ShapedCalls
<1>5. CallOK(r)'
  BY <1>2, IdleAndDone DEF CallOK, LeasePC
<1>6. req'[r].a = req[r].a /\ req'[r].a \notin Accounts
  BY <1>0, <1>2, IdleAndDone, ConstantFacts DEF CallOK, LeasePC
<1>7. Calling' /\ Updated' /\ Owned' /\ Saved' /\ Healthy' /\ Downloading' /\ Updating'
  BY <1>2, <1>3, <1>5, <1>6, Quiet, SameAccounts, SameTable
<1>8. Gated'
  BY <1>0, <1>2, IdleAndDone, GatedFrame, SameAccounts DEF Only, GatePC
<1>9. Leasing'
  BY <1>0, <1>2, <1>6, LeasingFrame, SameAccounts DEF Only
<1>10. Writing'
  BY <1>0, <1>2, IdleAndDone, WritingFrame DEF Only, WritePC, UpdateWrites
<1>11. Queueing'
  BY <1>0, <1>2, IdleAndDone, QueueLeft
<1> QED
  BY <1>4, <1>7, <1>8, <1>9, <1>10, <1>11, Together

\* acquire returns an error.
LEMMA RefuseKeeps ==
    ASSUME IInv, NEW r \in Details, Refuse(r)
    PROVE  IInv'
  BY GivesUp DEF Refuse, End, ghosts, env

\* The caller goes away.
LEMMA CancelWaitKeeps ==
    ASSUME IInv, NEW r \in Details, CancelWait(r)
    PROVE  IInv'
  BY GivesUp DEF CancelWait, End, ghosts, env

\* A step of a call that keeps its lease and leaves sessions and health alone.
LEMMA LeaseStep ==
    ASSUME IInv, NEW r \in Details, Only(r), Shaped', CallOK(r)', Gated', Writing',
           req[r].pc \in LeasePC, req'[r].pc \in LeasePC, req[r].pc # "mark",
           req'[r].a = req[r].a, Bears(req'[r].auth, req[r].a),
           Bears(req'[r].session, req[r].a),
           SameAuth, SameHealth, SameFlag, SameLoad, SameDownloads, SameRows,
           pend' = pend, dirty' = dirty, table' = table, rejected' = rejected,
           minted' = minted, upd' = upd, med' = med, updating' = updating,
           queued' = queued
    PROVE  IInv'
<1>0. Shaped /\ Calling /\ Leasing /\ Queueing /\ CallOK(r)
  BY DEF IInv, Counted, Calling
<1>1. Calling' /\ Updated' /\ Owned' /\ Saved' /\ Healthy' /\ Downloading' /\ Updating'
  BY Quiet
<1>2. Leasing'
  BY <1>0, LeasingFrame DEF Only
<1>3. ~req[r].queued /\ ~req'[r].queued
  BY <1>0 DEF CallOK, LeasePC
<1>4. Queueing'
  BY <1>0, <1>3, QueueingFrame DEF Only
<1> QED
  BY <1>1, <1>2, <1>4, Together

\* A step of lookupRecovering or Detail that touches nothing but its call.
LEMMA LookupStep ==
    ASSUME IInv, NEW r \in Details, Only(r), IsCall(req'[r]), CallOK(r)',
           req[r].pc \in LeasePC, req'[r].pc \in LeasePC,
           req[r].pc \notin GatePC, req'[r].pc \notin GatePC,
           req'[r].a = req[r].a, Bears(req'[r].auth, req[r].a),
           req'[r].session = req[r].session,
           storeVars' = storeVars, accounts' = accounts, acc' = acc, med' = med,
           upd' = upd, clock' = clock, minted' = minted, rejected' = rejected,
           writes' = writes, updating' = updating, queued' = queued
    PROVE  IInv'
<1>0. Shaped /\ Calling /\ Gated /\ Updated /\ Writing
  BY DEF IInv, Counted, Calling
<1>1. table' = table /\ row' = row /\ pend' = pend /\ dirty' = dirty
  BY DEF storeVars
<1>2. Shaped'
  BY <1>0, ShapedCalls
<1>3. Gated'
  BY <1>0, GatedFrame, SameAccounts DEF Only
<1>4. Writing'
  BY <1>0, WritingFrame DEF Only, WritePC, GatePC, UpdateWrites
<1>5. Bears(req'[r].session, req[r].a)
  BY DEF Bears
<1>6. req[r].pc # "mark"
  BY DEF GatePC
<1> QED
  BY <1>1, <1>2, <1>3, <1>4, <1>5, <1>6, LeaseStep, SameAccounts, SameTable

\* sessionContext is read.
LEMMA ReadSessionKeeps ==
    ASSUME IInv, NEW r \in Details, ReadSession(r)
    PROVE  IInv'
<1>0. Shaped /\ CallOK(r) /\ IsCall(req[r]) /\ DOMAIN req = Details
  BY DEF IInv, Calling, Shaped
<1>1. req[r].pc = "session" /\ req[r].a \in Accounts
  BY <1>0 DEF ReadSession, CallOK, LeasePC, Shaped
<1>2. Only(r) /\ DOMAIN req'[r] = DOMAIN req[r] /\ req'[r].pc = "check"
      /\ req'[r].auth = acc[req[r].a].auth /\ req'[r].a = req[r].a
      /\ req'[r].queued = req[r].queued /\ req'[r].session = req[r].session
      /\ req'[r].out = req[r].out /\ req'[r].until = req[r].until
  BY <1>0 DEF ReadSession, Only, IsCall
<1>3. IsCall(req'[r])
  BY <1>0, <1>1, <1>2 DEF IsCall, IsAccount, Shaped
<1>4. table' = table
  BY DEF ReadSession, storeVars
<1>5. CallOK(r)'
  BY <1>0, <1>1, <1>2, <1>4 DEF CallOK, LeasePC, Stored
<1>6. Bears(req'[r].auth, req[r].a)
  BY <1>2 DEF Bears
<1> QED
  BY <1>1, <1>2, <1>3, <1>5, <1>6, LookupStep
     DEF ReadSession, LeasePC, GatePC, poolVars, ghosts, env

\* What follows an outcome.
LEMMA AfterOut ==
    ASSUME Shaped, NEW r \in Details, NEW o, IsOut(o), req' = After(r, o)
    PROVE  /\ Only(r) /\ IsCall(req'[r]) /\ req'[r].out = o
           /\ (req'[r].pc = "renew" /\ o.renew) \/ req'[r].pc = "judge"
           /\ req'[r].a = req[r].a /\ req'[r].auth = req[r].auth
           /\ req'[r].session = req[r].session /\ req'[r].queued = req[r].queued
           /\ req'[r].until = req[r].until
<1>0. IsCall(req[r]) /\ DOMAIN req = Details
  BY DEF Shaped
<1> DEFINE p == IF o.renew /\ ~req[r].renewed /\ acc[req[r].a].login
                THEN "renew" ELSE "judge"
<1>1. req' = [req EXCEPT ![r].out = o, ![r].pc = p]
  BY DEF After
<1>2. (p = "renew" /\ o.renew) \/ p = "judge"
  OBVIOUS
<1> HIDE DEF p
<1>3. /\ Only(r) /\ DOMAIN req'[r] = DOMAIN req[r] /\ req'[r].pc = p /\ req'[r].out = o
      /\ req'[r].a = req[r].a /\ req'[r].auth = req[r].auth
      /\ req'[r].session = req[r].session /\ req'[r].queued = req[r].queued
      /\ req'[r].until = req[r].until
  BY <1>0, <1>1 DEF Only, IsCall
<1>4. IsCall(req'[r])
  BY <1>0, <1>3 DEF IsCall
<1> QED
  BY <1>2, <1>3, <1>4

\* The verdict on a blocked account is a death only when it is dead.
LEMMA BlockedOut ==
    ASSUME Shaped, NEW a \in Accounts, accountUnavailable(a)
    PROVE  IsOut(Blocked(a)) /\ (Blocked(a).disable => acc[a].disabled)
<1>1. CASE acc[a].disabled
  BY <1>1, Outs DEF Blocked
<1>2. CASE ~acc[a].disabled
  <2>1. acc[a].cooldown - clock \in Nat
    BY <1>2 DEF accountUnavailable, Cooling, Shaped, IsAccount
  <2>2. Blocked(a) = Throttled(acc[a].cooldown - clock)
    BY <1>2 DEF Blocked
  <2> QED
    BY <2>1, <2>2, Outs
<1> QED
  BY <1>1, <1>2

\* A call that goes on to be judged, or to renew a session that was rejected.
LEMMA JudgedNext ==
    ASSUME IInv, NEW r \in Details, Only(r), IsCall(req'[r]),
           req[r].pc \in LeasePC, req[r].pc \notin GatePC,
           req'[r].pc \in {"judge", "renew", "sent", "session", "release"},
           req'[r].a = req[r].a, req'[r].auth = req[r].auth,
           req'[r].session = req[r].session, req'[r].queued = req[r].queued,
           (req'[r].pc = "judge" /\ req'[r].out.disable) =>
               req[r].auth \in rejected \/ acc[req[r].a].disabled,
           req'[r].pc = "renew" => req[r].auth \in rejected,
           storeVars' = storeVars, accounts' = accounts, acc' = acc, med' = med,
           upd' = upd, clock' = clock, minted' = minted, rejected' = rejected,
           writes' = writes, updating' = updating, queued' = queued
    PROVE  IInv'
<1>0. CallOK(r)
  BY DEF IInv, Calling
<1>1. table' = table
  BY DEF storeVars
<1>2. CallOK(r)'
  BY <1>0, <1>1 DEF CallOK, LeasePC, Stored
<1>3. Bears(req'[r].auth, req[r].a)
  BY DEF Bears
<1> QED
  BY <1>2, <1>3, LookupStep DEF LeasePC, GatePC

\* lookupRecovering looks at the account before it sends anything.
LEMMA CheckAccountKeeps ==
    ASSUME IInv, NEW r \in Details, CheckAccount(r)
    PROVE  IInv'
<1> DEFINE a == req[r].a
<1>0. Shaped /\ Healthy /\ CallOK(r) /\ IsCall(req[r]) /\ DOMAIN req = Details
  BY DEF IInv, Calling, Shaped
<1>1. req[r].pc = "check" /\ a \in Accounts
  BY <1>0 DEF CheckAccount, CallOK, LeasePC, Shaped
<1>2. /\ storeVars' = storeVars /\ accounts' = accounts /\ acc' = acc /\ med' = med
      /\ upd' = upd /\ clock' = clock /\ minted' = minted /\ rejected' = rejected
      /\ writes' = writes /\ updating' = updating /\ queued' = queued
  BY DEF CheckAccount, poolVars, ghosts, env
<1>3. CASE accountUnavailable(a)
  <2>1. req' = [req EXCEPT ![r].pc = "judge", ![r].out = Blocked(a)]
    BY <1>3 DEF CheckAccount
  <2>2. IsOut(Blocked(a)) /\ (Blocked(a).disable => acc[a].disabled)
    BY <1>0, <1>1, <1>3, BlockedOut
  <2>3. /\ Only(r) /\ DOMAIN req'[r] = DOMAIN req[r]
        /\ req'[r].pc = "judge" /\ req'[r].out = Blocked(a)
        /\ req'[r].a = req[r].a /\ req'[r].auth = req[r].auth
        /\ req'[r].session = req[r].session /\ req'[r].queued = req[r].queued
        /\ req'[r].until = req[r].until
    BY <1>0, <2>1 DEF Only, IsCall
  <2>4. IsCall(req'[r])
    BY <1>0, <2>2, <2>3 DEF IsCall
  <2> QED
    BY <1>1, <1>2, <2>2, <2>3, <2>4, JudgedNext DEF LeasePC, GatePC
<1>4. CASE ~accountUnavailable(a) /\ req[r].cancelled
  <2>1. req' = [req EXCEPT ![r].pc = "judge", ![r].out = Failure]
    BY <1>4 DEF CheckAccount
  <2>2. /\ Only(r) /\ DOMAIN req'[r] = DOMAIN req[r]
        /\ req'[r].pc = "judge" /\ req'[r].out = Failure
        /\ req'[r].a = req[r].a /\ req'[r].auth = req[r].auth
        /\ req'[r].session = req[r].session /\ req'[r].queued = req[r].queued
        /\ req'[r].until = req[r].until
    BY <1>0, <2>1 DEF Only, IsCall
  <2>3. IsCall(req'[r]) /\ ~req'[r].out.disable
    BY <1>0, <2>2, Outs DEF IsCall
  <2> QED
    BY <1>1, <1>2, <2>2, <2>3, JudgedNext DEF LeasePC, GatePC
<1>5. CASE ~accountUnavailable(a) /\ ~req[r].cancelled /\ req[r].auth = NoSession
  <2>1. req' = After(r, Expired)
    BY <1>5 DEF CheckAccount
  <2>2. req[r].auth \in rejected
    BY <1>0, <1>5 DEF Healthy
  <2> QED
    BY <1>0, <1>1, <1>2, <2>1, <2>2, Outs, AfterOut, JudgedNext DEF LeasePC, GatePC
<1>6. CASE ~accountUnavailable(a) /\ ~req[r].cancelled /\ req[r].auth # NoSession
  <2>1. req' = [req EXCEPT ![r].pc = "sent"]
    BY <1>6 DEF CheckAccount
  <2>2. Only(r) /\ DOMAIN req'[r] = DOMAIN req[r] /\ req'[r].pc = "sent"
        /\ req'[r].auth = req[r].auth /\ req'[r].a = req[r].a
        /\ req'[r].queued = req[r].queued /\ req'[r].session = req[r].session
        /\ req'[r].out = req[r].out /\ req'[r].until = req[r].until
    BY <1>0, <2>1 DEF Only, IsCall
  <2>3. IsCall(req'[r])
    BY <1>0, <2>2 DEF IsCall
  <2> QED
    BY <1>1, <1>2, <2>2, <2>3, JudgedNext DEF LeasePC, GatePC
<1> QED
  BY <1>3, <1>4, <1>5, <1>6

\* The caller goes away during the request.
LEMMA CancelRequestKeeps ==
    ASSUME IInv, NEW r \in Details, CancelRequest(r)
    PROVE  IInv'
<1>0. Shaped /\ CallOK(r) /\ IsCall(req[r]) /\ DOMAIN req = Details
  BY DEF IInv, Calling, Shaped
<1>1. Only(r) /\ DOMAIN req'[r] = DOMAIN req[r] /\ req'[r].pc = "judge"
      /\ req'[r].auth = req[r].auth /\ req'[r].a = req[r].a
      /\ req'[r].queued = req[r].queued /\ req'[r].session = req[r].session
      /\ req'[r].out = Failure /\ req'[r].until = req[r].until
  BY <1>0 DEF CancelRequest, Only, IsCall
<1>2. IsCall(req'[r]) /\ ~req'[r].out.disable
  BY <1>0, <1>1, Outs DEF IsCall
<1> QED
  BY <1>1, <1>2, JudgedNext DEF CancelRequest, LeasePC, GatePC, poolVars, ghosts, env

\* lookup returns: a session that fails is rejected, and no other account has it.
LEMMA AnswerKeeps ==
    ASSUME IInv, NEW r \in Details, NEW out \in lookup, Answer(r, out)
    PROVE  IInv'
<1> DEFINE a == req[r].a
<1>0. /\ Shaped /\ Calling /\ Gated /\ Updated /\ Owned /\ Saved /\ Healthy
      /\ Leasing /\ Downloading /\ Queueing /\ Writing /\ Updating
      /\ CallOK(r) /\ IsCall(req[r]) /\ IsOut(out)
  BY AnswersAreOuts DEF IInv, Counted, Calling, Shaped
<1>1. req[r].pc = "sent" /\ a \in Accounts /\ ~req[r].queued
  BY <1>0 DEF Answer, CallOK, LeasePC, Shaped
<1>2. /\ storeVars' = storeVars /\ accounts' = accounts /\ acc' = acc /\ med' = med
      /\ upd' = upd /\ clock' = clock /\ minted' = minted
      /\ writes' = writes /\ updating' = updating /\ queued' = queued
      /\ table' = table /\ row' = row /\ pend' = pend /\ dirty' = dirty
  BY DEF Answer, poolVars, storeVars, env
<1>3. /\ Only(r) /\ IsCall(req'[r]) /\ req'[r].out = out
      /\ (req'[r].pc = "renew" /\ out.renew) \/ req'[r].pc = "judge"
      /\ req'[r].a = a /\ req'[r].auth = req[r].auth
      /\ req'[r].session = req[r].session /\ req'[r].queued = req[r].queued
  BY <1>0, AfterOut DEF Answer
<1>4. /\ rejected \subseteq rejected' /\ rejected' \subseteq rejected \cup {req[r].auth}
      /\ out.disable => req[r].auth \in rejected'
  BY DEF Answer
<1>5. Shaped'
  BY <1>0, <1>2, <1>3, ShapedCalls
<1>6. CallOK(r)'
  BY <1>0, <1>1, <1>2, <1>3, <1>4 DEF CallOK, LeasePC, Stored, IsOut
<1>7. Calling'
  BY <1>0, <1>2, <1>3, <1>4, <1>6, CallingFrame, SameAccounts, SameTable
<1>8. Gated'
  BY <1>0, <1>2, <1>3, GatedFrame, SameAccounts DEF Only, GatePC
<1>9. ASSUME NEW b \in Accounts, NEW s \in Nat, Bears(s, b), b # a, s \notin rejected
      PROVE  s \notin rejected'
  <2>1. Bears(req[r].auth, a) /\ req[r].auth \in Nat
    BY <1>0 DEF Bears, IsCall
  <2>2. s # NoSession
    BY <1>0, <1>9 DEF Healthy
  <2> QED
    BY <1>0, <1>1, <1>4, <1>9, <2>1, <2>2, OwnersDiffer
<1>10. Updated'
  <2>1. upd.pc # "idle" => upd.a \in Accounts
    BY <1>0 DEF Updated, Shaped
  <2>2. (upd.pc \in {"replace", "publish"} /\ upd.session \notin rejected)
            => upd.session \notin rejected'
    <3>1. upd.pc \in {"replace", "publish"} => a # upd.a /\ upd.a \in Accounts
      BY <1>0, <2>1 DEF Updated
    <3>2. Bears(upd.session, upd.a) /\ upd.session \in Nat
      BY <1>0 DEF Bears, Shaped, IsUpdate
    <3> QED
      BY <3>1, <3>2, <1>9
  <2> QED
    BY <1>0, <1>2, <1>3, <2>1, <2>2, UpdatedFrame DEF Only
<1>11. Owned'
  <2>1. Bears(req'[r].auth, a) /\ Bears(req'[r].session, a)
    BY <1>3 DEF Bears
  <2> QED
    BY <1>0, <1>2, <1>3, <2>1, OwnedStep, SameAccounts, SameTable
<1>12. Saved'
  BY <1>0, <1>2, SavedFrame, SameAccounts, SameTable
<1>13. Healthy'
  <2>1. ASSUME NEW b \in Stored PROVE HealthOf(b)'
    <3>1. b \in Accounts /\ HealthOf(b)
      BY <1>0 DEF Shaped, Healthy
    <3>2. (acc[b].disabled /\ acc[b].auth \in rejected') => acc[b].auth \in rejected
      <4> SUFFICES ASSUME acc[b].disabled, acc[b].auth \notin rejected
                   PROVE  acc[b].auth \notin rejected'
        OBVIOUS
      <4>1. b # a
        BY <3>1 DEF HealthOf
      <4>2. Bears(acc[b].auth, b) /\ acc[b].auth \in Nat
        BY <1>0, <3>1 DEF Bears, Shaped, IsAccount
      <4> QED
        BY <3>1, <4>1, <4>2, <1>9
    <3>3. \A s \in Details : Marks(s, b) =>
               /\ req'[s].pc = "mark" /\ req'[s].a = b
               /\ req'[s].out.reason = req[s].out.reason /\ req'[s].until = req[s].until
      BY <1>1, <1>3 DEF Marks, Only
    <3>4. \A s \in Details : req'[s].a = b => req[s].a = b \/ ~acc[b].disabled
      BY <1>3 DEF Only
    <3> QED
      BY <3>1, <3>2, <3>3, <3>4, <1>2, <1>4, HealthFrame
  <2> QED
    BY <1>0, <1>2, <1>4, <2>1 DEF Healthy, Stored
<1>14. Leasing' /\ Downloading' /\ Updating'
  BY <1>0, <1>2, <1>3, LeasingFrame, DownloadingFrame, SameAccounts DEF Only, Updating
<1>15. Queueing' /\ Writing'
  BY <1>0, <1>1, <1>2, <1>3, QueueingFrame, WritingFrame DEF Only, WritePC, UpdateWrites
<1> QED
  BY <1>5, <1>7, <1>8, <1>10, <1>11, <1>12, <1>13, <1>14, <1>15, Together

\* The shapes, when calls and account records change.
LEMMA ShapedAccounts ==
    ASSUME Shaped, NEW r \in Details, Only(r), IsCall(req'[r]),
           DOMAIN acc' = Accounts, \A b \in Accounts : IsAccount(acc'[b]),
           table' = table, row' = row, pend' = pend, accounts' = accounts, med' = med,
           upd' = upd, clock' = clock, minted' \in Nat
    PROVE  Shaped'
<1>1. DOMAIN req' = Details /\ \A s \in Details : IsCall(req'[s])
  BY DEF Shaped, Only
<1> QED
  BY <1>1 DEF Shaped, Stored

\* acquire takes an account that is alive, has a free slot and is not updated.
LEMMA AcquireKeeps ==
    ASSUME IInv, NEW r \in Details, Acquire(r)
    PROVE  IInv'
<1>0. /\ Shaped /\ Calling /\ Gated /\ Updated /\ Leasing /\ Queueing /\ Writing
      /\ CallOK(r) /\ IsCall(req[r]) /\ DOMAIN req = Details
  BY DEF IInv, Counted, Calling, Shaped
<1>1. PICK i \in Free(req[r].tried) :
          /\ acc' = [acc EXCEPT ![accounts[i]].busy = @ + 1]
          /\ req' = [req EXCEPT ![r].pc = "session", ![r].a = accounts[i],
                        ![r].tried = @ \cup {accounts[i]}, ![r].queued = FALSE]
  BY DEF Acquire
<1> DEFINE a == accounts[i]
           t == req[r].tried \cup {a}
<1>2. a \in Stored /\ a \in Accounts /\ ~acc[a].disabled /\ ~acc[a].updating
      /\ acc[a].busy < Concurrency
  BY <1>0, <1>1 DEF Free, Available, Shaped, Stored
<1>3. req[r].pc = "acquire" /\ req[r].a \notin Accounts
  BY <1>0, ConstantFacts DEF Acquire, CallOK, LeasePC
<1>4. /\ storeVars' = storeVars /\ accounts' = accounts /\ med' = med
      /\ upd' = upd /\ clock' = clock /\ minted' = minted /\ rejected' = rejected
      /\ writes' = writes /\ updating' = updating /\ queued' = Dequeue(req[r])
      /\ table' = table /\ row' = row /\ pend' = pend /\ dirty' = dirty
  BY DEF Acquire, storeVars, ghosts, env
<1>5. /\ Only(r) /\ DOMAIN req'[r] = DOMAIN req[r] /\ req'[r].pc = "session"
      /\ req'[r].a = a /\ req'[r].queued = FALSE /\ req'[r].auth = req[r].auth
      /\ req'[r].session = req[r].session /\ req'[r].out = req[r].out
      /\ req'[r].until = req[r].until
  <2>1. req' = [req EXCEPT ![r].pc = "session", ![r].a = a,
                           ![r].tried = t, ![r].queued = FALSE]
    BY <1>0, <1>1 DEF IsCall
  <2> HIDE DEF a, t
  <2> QED
    BY <1>0, <2>1 DEF Only, IsCall
<1>6. /\ DOMAIN acc' = Accounts /\ \A b \in Accounts : b # a => acc'[b] = acc[b]
      /\ DOMAIN acc'[a] = DOMAIN acc[a] /\ acc'[a].busy = acc[a].busy + 1
      /\ acc'[a].auth = acc[a].auth /\ acc'[a].disabled = acc[a].disabled
      /\ acc'[a].reason = acc[a].reason /\ acc'[a].cooldown = acc[a].cooldown
      /\ acc'[a].gate = acc[a].gate /\ acc'[a].updating = acc[a].updating
      /\ acc'[a].mediaBusy = acc[a].mediaBusy
      /\ acc'[a].refreshAfter = acc[a].refreshAfter
      /\ acc'[a].refreshErr = acc[a].refreshErr
  <2> HIDE DEF a
  <2>1. acc' = [acc EXCEPT ![a].busy = @ + 1]
    BY <1>1 DEF a
  <2> QED
    BY <1>0, <1>2, <2>1 DEF Shaped, IsAccount
<1> HIDE DEF a
<1>7. SameAuth /\ SameHealth /\ SameGate /\ SameFlag /\ SameDownloads
  BY <1>6 DEF SameAuth, SameHealth, SameGate, SameFlag, SameDownloads
<1>8. Shaped'
  <2>1. IsCall(req'[r])
    BY <1>0, <1>5 DEF IsCall
  <2>2. ASSUME NEW b \in Accounts PROVE IsAccount(acc'[b])
    <3>1. IsAccount(acc[b])
      BY <1>0 DEF Shaped
    <3>2. CASE b = a
      BY <3>1, <3>2, <1>6 DEF IsAccount
    <3> QED
      BY <3>1, <3>2, <1>6
  <2>3. minted' \in Nat
    BY <1>0, <1>4 DEF Shaped
  <2> QED
    BY <1>0, <1>4, <1>5, <1>6, <2>1, <2>2, <2>3, ShapedAccounts
<1>9. CallOK(r)'
  BY <1>2, <1>4, <1>5 DEF CallOK, LeasePC, Stored
<1>10. Calling' /\ Updated' /\ Owned' /\ Saved' /\ Healthy' /\ Downloading' /\ Updating'
  <2>1. Bears(req'[r].auth, a) /\ Bears(req'[r].session, a)
    <3>1. req[r].auth = NoSession /\ req[r].session = NoSession
      BY <1>0, <1>3 DEF CallOK
    <3> QED
      BY <3>1, <1>5 DEF Bears
  <2> QED
    BY <1>2, <1>3, <1>4, <1>5, <1>7, <1>9, <2>1, Quiet, SameTable
<1>11. Gated'
  BY <1>0, <1>3, <1>4, <1>5, <1>7, GatedFrame DEF Only, GatePC
<1>12. Leasing'
  BY <1>0, <1>2, <1>3, <1>5, <1>6, LeaseTaken
<1>13. Queueing'
  BY <1>0, <1>4, <1>5, QueueLeft
<1>14. Writing'
  BY <1>0, <1>3, <1>4, <1>5, WritingFrame DEF Only, WritePC, UpdateWrites
<1> QED
  BY <1>8, <1>10, <1>11, <1>12, <1>13, <1>14, Together

\* The failure that is kept for callers that come too soon.
LEMMA LastFailureOut ==
    ASSUME Shaped, NEW a \in Accounts, TooSoon(a)
    PROVE  IsOut(LastFailure(a))
<1> DEFINE e == acc[a].refreshErr
           c == IF e.cool = 0 THEN 0 ELSE acc[a].refreshAfter - clock
<1>1. IsOut(e) /\ c \in Nat
  BY DEF Shaped, IsAccount, TooSoon
<1>2. LastFailure(a) = [e EXCEPT !.cool = c]
  BY <1>1 DEF LastFailure, IsOut
<1> HIDE DEF e, c
<1>3. /\ DOMAIN LastFailure(a) = DOMAIN e /\ LastFailure(a).cool = c
      /\ LastFailure(a).disable = e.disable /\ LastFailure(a).reason = e.reason
      /\ LastFailure(a).renew = e.renew
  BY <1>1, <1>2 DEF IsOut
<1> QED
  BY <1>1, <1>3 DEF IsOut

\* renew, under the gate: a renewal begins only for the session in use, which was
\* rejected, of an account that is alive.
LEMMA RenewKeeps ==
    ASSUME IInv, NEW r \in Details, Renew(r)
    PROVE  IInv'
<1> DEFINE a == req[r].a
<1>0. /\ Shaped /\ Calling /\ Gated /\ Updated /\ Writing
      /\ CallOK(r) /\ IsCall(req[r]) /\ DOMAIN req = Details
  BY DEF IInv, Counted, Calling, Shaped
<1>1. req[r].pc = "renew" /\ a \in Accounts /\ req[r].auth \in rejected /\ ~acc[a].gate
      /\ a \in Stored /\ ~req[r].queued
  BY <1>0 DEF Renew, CallOK, LeasePC, Shaped
<1>2. /\ storeVars' = storeVars /\ accounts' = accounts /\ med' = med /\ upd' = upd
      /\ clock' = clock /\ minted' = minted /\ rejected' = rejected
      /\ writes' = writes /\ updating' = updating /\ queued' = queued
      /\ table' = table /\ row' = row /\ pend' = pend /\ dirty' = dirty
  BY DEF Renew, otherPool, storeVars, ghosts, env
<1>3. CASE accountUnavailable(a)
  <2>1. req' = [req EXCEPT ![r].pc = "judge", ![r].out = Blocked(a)] /\ acc' = acc
    BY <1>3 DEF Renew, TooSoon
  <2>2. IsOut(Blocked(a))
    BY <1>0, <1>1, <1>3, BlockedOut
  <2>3. /\ Only(r) /\ DOMAIN req'[r] = DOMAIN req[r] /\ req'[r].pc = "judge"
        /\ req'[r].a = req[r].a /\ req'[r].queued = req[r].queued
        /\ req'[r].auth = req[r].auth /\ req'[r].session = req[r].session
        /\ req'[r].out = Blocked(a) /\ req'[r].until = req[r].until
    BY <1>0, <2>1 DEF Only, IsCall
  <2>4. IsCall(req'[r])
    BY <1>0, <2>2, <2>3 DEF IsCall
  <2> QED
    BY <1>1, <1>2, <2>1, <2>3, <2>4, JudgedNext DEF LeasePC, GatePC
<1>4. CASE ~accountUnavailable(a) /\ RenewSkipped(a, req[r].auth)
  <2>1. req' = [req EXCEPT ![r].pc = "session", ![r].renewed = TRUE] /\ acc' = acc
    BY <1>4 DEF Renew
  <2>2. /\ Only(r) /\ DOMAIN req'[r] = DOMAIN req[r] /\ req'[r].pc = "session"
        /\ req'[r].a = req[r].a /\ req'[r].queued = req[r].queued
        /\ req'[r].auth = req[r].auth /\ req'[r].session = req[r].session
        /\ req'[r].out = req[r].out /\ req'[r].until = req[r].until
    BY <1>0, <2>1 DEF Only, IsCall
  <2>3. IsCall(req'[r])
    BY <1>0, <2>2 DEF IsCall
  <2> QED
    BY <1>1, <1>2, <2>1, <2>2, <2>3, JudgedNext DEF LeasePC, GatePC
<1>5. CASE ~accountUnavailable(a) /\ ~RenewSkipped(a, req[r].auth) /\ TooSoon(a)
  <2>1. req' = [req EXCEPT ![r].pc = "judge", ![r].out = LastFailure(a)] /\ acc' = acc
    BY <1>5 DEF Renew, TooSoon
  <2>2. IsOut(LastFailure(a))
    BY <1>0, <1>1, <1>5, LastFailureOut
  <2>3. /\ Only(r) /\ DOMAIN req'[r] = DOMAIN req[r] /\ req'[r].pc = "judge"
        /\ req'[r].a = req[r].a /\ req'[r].queued = req[r].queued
        /\ req'[r].auth = req[r].auth /\ req'[r].session = req[r].session
        /\ req'[r].out = LastFailure(a) /\ req'[r].until = req[r].until
    BY <1>0, <2>1 DEF Only, IsCall
  <2>4. IsCall(req'[r])
    BY <1>0, <2>2, <2>3 DEF IsCall
  <2> QED
    BY <1>1, <1>2, <2>1, <2>3, <2>4, JudgedNext DEF LeasePC, GatePC
<1>6. CASE ~accountUnavailable(a) /\ ~RenewSkipped(a, req[r].auth) /\ ~TooSoon(a)
  <2>1. req' = [req EXCEPT ![r].pc = "login"] /\ acc' = [acc EXCEPT ![a].gate = TRUE]
    BY <1>6 DEF Renew, Goto
  <2>2. /\ Only(r) /\ DOMAIN req'[r] = DOMAIN req[r] /\ req'[r].pc = "login"
        /\ req'[r].a = req[r].a /\ req'[r].queued = req[r].queued
        /\ req'[r].auth = req[r].auth /\ req'[r].session = req[r].session
        /\ req'[r].out = req[r].out /\ req'[r].until = req[r].until
    BY <1>0, <2>1 DEF Only, IsCall
  <2>3. /\ DOMAIN acc' = Accounts /\ \A b \in Accounts : b # a => acc'[b] = acc[b]
        /\ DOMAIN acc'[a] = DOMAIN acc[a] /\ acc'[a].auth = acc[a].auth
        /\ acc'[a].disabled = acc[a].disabled /\ acc'[a].reason = acc[a].reason
        /\ acc'[a].cooldown = acc[a].cooldown /\ acc'[a].gate = TRUE
        /\ acc'[a].updating = acc[a].updating /\ acc'[a].busy = acc[a].busy
        /\ acc'[a].mediaBusy = acc[a].mediaBusy
        /\ acc'[a].refreshAfter = acc[a].refreshAfter
        /\ acc'[a].refreshErr = acc[a].refreshErr
    <3> HIDE DEF a
    <3> QED
      BY <1>0, <1>1, <2>1 DEF Shaped, IsAccount
  <2>4. SameAuth /\ SameHealth /\ SameFlag /\ SameLoad /\ SameDownloads
    BY <2>3 DEF SameAuth, SameHealth, SameFlag, SameLoad, SameDownloads
  <2>5. IsCall(req'[r])
    BY <1>0, <2>2 DEF IsCall
  <2>6. ASSUME NEW b \in Accounts PROVE IsAccount(acc'[b])
    <3>1. IsAccount(acc[b])
      BY <1>0 DEF Shaped
    <3>2. CASE b = a
      BY <3>1, <3>2, <2>3 DEF IsAccount
    <3> QED
      BY <3>1, <3>2, <2>3
  <2>7. Shaped'
    BY <1>0, <1>2, <2>2, <2>3, <2>5, <2>6, ShapedAccounts DEF Shaped
  <2>8. CallOK(r)'
    BY <1>0, <1>1, <1>2, <1>6, <2>2, <2>3
       DEF CallOK, LeasePC, Stored, accountUnavailable, RenewSkipped
  <2>9. Gated'
    BY <1>0, <1>1, <1>2, <2>2, <2>3, GateTaken
  <2>10. Writing'
    BY <1>0, <1>1, <1>2, <2>2, WritingFrame DEF Only, WritePC, UpdateWrites
  <2>11. Bears(req'[r].auth, a) /\ Bears(req'[r].session, a)
    BY <2>2 DEF Bears
  <2> QED
    BY <1>1, <1>2, <2>2, <2>4, <2>7, <2>8, <2>9, <2>10, <2>11, LeaseStep, SameTable
       DEF LeasePC
<1> QED
  BY <1>3, <1>4, <1>5, <1>6

\* A renewal that fails releases the gate.
LEMMA RenewFailsFx ==
    ASSUME Shaped, NEW r \in Details, req[r].a \in Accounts, NEW out, IsOut(out),
           NEW remember, RenewFails(r, out, remember)
    PROVE  /\ Only(r) /\ DOMAIN req'[r] = DOMAIN req[r] /\ req'[r].pc = "judge"
           /\ req'[r].a = req[r].a /\ req'[r].queued = req[r].queued
           /\ req'[r].auth = req[r].auth /\ req'[r].session = req[r].session
           /\ req'[r].out = out /\ req'[r].until = req[r].until
           /\ IsCall(req'[r])
           /\ DOMAIN acc' = Accounts
           /\ \A b \in Accounts : b # req[r].a => acc'[b] = acc[b]
           /\ DOMAIN acc'[req[r].a] = DOMAIN acc[req[r].a]
           /\ acc'[req[r].a].auth = acc[req[r].a].auth
           /\ acc'[req[r].a].disabled = acc[req[r].a].disabled
           /\ acc'[req[r].a].reason = acc[req[r].a].reason
           /\ acc'[req[r].a].cooldown = acc[req[r].a].cooldown
           /\ acc'[req[r].a].gate = FALSE
           /\ acc'[req[r].a].updating = acc[req[r].a].updating
           /\ acc'[req[r].a].busy = acc[req[r].a].busy
           /\ acc'[req[r].a].mediaBusy = acc[req[r].a].mediaBusy
           /\ \A b \in Accounts : IsAccount(acc'[b])
<1> DEFINE a  == req[r].a
           c  == req[r].cancelled \/ ~remember
           ra == IF remember THEN clock + Later(1, out.cool) ELSE acc[a].refreshAfter
           re == IF remember THEN out ELSE acc[a].refreshErr
<1>0. /\ IsCall(req[r]) /\ DOMAIN req = Details /\ a \in Accounts
      /\ IsAccount(acc[a]) /\ DOMAIN acc = Accounts
  BY DEF Shaped
<1>1. req' = [req EXCEPT ![r].pc = "judge", ![r].out = out, ![r].cancelled = c]
  BY <1>0 DEF RenewFails, IsCall
<1>2. acc' = [acc EXCEPT ![a].gate = FALSE, ![a].refreshAfter = ra, ![a].refreshErr = re]
  BY <1>0 DEF RenewFails, IsAccount
<1>3. ra \in Nat /\ IsOut(re)
  BY <1>0 DEF Shaped, IsAccount, IsOut, Later
<1> HIDE DEF c, ra, re
<1>4. /\ Only(r) /\ DOMAIN req'[r] = DOMAIN req[r] /\ req'[r].pc = "judge"
      /\ req'[r].a = req[r].a /\ req'[r].queued = req[r].queued
      /\ req'[r].auth = req[r].auth /\ req'[r].session = req[r].session
      /\ req'[r].out = out /\ req'[r].until = req[r].until
  BY <1>0, <1>1 DEF Only, IsCall
<1>5. IsCall(req'[r])
  BY <1>0, <1>4 DEF IsCall
<1>6. /\ DOMAIN acc' = Accounts /\ \A b \in Accounts : b # a => acc'[b] = acc[b]
      /\ DOMAIN acc'[a] = DOMAIN acc[a] /\ acc'[a].auth = acc[a].auth
      /\ acc'[a].disabled = acc[a].disabled /\ acc'[a].reason = acc[a].reason
      /\ acc'[a].cooldown = acc[a].cooldown /\ acc'[a].gate = FALSE
      /\ acc'[a].updating = acc[a].updating /\ acc'[a].busy = acc[a].busy
      /\ acc'[a].mediaBusy = acc[a].mediaBusy /\ acc'[a].refreshAfter = ra
      /\ acc'[a].refreshErr = re
  <2> HIDE DEF a
  <2> QED
    BY <1>0, <1>2 DEF IsAccount
<1>7. ASSUME NEW b \in Accounts PROVE IsAccount(acc'[b])
  <2>1. CASE b = a
    BY <2>1, <1>0, <1>3, <1>6 DEF IsAccount
  <2>2. CASE b # a
    BY <2>2, <1>6 DEF Shaped
  <2> QED
    BY <2>1, <2>2
<1> QED
  BY <1>4, <1>5, <1>6, <1>7

\* A renewal that fails leaves sessions, health and table alone.
LEMMA RenewFailed ==
    ASSUME IInv, NEW r \in Details, req[r].pc \in {"login", "save"}, NEW out, IsOut(out),
           NEW remember, RenewFails(r, out, remember),
           table' = table, row' = row, pend' = pend, dirty' = dirty,
           accounts' = accounts, med' = med, upd' = upd, clock' = clock,
           minted' = minted, rejected' = rejected, writes' = writes,
           updating' = updating, queued' = queued
    PROVE  IInv'
<1> DEFINE a == req[r].a
<1>0. /\ Shaped /\ Calling /\ Gated /\ Updated /\ Writing /\ CallOK(r)
      /\ a \in Accounts /\ a \in Stored /\ ~req[r].queued /\ req[r].auth \in rejected
  BY DEF IInv, Counted, Calling, CallOK, LeasePC, Shaped
<1>1. /\ Only(r) /\ DOMAIN req'[r] = DOMAIN req[r] /\ req'[r].pc = "judge"
      /\ req'[r].a = req[r].a /\ req'[r].queued = req[r].queued
      /\ req'[r].auth = req[r].auth /\ req'[r].session = req[r].session
      /\ req'[r].out = out /\ req'[r].until = req[r].until
      /\ IsCall(req'[r])
      /\ DOMAIN acc' = Accounts /\ \A b \in Accounts : b # a => acc'[b] = acc[b]
      /\ DOMAIN acc'[a] = DOMAIN acc[a] /\ acc'[a].auth = acc[a].auth
      /\ acc'[a].disabled = acc[a].disabled /\ acc'[a].reason = acc[a].reason
      /\ acc'[a].cooldown = acc[a].cooldown /\ acc'[a].gate = FALSE
      /\ acc'[a].updating = acc[a].updating /\ acc'[a].busy = acc[a].busy
      /\ acc'[a].mediaBusy = acc[a].mediaBusy
      /\ \A b \in Accounts : IsAccount(acc'[b])
  BY <1>0, RenewFailsFx
<1>2. SameAuth /\ SameHealth /\ SameFlag /\ SameLoad /\ SameDownloads
  BY <1>1 DEF SameAuth, SameHealth, SameFlag, SameLoad, SameDownloads
<1>3. Shaped'
  BY <1>0, <1>1, ShapedAccounts DEF Shaped
<1>4. CallOK(r)'
  BY <1>0, <1>1 DEF CallOK, LeasePC, Stored
<1>5. Gated'
  BY <1>0, <1>1, GateLeft DEF GatePC
<1>6. Writing'
  BY <1>0, <1>1, WritingFrame DEF Only, WritePC, UpdateWrites
<1>7. Bears(req'[r].auth, a) /\ Bears(req'[r].session, a)
  BY <1>1 DEF Bears
<1> QED
  BY <1>0, <1>1, <1>2, <1>3, <1>4, <1>5, <1>6, <1>7, LeaseStep, SameTable DEF LeasePC

\* The login ends: its session is newer than every other, and the account's.
LEMMA LoginKeeps ==
    ASSUME IInv, NEW r \in Details, Login(r)
    PROVE  IInv'
<1> DEFINE a == req[r].a
<1>0. /\ Shaped /\ Calling /\ Gated /\ Updated /\ Owned /\ Saved /\ Healthy
      /\ Leasing /\ Downloading /\ Queueing /\ Writing /\ Updating
      /\ CallOK(r) /\ IsCall(req[r]) /\ DOMAIN req = Details
  BY DEF IInv, Counted, Calling, Shaped
<1>1. /\ req[r].pc = "login" /\ a \in Accounts /\ a \in Stored /\ ~req[r].queued
      /\ minted \in Nat /\ acc[a].auth \in Nat
  BY <1>0 DEF Login, CallOK, LeasePC, Shaped, IsAccount
<1>2. /\ storeVars' = storeVars /\ accounts' = accounts /\ med' = med /\ upd' = upd
      /\ clock' = clock /\ rejected' = rejected /\ writes' = writes
      /\ updating' = updating /\ queued' = queued /\ table' = table /\ row' = row
      /\ pend' = pend /\ dirty' = dirty
  BY DEF Login, otherPool, storeVars, env
<1>3. CASE /\ minted' = minted + 1 /\ acc' = acc
           /\ req' = [req EXCEPT ![r].pc = "save", ![r].session = minted + 1]
  <2> DEFINE n == minted + 1
  <2>1. /\ Only(r) /\ DOMAIN req'[r] = DOMAIN req[r] /\ req'[r].pc = "save"
        /\ req'[r].a = req[r].a /\ req'[r].queued = req[r].queued
        /\ req'[r].auth = req[r].auth /\ req'[r].session = n
        /\ req'[r].out = req[r].out /\ req'[r].until = req[r].until
    <3>1. req' = [req EXCEPT ![r].pc = "save", ![r].session = n]
      BY <1>3
    <3> HIDE DEF n
    <3> QED
      BY <1>0, <3>1 DEF Only, IsCall
  <2>2. Shaped'
    <3>1. IsCall(req'[r])
      BY <1>0, <1>1, <2>1 DEF IsCall
    <3>2. DOMAIN acc' = Accounts /\ (\A b \in Accounts : IsAccount(acc'[b])) /\ minted' \in Nat
      BY <1>0, <1>1, <1>3 DEF Shaped
    <3> QED
      BY <1>0, <1>2, <2>1, <3>1, <3>2, ShapedAccounts
  <2>3. acc[a].auth < n
    <3>1. Bears(acc[a].auth, a)
      BY DEF Bears
    <3>2. CASE acc[a].auth = NoSession
      BY <3>2, <1>1 DEF NoSession
    <3>3. CASE acc[a].auth # NoSession
      <4>1. acc[a].auth <= minted
        BY <3>1, <3>3, <1>0, <1>1, OwnersDiffer
      <4> QED
        BY <4>1, <1>1
    <3> QED
      BY <3>2, <3>3
  <2>4. CallOK(r)'
    BY <1>0, <1>1, <1>2, <1>3, <2>1, <2>3 DEF CallOK, LeasePC, Stored
  <2>5. Calling'
    BY <1>0, <1>2, <1>3, <2>1, <2>4, CallingFrame, SameAccounts, SameTable
  <2>6. Gated'
    BY <1>0, <1>1, <1>2, <1>3, <2>1, GatedFrame, SameAccounts DEF Only, GatePC
  <2>7. Updated'
    BY <1>0, <1>2, <1>3, <2>1, UpdatedFrame DEF Only
  <2>8. Owned'
    <3>1. \A b \in Accounts : Moves(acc'[b].auth, b, a) /\ Moves(row'[b].auth, b, a)
      BY <1>2, <1>3 DEF Moves, Bears
    <3>2. \A s \in Details : req'[s].a \in Accounts =>
              Moves(req'[s].auth, req'[s].a, a) /\ Moves(req'[s].session, req'[s].a, a)
      <4>1. \A s \in Details : s # r => Moves(req'[s].auth, req'[s].a, a)
                                        /\ Moves(req'[s].session, req'[s].a, a)
        BY <2>1 DEF Only, Moves, Bears
      <4>2. Moves(req'[r].auth, req'[r].a, a) /\ Moves(req'[r].session, req'[r].a, a)
        BY <2>1, <1>3 DEF Moves, Bears
      <4> QED
        BY <4>1, <4>2
    <3>3. upd'.a \in Accounts => Moves(upd'.session, upd'.a, a)
      BY <1>2 DEF Moves, Bears
    <3>4. minted' \in Nat /\ minted <= minted' /\ a \in Accounts \cup {None}
      BY <1>1, <1>3
    <3> HIDE DEF a
    <3> QED
      BY <1>0, <3>1, <3>2, <3>3, <3>4, OwnedFrame
  <2>9. Saved'
    BY <1>0, <1>2, <1>3, SavedFrame, SameAccounts, SameTable
  <2>10. Healthy'
    BY <1>0, <1>1, <1>2, <1>3, <2>1, HealthyFrame, SameAccounts, SameTable
  <2>11. Leasing' /\ Downloading' /\ Updating'
    BY <1>0, <1>2, <1>3, <2>1, LeasingFrame, DownloadingFrame, SameAccounts
       DEF Only, Updating
  <2>12. Queueing' /\ Writing'
    BY <1>0, <1>1, <1>2, <2>1, QueueingFrame, WritingFrame DEF Only, WritePC, UpdateWrites
  <2> QED
    BY <2>2, <2>5, <2>6, <2>7, <2>8, <2>9, <2>10, <2>11, <2>12, Together
<1>4. CASE /\ minted' = minted
           /\ \E out \in recoveryDisposition \cup {Failure} : RenewFails(r, out, TRUE)
  <2>1. PICK out \in recoveryDisposition \cup {Failure} : RenewFails(r, out, TRUE)
    BY <1>4
  <2>2. IsOut(out)
    BY AnswersAreOuts
  <2> QED
    BY <1>1, <1>2, <1>4, <2>1, <2>2, RenewFailed
<1>5. CASE minted' = minted /\ RenewFails(r, Failure, FALSE)
  BY <1>1, <1>2, <1>5, Outs, RenewFailed
<1> QED
  BY <1>3, <1>4, <1>5 DEF Login

\* The new session of the account is in the table: nobody else renews or updates
\* it, and it is alive.
LEMMA SessionCommitted ==
    ASSUME IInv, NEW r \in Details, req[r].pc = "save", Only(r), CallOK(r)',
           SameAuth, SameHealth, SameFlag, table' = table, pend' = pend,
           dirty' = dirty, rejected' = rejected, minted' = minted, upd' = upd,
           req'[r].a = req[r].a, req'[r].auth = req[r].auth,
           req'[r].session = req[r].session,
           row'[req[r].a].auth = req[r].session, row'[req[r].a].ctx = req[r].session,
           row'[req[r].a].dead = row[req[r].a].dead,
           row'[req[r].a].reason = row[req[r].a].reason,
           row'[req[r].a].until = row[req[r].a].until,
           \A b \in Accounts : b # req[r].a => row'[b] = row[b]
    PROVE  Calling' /\ Updated' /\ Owned' /\ Saved' /\ Healthy'
<1> DEFINE a == req[r].a
<1>0. /\ Shaped /\ Calling /\ Gated /\ Updated /\ Owned /\ Saved /\ Healthy /\ CallOK(r)
      /\ a \in Accounts /\ a \in Stored
  BY DEF IInv, Calling, CallOK, LeasePC, Shaped
<1>1. /\ \A s \in Details : (s # r /\ req[s].pc \in GatePC) => req[s].a # a
      /\ upd.gate => upd.a # a
  BY <1>0 DEF Gated, GatePC
<1>2. ~acc[a].disabled /\ acc[a].auth < req[r].session /\ acc[a].auth \in Nat
      /\ req[r].session \in Nat
  BY <1>0 DEF CallOK, Shaped, IsAccount, IsCall
<1>3. Calling'
  <2>1. ASSUME NEW s \in Details, s # r PROVE CallOK(s)'
    <3>1. CallOK(s) /\ req'[s] = req[s]
      BY <1>0, <2>1 DEF Calling, Only
    <3>2. req[s].pc \in LeasePC => req[s].a \in Accounts
      BY <1>0, LeasedIsAccount
    <3>3. req[s].a \in Stored => req[s].a \in Accounts
      BY <1>0 DEF Shaped
    <3>4. req[s].pc \in {"login", "save", "publish"} =>
             /\ acc'[req[s].a].auth = acc[req[s].a].auth
             /\ acc'[req[s].a].disabled => acc[req[s].a].disabled
             /\ row'[req[s].a].auth = row[req[s].a].auth
      BY <1>1, <2>1, <3>2 DEF SameAuth, SameHealth, LeasePC, GatePC
    <3> QED
      BY <3>1, <3>2, <3>3, <3>4, OtherCall DEF SameHealth, LeasePC
  <2> QED
    BY <2>1 DEF Calling
<1>4. Updated'
  <2>1. upd.pc # "idle" => upd.a \in Accounts
    BY <1>0 DEF Updated, Shaped
  <2>2. upd.pc = "publish" => upd.a # a
    BY <1>0, <1>1 DEF Updated
  <2>3. upd.pc = "publish" => /\ row'[upd.a].auth = row[upd.a].auth
                              /\ row'[upd.a].dead => row[upd.a].dead
    BY <2>1, <2>2
  <2>4. upd.a \in Accounts => /\ acc'[upd.a].auth = acc[upd.a].auth
                              /\ acc'[upd.a].updating = acc[upd.a].updating
    BY DEF SameAuth, SameFlag
  <2>5. \A s \in Details : req'[s].a = req[s].a
    BY DEF Only
  <2> QED
    BY <1>0, <2>3, <2>4, <2>5, UpdatedFrame
<1>5. Owned'
  <2>1. \A b \in Accounts : Moves(acc'[b].auth, b, None)
    BY DEF SameAuth, Moves, Bears
  <2>2. ASSUME NEW b \in Accounts PROVE Moves(row'[b].auth, b, None)
    <3>1. CASE b = a
      BY <3>1 DEF Moves, Bears
    <3>2. CASE b # a
      BY <3>2 DEF Moves, Bears
    <3> QED
      BY <3>1, <3>2
  <2>3. \A s \in Details : req'[s].a \in Accounts =>
            Moves(req'[s].auth, req'[s].a, None) /\ Moves(req'[s].session, req'[s].a, None)
    <3>1. \A s \in Details : req'[s].a = req[s].a /\ req'[s].auth = req[s].auth
                             /\ req'[s].session = req[s].session
      BY DEF Only
    <3> QED
      BY <3>1 DEF Moves, Bears
  <2>4. upd'.a \in Accounts => Moves(upd'.session, upd'.a, None)
    BY DEF Moves, Bears
  <2>5. minted' \in Nat /\ minted <= minted' /\ None \in Accounts \cup {None}
    BY <1>0 DEF Shaped
  <2> QED
    BY <1>0, <2>1, <2>2, <2>3, <2>4, <2>5, OwnedFrame
<1>6. Saved'
  <2>1. ASSUME NEW b \in Accounts
        PROVE  /\ row'[b].ctx = row'[b].auth
               /\ b \in Stored => row'[b].auth > 0 /\ acc'[b].auth <= row'[b].auth
    <3>1. CASE b = a
      <4>1. row'[b].ctx = req[r].session /\ row'[b].auth = req[r].session
            /\ acc'[b].auth = acc[a].auth
        BY <3>1, <1>0 DEF SameAuth
      <4> QED
        BY <4>1, <1>2
    <3>2. CASE b # a
      BY <3>2, <1>0 DEF Saved, SameAuth
    <3> QED
      BY <3>1, <3>2
  <2> QED
    BY <2>1 DEF Saved, Stored
<1>7. Healthy'
  <2>1. ASSUME NEW b \in Stored PROVE HealthOf(b)'
    <3>1. b \in Accounts /\ HealthOf(b)
      BY <1>0 DEF Shaped, Healthy
    <3>2. \A s \in Details : Marks(s, b) =>
               /\ req'[s].pc = "mark" /\ req'[s].a = b
               /\ req'[s].out.reason = req[s].out.reason /\ req'[s].until = req[s].until
      BY DEF Marks, Only
    <3>3. \A s \in Details : req'[s].a = req[s].a
      BY DEF Only
    <3>4. CASE b = a
      <4>1. ~acc'[b].disabled /\ acc'[b].cooldown = acc[b].cooldown
            /\ row'[b].dead = row[b].dead /\ row'[b].until = row[b].until
        BY <3>1, <3>4, <1>2 DEF SameHealth
      <4>2. ~row'[b].dead /\ pend'[b].reason = "none"
        BY <4>1, <3>1, <3>4, <1>2 DEF HealthOf
      <4>3. ~Dead(b)'
        BY <4>1 DEF Dead
      <4>4. (\/ acc[b].cooldown <= row[b].until
             \/ acc[b].cooldown <= pend[b].until
             \/ \E s \in Details : Marks(s, b) /\ acc[b].cooldown <= req[s].until
             \/ upd.pc = "mark" /\ upd.a = b /\ acc[b].cooldown <= upd.until)'
        BY <4>1, <3>1, <3>2 DEF HealthOf, Marks
      <4> QED
        BY <4>1, <4>2, <4>3, <4>4 DEF HealthOf
    <3>5. CASE b # a
      BY <3>1, <3>2, <3>3, <3>5, HealthFrame DEF SameAuth, SameHealth
    <3> QED
      BY <3>4, <3>5
  <2> QED
    BY <1>0, <2>1 DEF Healthy, Stored
<1> QED
  BY <1>3, <1>4, <1>5, <1>6, <1>7

\* What SaveSession does to the rows.
LEMMA SaveSessionFx ==
    ASSUME Shaped, NEW a \in Accounts, NEW session \in Nat, NEW o, Commits(o),
           SaveSession(a, session, o)
    PROVE  /\ DOMAIN row' = Accounts /\ \A b \in Accounts : IsRow(row'[b])
           /\ \A b \in Accounts : b # a => row'[b] = row[b]
           /\ row'[a].auth = session /\ row'[a].ctx = session
           /\ row'[a].dead = row[a].dead /\ row'[a].reason = row[a].reason
           /\ row'[a].until = row[a].until
<1>0. DOMAIN row = Accounts /\ IsRow(row[a])
  BY DEF Shaped
<1>1. row' = [row EXCEPT ![a].auth = session, ![a].ctx = session]
  BY DEF SaveSession
<1>2. /\ DOMAIN row' = Accounts /\ DOMAIN row'[a] = DOMAIN row[a]
      /\ \A b \in Accounts : b # a => row'[b] = row[b]
      /\ row'[a].auth = session /\ row'[a].ctx = session
      /\ row'[a].dead = row[a].dead /\ row'[a].reason = row[a].reason
      /\ row'[a].until = row[a].until
  BY <1>0, <1>1 DEF IsRow
<1>3. IsRow(row'[a])
  BY <1>0, <1>2 DEF IsRow
<1> QED
  BY <1>2, <1>3 DEF Shaped

\* The commit of a renewal, whether or not it is confirmed.
LEMMA SaveRenewalKeeps ==
    ASSUME IInv, NEW r \in Details, SaveRenewal(r)
    PROVE  IInv'
<1> DEFINE a == req[r].a
<1>0. /\ Shaped /\ Calling /\ Gated /\ Updated
      /\ Leasing /\ Downloading /\ Queueing /\ Writing /\ Updating
      /\ CallOK(r) /\ IsCall(req[r]) /\ DOMAIN req = Details
  BY DEF IInv, Counted, Calling, Shaped
<1>1. /\ req[r].pc = "save" /\ a \in Accounts /\ a \in Stored /\ ~req[r].queued
      /\ req[r].session \in Nat
  BY <1>0 DEF SaveRenewal, CallOK, LeasePC, Shaped, IsCall
<1>2. PICK o \in Outcomes :
          /\ SaveSession(a, req[r].session, o)
          /\ IF Confirmed(o) THEN Goto(r, "publish") /\ UNCHANGED acc
             ELSE RenewFails(r, Throttled(1), TRUE)
  BY DEF SaveRenewal
<1>3. /\ accounts' = accounts /\ med' = med /\ upd' = upd /\ clock' = clock
      /\ minted' = minted /\ rejected' = rejected /\ writes' = writes
      /\ updating' = updating /\ queued' = queued /\ table' = table /\ pend' = pend
      /\ dirty' = dirty
  BY <1>2 DEF SaveRenewal, SaveSession, otherPool, ghosts, env
<1>4. CASE ~Commits(o)
  <2>1. row' = row /\ ~Confirmed(o)
    BY <1>2, <1>4 DEF SaveSession, Commits, Confirmed
  <2>2. IsOut(Throttled(1))
    BY Outs
  <2> QED
    BY <1>1, <1>2, <1>3, <2>1, <2>2, RenewFailed
<1>5. CASE Commits(o)
  <2>1. /\ DOMAIN row' = Accounts /\ \A b \in Accounts : IsRow(row'[b])
        /\ \A b \in Accounts : b # a => row'[b] = row[b]
        /\ row'[a].auth = req[r].session /\ row'[a].ctx = req[r].session
        /\ row'[a].dead = row[a].dead /\ row'[a].reason = row[a].reason
        /\ row'[a].until = row[a].until
    <3> DEFINE n == req[r].session
    <3>1. SaveSession(a, n, o) /\ n \in Nat
      BY <1>1, <1>2
    <3> HIDE DEF n, a
    <3>2. /\ DOMAIN row' = Accounts /\ \A b \in Accounts : IsRow(row'[b])
          /\ \A b \in Accounts : b # a => row'[b] = row[b]
          /\ row'[a].auth = n /\ row'[a].ctx = n
          /\ row'[a].dead = row[a].dead /\ row'[a].reason = row[a].reason
          /\ row'[a].until = row[a].until
      BY <1>0, <1>1, <1>5, <3>1, SaveSessionFx
    <3> QED
      BY <3>2 DEF n
  <2>2. CASE Confirmed(o)
    <3>1. req' = [req EXCEPT ![r].pc = "publish"] /\ acc' = acc
      BY <1>2, <2>2 DEF Goto
    <3>2. /\ Only(r) /\ DOMAIN req'[r] = DOMAIN req[r] /\ req'[r].pc = "publish"
          /\ req'[r].a = req[r].a /\ req'[r].queued = req[r].queued
          /\ req'[r].auth = req[r].auth /\ req'[r].session = req[r].session
          /\ req'[r].out = req[r].out /\ req'[r].until = req[r].until
      BY <1>0, <3>1 DEF Only, IsCall
    <3>3. IsCall(req'[r])
      BY <1>0, <3>2 DEF IsCall
    <3>4. Shaped'
      BY <1>0, <1>3, <2>1, <3>1, <3>2, <3>3 DEF Shaped, Stored, Only
    <3>5. CallOK(r)'
      BY <1>0, <1>1, <1>3, <2>1, <3>1, <3>2 DEF CallOK, LeasePC, Stored
    <3>6. Calling' /\ Updated' /\ Owned' /\ Saved' /\ Healthy'
      BY <1>1, <1>3, <2>1, <3>1, <3>2, <3>5, SessionCommitted, SameAccounts
    <3>7. Gated'
      BY <1>0, <1>1, <1>3, <3>1, <3>2, GatedFrame, SameAccounts DEF Only, GatePC
    <3>8. Leasing' /\ Downloading' /\ Updating'
      BY <1>0, <1>3, <3>1, <3>2, LeasingFrame, DownloadingFrame, SameAccounts
         DEF Only, Updating
    <3>9. Queueing' /\ Writing'
      BY <1>0, <1>1, <1>3, <3>2, QueueingFrame, WritingFrame
         DEF Only, WritePC, UpdateWrites
    <3> QED
      BY <3>4, <3>6, <3>7, <3>8, <3>9, Together
  <2>3. CASE ~Confirmed(o)
    <3>1. RenewFails(r, Throttled(1), TRUE) /\ IsOut(Throttled(1)) /\ ~Throttled(1).disable
      BY <1>2, <2>3, Outs
    <3>2. /\ Only(r) /\ DOMAIN req'[r] = DOMAIN req[r] /\ req'[r].pc = "judge"
          /\ req'[r].a = req[r].a /\ req'[r].queued = req[r].queued
          /\ req'[r].auth = req[r].auth /\ req'[r].session = req[r].session
          /\ req'[r].out = Throttled(1) /\ req'[r].until = req[r].until
          /\ IsCall(req'[r])
          /\ DOMAIN acc' = Accounts /\ \A b \in Accounts : b # a => acc'[b] = acc[b]
          /\ DOMAIN acc'[a] = DOMAIN acc[a] /\ acc'[a].auth = acc[a].auth
          /\ acc'[a].disabled = acc[a].disabled /\ acc'[a].reason = acc[a].reason
          /\ acc'[a].cooldown = acc[a].cooldown /\ acc'[a].gate = FALSE
          /\ acc'[a].updating = acc[a].updating /\ acc'[a].busy = acc[a].busy
          /\ acc'[a].mediaBusy = acc[a].mediaBusy
          /\ \A b \in Accounts : IsAccount(acc'[b])
      BY <1>0, <1>1, <3>1, RenewFailsFx
    <3>3. SameAuth /\ SameHealth /\ SameFlag /\ SameLoad /\ SameDownloads
      BY <3>2 DEF SameAuth, SameHealth, SameFlag, SameLoad, SameDownloads
    <3>4. Shaped'
      BY <1>0, <1>3, <2>1, <3>2 DEF Shaped, Stored, Only
    <3>5. CallOK(r)'
      BY <1>0, <1>1, <1>3, <3>1, <3>2 DEF CallOK, LeasePC, Stored
    <3>6. Calling' /\ Updated' /\ Owned' /\ Saved' /\ Healthy'
      BY <1>1, <1>3, <2>1, <3>2, <3>3, <3>5, SessionCommitted
    <3>7. Gated'
      BY <1>0, <1>1, <1>3, <3>2, GateLeft DEF GatePC
    <3>8. Leasing' /\ Downloading' /\ Updating'
      BY <1>0, <1>3, <3>2, <3>3, LeasingFrame, DownloadingFrame DEF Only, Updating
    <3>9. Queueing' /\ Writing'
      BY <1>0, <1>1, <1>3, <3>2, QueueingFrame, WritingFrame
         DEF Only, WritePC, UpdateWrites
    <3> QED
      BY <3>4, <3>6, <3>7, <3>8, <3>9, Together
  <2> QED
    BY <2>2, <2>3
<1> QED
  BY <1>4, <1>5

\* The saved session becomes the pool's.
LEMMA PublishKeeps ==
    ASSUME IInv, NEW r \in Details, Publish(r)
    PROVE  IInv'
<1> DEFINE a == req[r].a
<1>0. /\ Shaped /\ Calling /\ Gated /\ Updated /\ Owned /\ Saved /\ Healthy
      /\ Leasing /\ Downloading /\ Queueing /\ Writing /\ Updating
      /\ CallOK(r) /\ IsCall(req[r]) /\ DOMAIN req = Details
  BY DEF IInv, Counted, Calling, Shaped
<1>1. /\ req[r].pc = "publish" /\ a \in Accounts /\ a \in Stored /\ ~req[r].queued
      /\ req[r].session \in Nat /\ row[a].auth = req[r].session /\ ~acc[a].disabled
  BY <1>0 DEF Publish, CallOK, LeasePC, Shaped, IsCall
<1>2. /\ storeVars' = storeVars /\ accounts' = accounts /\ med' = med /\ upd' = upd
      /\ clock' = clock /\ minted' = minted /\ rejected' = rejected
      /\ writes' = writes /\ updating' = updating /\ queued' = queued
      /\ table' = table /\ row' = row /\ pend' = pend /\ dirty' = dirty
  BY DEF Publish, otherPool, storeVars, ghosts, env
<1>3. PICK gone \in BOOLEAN :
         /\ req' = [req EXCEPT ![r].pc = "session", ![r].renewed = TRUE,
                       ![r].session = NoSession, ![r].cancelled = gone]
         /\ acc' = [acc EXCEPT ![a].auth = req[r].session, ![a].gate = FALSE,
                       ![a].refreshAfter = IF gone THEN @ ELSE clock + 1,
                       ![a].refreshErr = IF gone THEN @ ELSE LoginExpired(0)]
  BY DEF Publish
<1> DEFINE n  == req[r].session
           ra == IF gone THEN acc[a].refreshAfter ELSE clock + 1
           re == IF gone THEN acc[a].refreshErr ELSE LoginExpired(0)
<1>4. /\ Only(r) /\ DOMAIN req'[r] = DOMAIN req[r] /\ req'[r].pc = "session"
      /\ req'[r].a = req[r].a /\ req'[r].queued = req[r].queued
      /\ req'[r].auth = req[r].auth /\ req'[r].session = NoSession
      /\ req'[r].out = req[r].out /\ req'[r].until = req[r].until
  BY <1>0, <1>3 DEF Only, IsCall
<1>5. /\ DOMAIN acc' = Accounts /\ \A b \in Accounts : b # a => acc'[b] = acc[b]
      /\ DOMAIN acc'[a] = DOMAIN acc[a] /\ acc'[a].auth = n
      /\ acc'[a].disabled = acc[a].disabled /\ acc'[a].reason = acc[a].reason
      /\ acc'[a].cooldown = acc[a].cooldown /\ acc'[a].gate = FALSE
      /\ acc'[a].updating = acc[a].updating /\ acc'[a].busy = acc[a].busy
      /\ acc'[a].mediaBusy = acc[a].mediaBusy /\ acc'[a].refreshAfter = ra
      /\ acc'[a].refreshErr = re
  <2>1. acc' = [acc EXCEPT ![a].auth = n, ![a].gate = FALSE,
                           ![a].refreshAfter = ra, ![a].refreshErr = re]
    BY <1>0, <1>1, <1>3 DEF Shaped, IsAccount
  <2> HIDE DEF a, n, ra, re
  <2> QED
    BY <1>0, <1>1, <2>1 DEF Shaped, IsAccount
<1>6. ra \in Nat /\ IsOut(re) /\ n \in Nat
  BY <1>0, <1>1, Outs DEF Shaped, IsAccount
<1> HIDE DEF ra, re
<1>7. Shaped'
  <2>1. IsCall(req'[r])
    BY <1>0, <1>4 DEF IsCall, NoSession
  <2>2. ASSUME NEW b \in Accounts PROVE IsAccount(acc'[b])
    <3>1. IsAccount(acc[b])
      BY <1>0 DEF Shaped
    <3>2. CASE b = a
      BY <3>1, <3>2, <1>5, <1>6 DEF IsAccount
    <3> QED
      BY <3>1, <3>2, <1>5
  <2> QED
    BY <1>0, <1>2, <1>4, <1>5, <2>1, <2>2, ShapedAccounts DEF Shaped
<1>8. SameHealth /\ SameFlag /\ SameLoad /\ SameDownloads
  BY <1>5 DEF SameHealth, SameFlag, SameLoad, SameDownloads
<1>9. /\ \A s \in Details : (s # r /\ req[s].pc \in GatePC) => req[s].a # a
      /\ upd.gate => upd.a # a
  BY <1>0, <1>1 DEF Gated, GatePC
<1>10. Calling'
  <2>1. ASSUME NEW s \in Details, s # r PROVE CallOK(s)'
    <3>1. CallOK(s) /\ req'[s] = req[s]
      BY <1>0, <1>4, <2>1 DEF Calling, Only
    <3>2. req[s].pc \in LeasePC => req[s].a \in Accounts
      BY <1>0, LeasedIsAccount
    <3>3. req[s].a \in Stored => req[s].a \in Accounts
      BY <1>0 DEF Shaped
    <3>4. req[s].pc \in {"login", "save", "publish"} =>
             /\ acc'[req[s].a].auth = acc[req[s].a].auth
             /\ acc'[req[s].a].disabled => acc[req[s].a].disabled
             /\ row'[req[s].a].auth = row[req[s].a].auth
      BY <1>2, <1>5, <1>9, <2>1, <3>2 DEF LeasePC, GatePC
    <3> QED
      BY <1>2, <1>8, <3>1, <3>2, <3>3, <3>4, OtherCall DEF SameHealth, LeasePC
  <2>2. CallOK(r)'
    BY <1>1, <1>2, <1>4, <1>0 DEF CallOK, LeasePC, Stored
  <2> QED
    BY <2>1, <2>2 DEF Calling
<1>11. Updated'
  <2>1. upd.a \in Accounts => (upd.gate => acc'[upd.a].auth = acc[upd.a].auth)
    BY <1>5, <1>9
  <2>2. \A s \in Details : req'[s].a = req[s].a
    BY <1>4 DEF Only
  <2> QED
    BY <1>0, <1>2, <1>8, <2>1, <2>2, UpdatedFrame DEF SameFlag
<1>12. Owned'
  <2>1. ASSUME NEW b \in Accounts PROVE Moves(acc'[b].auth, b, None) /\ Moves(row'[b].auth, b, None)
    <3>1. CASE b = a
      BY <3>1, <1>2, <1>5 DEF Moves, Bears
    <3>2. CASE b # a
      BY <3>2, <1>2, <1>5 DEF Moves, Bears
    <3> QED
      BY <3>1, <3>2
  <2>2. ASSUME NEW s \in Details
        PROVE  Moves(req'[s].auth, req'[s].a, None) /\ Moves(req'[s].session, req'[s].a, None)
    <3>1. CASE s = r
      BY <3>1, <1>4 DEF Moves, Bears
    <3>2. CASE s # r
      BY <3>2, <1>4 DEF Only, Moves, Bears
    <3> QED
      BY <3>1, <3>2
  <2>3. upd'.a \in Accounts => Moves(upd'.session, upd'.a, None)
    BY <1>2 DEF Moves, Bears
  <2>4. minted' \in Nat /\ minted <= minted' /\ None \in Accounts \cup {None}
    BY <1>0, <1>2 DEF Shaped
  <2> QED
    BY <1>0, <2>1, <2>2, <2>3, <2>4, OwnedFrame
<1>13. Saved'
  <2>1. ASSUME NEW b \in Accounts
        PROVE  /\ row'[b].ctx = row'[b].auth
               /\ b \in Stored => row'[b].auth > 0 /\ acc'[b].auth <= row'[b].auth
    <3>1. CASE b = a
      <4>1. row'[b] = row[a] /\ acc'[b].auth = row[a].auth /\ row[a].auth \in Nat
        BY <3>1, <1>1, <1>2, <1>5
      <4> QED
        BY <4>1, <1>0, <1>1 DEF Saved
    <3>2. CASE b # a
      BY <3>2, <1>0, <1>2, <1>5 DEF Saved
    <3> QED
      BY <3>1, <3>2
  <2> QED
    BY <1>2, <2>1 DEF Saved, Stored
<1>14. Healthy'
  <2>1. ASSUME NEW b \in Stored PROVE HealthOf(b)'
    <3>1. b \in Accounts /\ HealthOf(b)
      BY <1>0 DEF Shaped, Healthy
    <3>2. \A s \in Details : Marks(s, b) =>
               /\ req'[s].pc = "mark" /\ req'[s].a = b
               /\ req'[s].out.reason = req[s].out.reason /\ req'[s].until = req[s].until
      BY <1>1, <1>4 DEF Marks, Only
    <3>3. \A s \in Details : req'[s].a = req[s].a
      BY <1>4 DEF Only
    <3>4. CASE b = a
      <4>1. ~acc'[b].disabled /\ acc'[b].cooldown = acc[b].cooldown
        BY <3>4, <1>1, <1>5
      <4>2. ~row'[b].dead /\ pend'[b].reason = "none"
        BY <1>1, <1>2, <3>1, <3>4 DEF HealthOf
      <4>3. ~Dead(b)'
        BY <4>1 DEF Dead
      <4>4. (\/ acc[b].cooldown <= row[b].until
             \/ acc[b].cooldown <= pend[b].until
             \/ \E s \in Details : Marks(s, b) /\ acc[b].cooldown <= req[s].until
             \/ upd.pc = "mark" /\ upd.a = b /\ acc[b].cooldown <= upd.until)'
        BY <1>2, <4>1, <3>1, <3>2 DEF HealthOf, Marks
      <4> QED
        BY <4>1, <4>2, <4>3, <4>4 DEF HealthOf
    <3>5. CASE b # a
      BY <1>2, <1>5, <3>1, <3>2, <3>3, <3>5, HealthFrame
    <3> QED
      BY <3>4, <3>5
  <2> QED
    BY <1>0, <1>2, <2>1 DEF Healthy, Stored
<1>15. Gated'
  BY <1>0, <1>1, <1>2, <1>4, <1>5, GateLeft DEF GatePC
<1>16. Leasing' /\ Downloading' /\ Updating'
  BY <1>0, <1>2, <1>4, <1>8, LeasingFrame, DownloadingFrame DEF Only, Updating
<1>17. Queueing' /\ Writing'
  BY <1>0, <1>1, <1>2, <1>4, QueueingFrame, WritingFrame DEF Only, WritePC, UpdateWrites
<1> QED
  BY <1>7, <1>10, <1>11, <1>12, <1>13, <1>14, <1>15, <1>16, <1>17, Together

\* What a judged call keeps.
LEMMA JudgedCall ==
    ASSUME NEW c, IsCall(c)
    PROVE  /\ IsCall(Judged(c)) /\ DOMAIN Judged(c) = DOMAIN c
           /\ Judged(c).pc = c.pc /\ Judged(c).a = c.a /\ Judged(c).auth = NoSession
           /\ Judged(c).session = c.session /\ Judged(c).queued = c.queued
           /\ ~Judged(c).out.disable /\ ~Judged(c).out.renew
           /\ Judged(c).out.reason = "none" /\ Judged(c).until = 0
<1> DEFINE e == c.out.err
           t == c.out.retry
           s == [Success EXCEPT !.err = e, !.retry = t]
<1>1. Judged(c) = [c EXCEPT !.auth = NoSession, !.renewed = FALSE, !.until = 0, !.out = s]
  BY DEF Judged
<1> HIDE DEF e, t
<1>2. IsOut(s) /\ ~s.disable /\ ~s.renew /\ s.reason = "none"
  BY DEF IsOut, Success
<1> HIDE DEF s
<1>3. /\ DOMAIN Judged(c) = DOMAIN c
      /\ Judged(c).pc = c.pc /\ Judged(c).a = c.a /\ Judged(c).auth = NoSession
      /\ Judged(c).session = c.session /\ Judged(c).queued = c.queued
      /\ Judged(c).out = s /\ Judged(c).until = 0
  BY <1>1 DEF IsCall
<1> QED
  BY <1>2, <1>3 DEF IsCall, NoSession

\* The outcome is applied to the account.
LEMMA JudgeKeeps ==
    ASSUME IInv, NEW r \in Details, Judge(r)
    PROVE  IInv'
<1> DEFINE a       == req[r].a
           out     == req[r].out
           disable == out.disable /\ StillCurrent(r)
           reason  == IF acc[a].reason = "none"
                         \/ (~out.retry /\ acc[a].reason = "session_expired")
                      THEN out.reason ELSE acc[a].reason
           until   == clock + out.cool
           longer  == out.cool > 0 /\ until > acc[a].cooldown
           c       == Judged(req[r])
<1>0. /\ Shaped /\ Calling /\ Gated /\ Updated /\ Owned /\ Saved /\ Healthy
      /\ Leasing /\ Downloading /\ Queueing /\ Writing /\ Updating
      /\ CallOK(r) /\ IsCall(req[r]) /\ DOMAIN req = Details
  BY DEF IInv, Counted, Calling, Shaped
<1>1. /\ req[r].pc = "judge" /\ a \in Accounts /\ a \in Stored /\ ~req[r].queued
      /\ IsAccount(acc[a]) /\ DOMAIN acc = Accounts /\ IsOut(out) /\ clock \in Nat
  BY <1>0 DEF Judge, CallOK, LeasePC, Shaped, IsCall
<1>2. /\ storeVars' = storeVars /\ accounts' = accounts /\ med' = med /\ upd' = upd
      /\ clock' = clock /\ minted' = minted /\ rejected' = rejected
      /\ updating' = updating /\ queued' = queued /\ table' = table /\ row' = row
      /\ pend' = pend /\ dirty' = dirty
  BY DEF Judge, storeVars, ghosts, env
<1>3. /\ IsCall(c) /\ DOMAIN c = DOMAIN req[r] /\ c.a = a /\ c.auth = NoSession
      /\ c.session = req[r].session /\ c.queued = req[r].queued /\ ~c.out.disable
      /\ ~c.out.renew
      /\ c.out.reason = "none" /\ c.until = 0
  BY <1>0, JudgedCall
<1>4. CASE ~out.disable /\ out.cool = 0
  <2>1. req' = [req EXCEPT ![r] = [c EXCEPT !.pc = "persist"]] /\ acc' = acc /\ writes' = writes
    BY <1>4 DEF Judge
  <2> HIDE DEF c
  <2>2. /\ Only(r) /\ req'[r].pc = "persist" /\ DOMAIN req'[r] = DOMAIN c
        /\ req'[r].a = c.a /\ req'[r].auth = c.auth /\ req'[r].session = c.session
        /\ req'[r].queued = c.queued /\ req'[r].out = c.out /\ req'[r].until = c.until
    BY <1>0, <1>3, <2>1 DEF Only, IsCall
  <2>3. IsCall(req'[r])
    BY <1>3, <2>2 DEF IsCall
  <2>4. CallOK(r)'
    BY <1>1, <1>2, <1>3, <2>2 DEF CallOK, LeasePC, Stored
  <2>5. Bears(req'[r].auth, a)
    BY <1>3, <2>2 DEF Bears
  <2> QED
    BY <1>1, <1>2, <1>3, <2>1, <2>2, <2>3, <2>4, <2>5, LookupStep DEF LeasePC, GatePC
<1>5. CASE ~(~out.disable /\ out.cool = 0)
  <2> DEFINE mark == disable \/ longer
             p    == IF disable \/ longer THEN "mark" ELSE "persist"
             why  == IF disable THEN reason ELSE "none"
             u    == IF longer THEN until ELSE 0
             d1   == acc[a].disabled \/ disable
             w1   == IF disable THEN reason ELSE acc[a].reason
             u1   == IF longer THEN until ELSE acc[a].cooldown
  <2>1. /\ ~acc[a].gate
        /\ acc' = [acc EXCEPT ![a].disabled = d1, ![a].reason = w1,
                              ![a].cooldown = u1, ![a].gate = mark]
        /\ req' = [req EXCEPT ![r] = [c EXCEPT !.pc = p, !.out.reason = why, !.until = u]]
        /\ writes' = IF mark THEN writes + 1 ELSE writes
    <3>1. /\ ~acc[a].gate
          /\ acc' = [acc EXCEPT
                  ![a].disabled = @ \/ disable,
                  ![a].reason = IF disable THEN reason ELSE @,
                  ![a].cooldown = IF longer THEN until ELSE @,
                  ![a].gate = disable \/ longer]
          /\ req' = [req EXCEPT ![r] = [Judged(@) EXCEPT
                  !.pc = IF disable \/ longer THEN "mark" ELSE "persist",
                  !.out.reason = IF disable THEN reason ELSE "none",
                  !.until = IF longer THEN until ELSE 0]]
          /\ writes' = IF disable \/ longer THEN writes + 1 ELSE writes
      BY <1>5 DEF Judge
    <3> HIDE DEF disable, reason, until, longer
    <3>2. acc' = [acc EXCEPT ![a].disabled = d1, ![a].reason = w1,
                              ![a].cooldown = u1, ![a].gate = mark]
      BY <3>1, <1>1 DEF IsAccount
    <3>3. req' = [req EXCEPT ![r] = [c EXCEPT !.pc = p, !.out.reason = why, !.until = u]]
      BY <3>1, <1>0
    <3> QED
      BY <3>1, <3>2, <3>3
  <2>2. until \in Nat /\ u \in Nat /\ u1 \in Nat /\ d1 \in BOOLEAN /\ mark \in BOOLEAN
    BY <1>1 DEF IsOut, IsAccount
  <2>3. disable => reason # "none" /\ req[r].auth = acc[a].auth /\ out.disable
    BY <1>1 DEF IsOut, StillCurrent
  <2>4. longer => until > acc[a].cooldown
    OBVIOUS
  <2> HIDE DEF disable, reason, until, longer, c
  <2>5. /\ DOMAIN acc' = Accounts /\ \A b \in Accounts : b # a => acc'[b] = acc[b]
        /\ DOMAIN acc'[a] = DOMAIN acc[a] /\ acc'[a].auth = acc[a].auth
        /\ acc'[a].disabled = d1 /\ acc'[a].reason = w1 /\ acc'[a].cooldown = u1
        /\ acc'[a].gate = mark /\ acc'[a].updating = acc[a].updating
        /\ acc'[a].busy = acc[a].busy /\ acc'[a].mediaBusy = acc[a].mediaBusy
        /\ acc'[a].refreshAfter = acc[a].refreshAfter
        /\ acc'[a].refreshErr = acc[a].refreshErr
    <3> HIDE DEF d1, w1, u1, mark, a
    <3> QED
      BY <1>1, <2>1 DEF IsAccount
  <2>6. /\ Only(r) /\ req'[r].pc = p /\ DOMAIN req'[r] = DOMAIN c
        /\ req'[r].a = a /\ req'[r].auth = NoSession /\ req'[r].session = req[r].session
        /\ req'[r].queued = req[r].queued /\ req'[r].until = u
        /\ req'[r].out = [c.out EXCEPT !.reason = why]
    <3> HIDE DEF p, why, u
    <3> DEFINE w == [c.out EXCEPT !.reason = why]
    <3>1. req' = [req EXCEPT ![r] = [c EXCEPT !.pc = p, !.out = w, !.until = u]]
      BY <2>1, <1>3 DEF IsCall
    <3> HIDE DEF w
    <3>2. /\ Only(r) /\ req'[r].pc = p /\ DOMAIN req'[r] = DOMAIN c
          /\ req'[r].a = c.a /\ req'[r].auth = c.auth /\ req'[r].session = c.session
          /\ req'[r].queued = c.queued /\ req'[r].until = u
          /\ req'[r].out = w
      BY <1>0, <1>3, <3>1 DEF Only, IsCall
    <3> QED
      BY <1>3, <3>2 DEF w
  <2>7. IsOut(req'[r].out) /\ req'[r].out.reason = why /\ ~req'[r].out.disable
    <3>1. IsOut(c.out) /\ ~c.out.disable /\ ~c.out.renew
      BY <1>3 DEF IsCall
    <3> HIDE DEF why
    <3>2. /\ DOMAIN req'[r].out = DOMAIN c.out /\ req'[r].out.reason = why
          /\ req'[r].out.disable = c.out.disable /\ req'[r].out.renew = c.out.renew
          /\ req'[r].out.cool = c.out.cool
      BY <2>6, <3>1 DEF IsOut
    <3> QED
      BY <3>1, <3>2 DEF IsOut
  <2>8. Shaped'
    <3>1. IsCall(req'[r])
      BY <1>0, <1>3, <2>2, <2>6, <2>7 DEF IsCall, NoSession
    <3>2. ASSUME NEW b \in Accounts PROVE IsAccount(acc'[b])
      <4>1. IsAccount(acc[b])
        BY <1>0 DEF Shaped
      <4> HIDE DEF d1, w1, u1, mark
      <4>2. CASE b = a
        BY <4>1, <4>2, <2>2, <2>5 DEF IsAccount
      <4> QED
        BY <4>1, <4>2, <2>5
    <3> QED
      BY <1>0, <1>2, <2>5, <2>6, <3>1, <3>2, ShapedAccounts DEF Shaped
  <2>9. SameAuth /\ SameFlag /\ SameLoad /\ SameDownloads
    BY <2>5 DEF SameAuth, SameFlag, SameLoad, SameDownloads
  <2>10. /\ \A s \in Details : req[s].pc \in GatePC => req[s].a # a
         /\ acc[a].disabled => acc'[a].disabled
         /\ disable => acc'[a].disabled /\ acc'[a].reason = reason
         /\ ~disable => acc'[a].disabled = acc[a].disabled /\ acc'[a].reason = acc[a].reason
    BY <1>0, <1>1, <2>1, <2>5 DEF Gated, IsAccount
  <2>11. acc'[a].disabled => acc[a].auth \in rejected
    <3>1. acc[a].disabled => acc[a].auth \in rejected
      BY <1>0, <1>1 DEF Healthy, HealthOf
    <3>2. disable => acc[a].auth \in rejected \/ acc[a].disabled
      BY <1>0, <1>1, <2>3 DEF CallOK
    <3> QED
      BY <3>1, <3>2, <2>10
  <2>12. Calling'
    <3>1. ASSUME NEW s \in Details, s # r PROVE CallOK(s)'
      <4>1. CallOK(s) /\ req'[s] = req[s]
        BY <1>0, <2>6, <3>1 DEF Calling, Only
      <4>2. req[s].pc \in LeasePC => req[s].a \in Accounts
        BY <1>0, LeasedIsAccount
      <4>3. req[s].a \in Stored => req[s].a \in Accounts
        BY <1>0 DEF Shaped
      <4>4. req[s].pc \in {"login", "save", "publish"} =>
               /\ acc'[req[s].a].auth = acc[req[s].a].auth
               /\ acc'[req[s].a].disabled => acc[req[s].a].disabled
               /\ row'[req[s].a].auth = row[req[s].a].auth
        BY <1>2, <2>5, <2>10, <4>2 DEF LeasePC, GatePC
      <4>5. req[s].pc = "mark" => acc'[req[s].a].reason = acc[req[s].a].reason
        BY <2>5, <2>10, <4>2 DEF LeasePC, GatePC
      <4>6. (req[s].a \in Stored /\ acc[req[s].a].disabled) => acc'[req[s].a].disabled
        BY <2>5, <2>10, <4>3
      <4> QED
        BY <1>2, <4>1, <4>4, <4>5, <4>6, OtherCall
    <3>2. CallOK(r)'
      <4>1. req'[r].pc \in {"mark", "persist"} /\ req'[r].pc \in LeasePC
        BY <2>6 DEF LeasePC
      <4>2. req'[r].out.reason # "none" => acc'[a].disabled /\ acc'[a].reason = req'[r].out.reason
        BY <2>7, <2>10
      <4> HIDE DEF p, why, u
      <4> QED
        BY <1>1, <1>2, <2>6, <4>1, <4>2 DEF CallOK, Stored
    <3> QED
      BY <3>1, <3>2 DEF Calling
  <2>13. Updated'
    <3>1. \A s \in Details : req'[s].a = req[s].a
      BY <2>6 DEF Only
    <3> QED
      BY <1>0, <1>2, <2>9, <3>1, UpdatedFrame DEF SameFlag, SameAuth
  <2>14. Owned'
    <3>1. Bears(req'[r].auth, a) /\ Bears(req'[r].session, a)
      BY <2>6 DEF Bears
    <3> QED
      BY <1>0, <1>2, <2>6, <2>9, <3>1, OwnedStep, SameTable
  <2>15. Saved'
    BY <1>0, <1>2, <2>9, SavedFrame, SameTable
  <2>16. Healthy'
    <3>1. ASSUME NEW b \in Stored PROVE HealthOf(b)'
      <4>1. b \in Accounts /\ HealthOf(b)
        BY <1>0 DEF Shaped, Healthy
      <4>2. \A s \in Details : Marks(s, b) =>
                 /\ req'[s].pc = "mark" /\ req'[s].a = b
                 /\ req'[s].out.reason = req[s].out.reason /\ req'[s].until = req[s].until
        BY <1>1, <2>6 DEF Marks, Only
      <4>3. \A s \in Details : req'[s].a = req[s].a
        BY <2>6 DEF Only
      <4>4. CASE b # a
        BY <1>2, <2>5, <4>1, <4>2, <4>3, <4>4, HealthFrame
      <4>5. CASE b = a
        <5>0. /\ row' = row /\ pend' = pend /\ rejected' = rejected /\ upd' = upd
              /\ acc'[b].auth = acc[b].auth
              /\ acc[b].disabled => acc'[b].disabled
              /\ disable => acc'[b].disabled /\ acc'[b].reason = reason
              /\ ~disable => acc'[b].disabled = acc[b].disabled /\ acc'[b].reason = acc[b].reason
              /\ acc'[b].disabled => acc[b].auth \in rejected
          BY <1>2, <2>5, <2>10, <2>11, <4>5
        <5>1. row'[b].dead => acc'[b].disabled
          BY <5>0, <4>1 DEF HealthOf
        <5>2. Marked(b) => Marked(b)'
          BY <4>2 DEF Marked, Marks
        <5>3. disable => Marked(b)'
          <6>1. disable => req'[r].pc = "mark" /\ req'[r].out.reason # "none" /\ req'[r].a = b
            BY <2>3, <2>6, <2>7, <4>5
          <6> QED
            BY <6>1 DEF Marked, Marks
        <5>4. pend'[b].reason # "none" =>
                acc'[b].disabled /\ (Marked(b)' \/ pend'[b].reason = acc'[b].reason)
          BY <5>0, <4>1, <5>2, <5>3 DEF HealthOf
        <5>5. Dead(b)' => \/ Marked(b)' \/ pend'[b].reason # "none"
                          \/ row'[b].dead /\ row'[b].reason = acc'[b].reason
          <6>1. CASE disable
            BY <6>1, <5>3
          <6>2. CASE ~disable
            <7>1. Dead(b)' => Dead(b)
              BY <6>2, <5>0 DEF Dead
            <7> QED
              BY <6>2, <7>1, <5>0, <4>1, <5>2 DEF HealthOf
          <6> QED
            BY <6>1, <6>2
        <5>6. (\/ acc[b].cooldown <= row[b].until
               \/ acc[b].cooldown <= pend[b].until
               \/ \E s \in Details : Marks(s, b) /\ acc[b].cooldown <= req[s].until
               \/ upd.pc = "mark" /\ upd.a = b /\ acc[b].cooldown <= upd.until)'
          <6>1. CASE longer
            <7>1. Marks(r, b)' /\ acc'[b].cooldown = until /\ req'[r].until = until
              BY <6>1, <2>5, <2>6, <4>5 DEF Marks
            <7> QED
              BY <7>1, <2>2
          <6>2. CASE ~longer
            <7>1. acc'[b].cooldown = acc[b].cooldown
              BY <6>2, <2>5, <4>5
            <7> QED
              BY <7>1, <5>0, <4>1, <4>2 DEF HealthOf, Marks
          <6> QED
            BY <6>1, <6>2
        <5>7. (acc'[b].disabled /\ acc'[b].auth \notin rejected') =>
                \A s \in Details : req'[s].a # b
          BY <5>0
        <5> QED
          BY <5>1, <5>4, <5>5, <5>6, <5>7 DEF HealthOf
      <4> QED
        BY <4>4, <4>5
    <3> QED
      BY <1>0, <1>2, <3>1 DEF Healthy, Stored
  <2>17. Gated'
    <3>1. CASE mark
      BY <3>1, <1>0, <1>1, <1>2, <2>1, <2>5, <2>6, GateTaken
    <3>2. CASE ~mark
      <4>1. SameGate
        BY <3>2, <1>1, <2>1, <2>5 DEF SameGate, IsAccount
      <4> QED
        BY <3>2, <4>1, <1>0, <1>2, <2>6, GatedFrame DEF Only, GatePC
    <3> QED
      BY <3>1, <3>2
  <2>18. Writing'
    <3>1. CASE mark
      BY <3>1, <1>0, <1>1, <1>2, <2>1, <2>6, WriteBegun DEF WritePC
    <3>2. CASE ~mark
      BY <3>2, <1>0, <1>1, <1>2, <2>1, <2>6, WritingFrame DEF Only, WritePC, UpdateWrites
    <3> QED
      BY <3>1, <3>2
  <2>19. Leasing' /\ Downloading' /\ Updating' /\ Queueing'
    BY <1>0, <1>1, <1>2, <2>6, <2>9, LeasingFrame, DownloadingFrame, QueueingFrame
       DEF Only, Updating
  <2> QED
    BY <2>8, <2>12, <2>13, <2>14, <2>15, <2>16, <2>17, <2>18, <2>19, Together
<1> QED
  BY <1>4, <1>5

\* What MarkHealth leaves pending.
LEMMA MarkHealthFx ==
    ASSUME Shaped, NEW a \in Accounts, NEW reason, NEW until \in Nat,
           MarkHealth(a, reason, until)
    PROVE  /\ DOMAIN pend' = Accounts /\ \A b \in Accounts : IsHealth(pend'[b])
           /\ \A b \in Accounts : b # a => pend'[b] = pend[b]
           /\ reason # "none" => pend'[a].reason = reason
           /\ reason = "none" => pend'[a].reason = pend[a].reason
           /\ pend[a].until <= pend'[a].until /\ until <= pend'[a].until
           /\ dirty' = TRUE /\ row' = row /\ table' = table
<1>0. DOMAIN pend = Accounts /\ IsHealth(pend[a]) /\ \A b \in Accounts : IsHealth(pend[b])
  BY DEF Shaped
<1> DEFINE w == IF reason # "none" THEN reason ELSE pend[a].reason
           u == Later(pend[a].until, until)
<1>1. pend' = [pend EXCEPT ![a] = [reason |-> w, until |-> u]]
  BY <1>0 DEF MarkHealth
<1>2. u \in Nat /\ pend[a].until <= u /\ until <= u
  BY <1>0 DEF Later, IsHealth
<1>3. (reason # "none" => w = reason) /\ (reason = "none" => w = pend[a].reason)
  OBVIOUS
<1>4. dirty' = TRUE /\ row' = row /\ table' = table
  BY DEF MarkHealth
<1> HIDE DEF w, u
<1>5. /\ DOMAIN pend' = Accounts /\ \A b \in Accounts : b # a => pend'[b] = pend[b]
      /\ pend'[a] = [reason |-> w, until |-> u]
  BY <1>0, <1>1
<1>6. pend'[a].reason = w /\ pend'[a].until = u /\ IsHealth(pend'[a])
  BY <1>2, <1>5 DEF IsHealth
<1> QED
  BY <1>0, <1>2, <1>3, <1>4, <1>5, <1>6

\* A call hands the health it found to the store.
LEMMA MarkKeeps ==
    ASSUME IInv, NEW r \in Details, Mark(r)
    PROVE  IInv'
<1> DEFINE a == req[r].a
           c == Judged(req[r])
<1>0. /\ Shaped /\ Calling /\ Gated /\ Updated /\ Owned /\ Saved /\ Healthy
      /\ Leasing /\ Downloading /\ Queueing /\ Writing /\ Updating
      /\ CallOK(r) /\ IsCall(req[r]) /\ DOMAIN req = Details
  BY DEF IInv, Counted, Calling, Shaped
<1>1. /\ req[r].pc = "mark" /\ a \in Accounts /\ a \in Stored /\ ~req[r].queued
      /\ req[r].until \in Nat
  BY <1>0 DEF Mark, CallOK, LeasePC, Shaped, IsCall
<1>2. /\ accounts' = accounts /\ acc' = acc /\ med' = med /\ upd' = upd
      /\ clock' = clock /\ minted' = minted /\ rejected' = rejected
      /\ writes' = writes /\ updating' = updating /\ queued' = queued
  BY DEF Mark, poolVars, ghosts, env
<1>3. /\ DOMAIN pend' = Accounts /\ \A b \in Accounts : IsHealth(pend'[b])
      /\ \A b \in Accounts : b # a => pend'[b] = pend[b]
      /\ req[r].out.reason # "none" => pend'[a].reason = req[r].out.reason
      /\ req[r].out.reason = "none" => pend'[a].reason = pend[a].reason
      /\ pend[a].until <= pend'[a].until /\ req[r].until <= pend'[a].until
      /\ dirty' = TRUE /\ row' = row /\ table' = table
  <2> DEFINE w == req[r].out.reason
             u == req[r].until
  <2>1. MarkHealth(a, w, u) /\ u \in Nat
    BY <1>1 DEF Mark
  <2> HIDE DEF a, w, u
  <2>2. /\ DOMAIN pend' = Accounts /\ \A b \in Accounts : IsHealth(pend'[b])
        /\ \A b \in Accounts : b # a => pend'[b] = pend[b]
        /\ w # "none" => pend'[a].reason = w
        /\ w = "none" => pend'[a].reason = pend[a].reason
        /\ pend[a].until <= pend'[a].until /\ u <= pend'[a].until
        /\ dirty' = TRUE /\ row' = row /\ table' = table
    BY <1>0, <1>1, <2>1, MarkHealthFx
  <2> QED
    BY <2>2 DEF w, u
<1>4. /\ IsCall(c) /\ DOMAIN c = DOMAIN req[r] /\ c.a = a /\ c.auth = NoSession
      /\ c.session = req[r].session /\ c.queued = req[r].queued
  BY <1>0, JudgedCall
<1>5. /\ Only(r) /\ req'[r].pc = "flush" /\ DOMAIN req'[r] = DOMAIN c
      /\ req'[r].a = a /\ req'[r].auth = NoSession /\ req'[r].session = req[r].session
      /\ req'[r].queued = req[r].queued /\ req'[r].out = c.out /\ req'[r].until = c.until
  <2>1. req' = [req EXCEPT ![r] = [c EXCEPT !.pc = "flush"]]
    BY DEF Mark
  <2> HIDE DEF c
  <2> QED
    BY <1>0, <1>4, <2>1 DEF Only, IsCall
<1> HIDE DEF c
<1>6. Shaped'
  <2>1. IsCall(req'[r])
    BY <1>4, <1>5 DEF IsCall, NoSession
  <2> QED
    BY <1>0, <1>2, <1>3, <1>5, <2>1 DEF Shaped, Stored, Only
<1>7. CallOK(r)'
  BY <1>1, <1>3, <1>5 DEF CallOK, LeasePC, Stored
<1>8. SameAuth /\ SameHealth /\ SameGate /\ SameFlag /\ SameLoad /\ SameDownloads
      /\ SameRows
  BY <1>2, <1>3, SameAccounts, SameTable
<1>9. Calling'
  BY <1>0, <1>2, <1>3, <1>5, <1>7, <1>8, CallingFrame
<1>10. Updated'
  <2>1. \A s \in Details : req'[s].a = req[s].a
    BY <1>5 DEF Only
  <2>2. upd.pc \notin {"idle", "drain", "finish"} => upd.a # a /\ upd.a \in Accounts
    BY <1>0 DEF Updated, Shaped
  <2> QED
    BY <1>0, <1>2, <1>3, <2>1, <2>2, UpdatedFrame
<1>11. Owned' /\ Saved'
  <2>1. Bears(req'[r].auth, a) /\ Bears(req'[r].session, a)
    BY <1>5 DEF Bears
  <2> QED
    BY <1>0, <1>2, <1>3, <1>5, <1>8, <2>1, OwnedStep, SavedFrame
<1>12. Healthy'
  <2>1. ASSUME NEW b \in Stored PROVE HealthOf(b)'
    <3>1. b \in Accounts /\ HealthOf(b)
      BY <1>0 DEF Shaped, Healthy
    <3>2. \A s \in Details : req'[s].a = req[s].a
      BY <1>5 DEF Only
    <3>3. CASE b # a
      <4>1. \A s \in Details : Marks(s, b) =>
                 /\ req'[s].pc = "mark" /\ req'[s].a = b
                 /\ req'[s].out.reason = req[s].out.reason /\ req'[s].until = req[s].until
        BY <3>3, <1>5 DEF Marks, Only
      <4> QED
        BY <1>2, <1>3, <3>1, <3>2, <3>3, <4>1, HealthFrame
    <3>4. CASE b = a
      <4>1. \A s \in Details : Marks(s, b) => s = r
        BY <3>4, <1>0, <1>1 DEF Marks, Gated, GatePC
      <4>2. Marked(b) => req[r].out.reason # "none"
        BY <4>1 DEF Marked
      <4>3. req[r].out.reason # "none" =>
              /\ acc[b].disabled /\ pend'[b].reason = acc[b].reason
              /\ pend'[b].reason # "none"
        BY <3>4, <1>0, <1>1, <1>3 DEF CallOK
      <4>4. req[r].out.reason = "none" => pend'[b].reason = pend[b].reason
        BY <3>4, <1>3
      <4>5. pend'[b].reason # "none" =>
              acc'[b].disabled /\ pend'[b].reason = acc'[b].reason
        BY <1>2, <3>1, <4>2, <4>3, <4>4 DEF HealthOf
      <4>6. Dead(b)' => \/ pend'[b].reason # "none"
                        \/ row'[b].dead /\ row'[b].reason = acc'[b].reason
        <5>1. Dead(b)' => Dead(b)
          BY <1>2, <1>3 DEF Dead
        <5> QED
          BY <1>2, <1>3, <3>1, <4>2, <4>3, <4>4, <5>1 DEF HealthOf
      <4>7. \/ acc'[b].cooldown <= row'[b].until
            \/ acc'[b].cooldown <= pend'[b].until
            \/ upd'.pc = "mark" /\ upd'.a = b /\ acc'[b].cooldown <= upd'.until
        <5>1. pend[b].until <= pend'[b].until /\ req[r].until <= pend'[b].until
          BY <1>3, <3>4
        <5>2. \/ acc[b].cooldown <= row[b].until
              \/ acc[b].cooldown <= pend[b].until
              \/ acc[b].cooldown <= req[r].until
              \/ upd.pc = "mark" /\ upd.a = b /\ acc[b].cooldown <= upd.until
          BY <3>1, <4>1 DEF HealthOf
        <5>3. acc[b].cooldown \in Nat /\ pend[b].until \in Nat /\ pend'[b].until \in Nat
          BY <1>0, <1>3, <3>1 DEF Shaped, IsAccount, IsHealth
        <5> QED
          BY <1>1, <1>2, <1>3, <5>1, <5>2, <5>3
      <4>8. (row'[b].dead => acc'[b].disabled)
            /\ ((acc'[b].disabled /\ acc'[b].auth \notin rejected') =>
                  \A s \in Details : req'[s].a # b)
        BY <1>2, <1>3, <3>1, <3>2 DEF HealthOf
      <4> QED
        BY <4>5, <4>6, <4>7, <4>8 DEF HealthOf
    <3> QED
      BY <3>3, <3>4
  <2> QED
    BY <1>0, <1>2, <1>3, <2>1 DEF Healthy, Stored
<1>13. Gated'
  BY <1>0, <1>1, <1>2, <1>5, <1>8, GatedFrame DEF Only, GatePC
<1>14. Writing'
  BY <1>0, <1>1, <1>2, <1>5, WritingFrame DEF Only, WritePC, UpdateWrites
<1>15. Leasing' /\ Downloading' /\ Updating' /\ Queueing'
  BY <1>0, <1>1, <1>2, <1>5, <1>8, LeasingFrame, DownloadingFrame, QueueingFrame
     DEF Only, Updating
<1> QED
  BY <1>6, <1>9, <1>10, <1>11, <1>12, <1>13, <1>14, <1>15, Together

\* What Flush does: an entry is written or not, and forgotten only once it is
\* written; when it reports success, or nothing is dirty, nothing is pending.
FlushedOf(b) ==
    /\ row'[b].auth = row[b].auth /\ row'[b].ctx = row[b].ctx
    /\ \/ pend'[b] = pend[b] /\ row'[b] = row[b]
       \/ /\ pend'[b] \in {pend[b], NoHealth}
          /\ row'[b].dead <=> (row[b].dead \/ pend[b].reason # "none")
          /\ row'[b].reason = IF pend[b].reason # "none" THEN pend[b].reason
                                                         ELSE row[b].reason
          /\ row[b].until <= row'[b].until /\ pend[b].until <= row'[b].until

\* Flush, entry by entry.
LEMMA FlushFx ==
    ASSUME Shaped, Healthy, NEW o \in Outcomes, Flush(o)
    PROVE  /\ DOMAIN row' = Accounts /\ \A b \in Accounts : IsRow(row'[b])
           /\ DOMAIN pend' = Accounts /\ \A b \in Accounts : IsHealth(pend'[b])
           /\ table' = table /\ \A b \in Accounts : FlushedOf(b)
           /\ (Confirmed(o) \/ ~dirty') => \A b \in Accounts : pend'[b] = NoHealth
<1>0. /\ DOMAIN row = Accounts /\ \A b \in Accounts : IsRow(row[b])
      /\ DOMAIN pend = Accounts /\ \A b \in Accounts : IsHealth(pend[b])
  BY DEF Shaped
<1>1. CASE ~dirty
  <2>1. row' = row /\ pend' = pend /\ table' = table /\ dirty' = dirty
    BY <1>1 DEF Flush, storeVars
  <2> QED
    BY <1>0, <1>1, <2>1 DEF Healthy, FlushedOf
<1>2. CASE dirty
  <2>1. PICK written \in SUBSET Pending : \E forgotten \in SUBSET written :
              /\ o = "ok" => forgotten = Pending
              /\ row' = [a \in Accounts |->
                            IF a \in written THEN Buried(a) ELSE row[a]]
              /\ pend' = [a \in Accounts |->
                            IF a \in forgotten THEN NoHealth ELSE pend[a]]
    BY <1>2 DEF Flush
  <2>2. PICK forgotten \in SUBSET written :
              /\ o = "ok" => forgotten = Pending
              /\ row' = [a \in Accounts |->
                            IF a \in written THEN Buried(a) ELSE row[a]]
              /\ pend' = [a \in Accounts |->
                            IF a \in forgotten THEN NoHealth ELSE pend[a]]
    BY <2>1
  <2>3. dirty' = ~Confirmed(o) /\ table' = table
    BY <1>2 DEF Flush
  <2>4. IsHealth(NoHealth)
    BY DEF IsHealth, NoHealth
  <2>5. ASSUME NEW b \in Accounts
        PROVE  IsRow(row'[b]) /\ IsHealth(pend'[b]) /\ FlushedOf(b)
    <3>1. IsRow(row[b]) /\ IsHealth(pend[b])
      BY <1>0
    <3>2. IsHealth(pend'[b]) /\ pend'[b] \in {pend[b], NoHealth}
      BY <2>2, <2>4, <3>1
    <3>3. CASE b \in written
      <4> DEFINE w == IF pend[b].reason # "none" THEN pend[b].reason ELSE row[b].reason
                 d == row[b].dead \/ pend[b].reason # "none"
                 u == Later(row[b].until, pend[b].until)
      <4>1. row'[b] = [row[b] EXCEPT !.dead = d, !.reason = w, !.until = u]
        BY <2>2, <3>1, <3>3 DEF Buried, IsRow
      <4>2. u \in Nat /\ row[b].until <= u /\ pend[b].until <= u
        BY <3>1 DEF Later, IsRow, IsHealth
      <4> HIDE DEF w, d, u
      <4>3. /\ DOMAIN row'[b] = DOMAIN row[b] /\ row'[b].auth = row[b].auth
            /\ row'[b].ctx = row[b].ctx /\ row'[b].dead = d /\ row'[b].reason = w
            /\ row'[b].until = u
        BY <3>1, <4>1 DEF IsRow
      <4>4. IsRow(row'[b])
        BY <3>1, <4>2, <4>3 DEF IsRow
      <4>5. (row'[b].dead <=> (row[b].dead \/ pend[b].reason # "none"))
            /\ row'[b].reason = IF pend[b].reason # "none" THEN pend[b].reason
                                                           ELSE row[b].reason
        BY <4>3 DEF w, d
      <4> QED
        BY <3>2, <4>2, <4>3, <4>4, <4>5 DEF FlushedOf
    <3>4. CASE b \notin written
      <4>1. row'[b] = row[b] /\ pend'[b] = pend[b]
        BY <3>4, <2>2
      <4> QED
        BY <3>1, <4>1 DEF FlushedOf
    <3> QED
      BY <3>3, <3>4, <3>2
  <2>6. Confirmed(o) => \A b \in Accounts : pend'[b] = NoHealth
    BY <2>2 DEF Confirmed, Pending
  <2>7. DOMAIN row' = Accounts /\ DOMAIN pend' = Accounts
    BY <2>2
  <2> QED
    BY <2>3, <2>5, <2>6, <2>7
<1> QED
  BY <1>1, <1>2

\* The health of an account is where it was, or in the table.
LEMMA FlushedHealth ==
    ASSUME Shaped, NEW b \in Accounts, HealthOf(b), FlushedOf(b), acc' = acc,
           rejected' = rejected, IsRow(row'[b]), IsHealth(pend'[b]),
           \A s \in Details : Marks(s, b) => req'[s] = req[s],
           \A s \in Details : req'[s].a = b => req[s].a = b,
           (upd.pc = "mark" /\ upd.a = b) => upd' = upd
    PROVE  HealthOf(b)'
<1>0. /\ acc[b].cooldown \in Nat /\ row[b].until \in Nat /\ pend[b].until \in Nat
      /\ row'[b].until \in Nat /\ pend'[b].until \in Nat /\ NoHealth.reason = "none"
      /\ NoHealth.until = 0
  BY DEF Shaped, IsAccount, IsRow, IsHealth, NoHealth
<1>1. Marked(b) => Marked(b)'
  BY DEF Marked, Marks
<1>2. pend'[b].reason # "none" => pend'[b] = pend[b]
  BY <1>0 DEF FlushedOf
<1>3. pend'[b].reason # "none" =>
         acc'[b].disabled /\ (Marked(b)' \/ pend'[b].reason = acc'[b].reason)
  BY <1>1, <1>2 DEF HealthOf
<1>4. row'[b].dead => acc'[b].disabled
  BY DEF HealthOf, FlushedOf
<1>5. Dead(b)' => \/ Marked(b)' \/ pend'[b].reason # "none"
                  \/ row'[b].dead /\ row'[b].reason = acc'[b].reason
  <2>1. Dead(b)' => Dead(b)
    BY DEF Dead, FlushedOf
  <2> QED
    BY <1>1, <2>1 DEF HealthOf, FlushedOf
<1>6. (\/ acc[b].cooldown <= row[b].until
       \/ acc[b].cooldown <= pend[b].until
       \/ \E s \in Details : Marks(s, b) /\ acc[b].cooldown <= req[s].until
       \/ upd.pc = "mark" /\ upd.a = b /\ acc[b].cooldown <= upd.until)'
  <2>1. CASE acc[b].cooldown <= row[b].until \/ acc[b].cooldown <= pend[b].until
    <3>1. \/ pend'[b] = pend[b] /\ row'[b] = row[b]
          \/ row[b].until <= row'[b].until /\ pend[b].until <= row'[b].until
      BY DEF FlushedOf
    <3> QED
      BY <2>1, <1>0, <3>1
  <2>2. CASE \E s \in Details : Marks(s, b) /\ acc[b].cooldown <= req[s].until
    BY <2>2 DEF Marks
  <2>3. CASE upd.pc = "mark" /\ upd.a = b /\ acc[b].cooldown <= upd.until
    BY <2>3
  <2> QED
    BY <2>1, <2>2, <2>3 DEF HealthOf
<1>7. (acc'[b].disabled /\ acc'[b].auth \notin rejected') =>
         \A s \in Details : req'[s].a # b
  BY DEF HealthOf
<1> QED
  BY <1>3, <1>4, <1>5, <1>6, <1>7 DEF HealthOf

\* Pending health is written, by a call that has nothing to mark, by the update or
\* by Close.
LEMMA Flushed ==
    ASSUME IInv, NEW o \in Outcomes, Flush(o), acc' = acc, rejected' = rejected,
           minted' = minted, updating' = updating, DOMAIN req' = Details,
           \A s \in Details : req'[s] = req[s] \/ (CallOK(s)' /\ req[s].pc # "mark"),
           \A s \in Details : req'[s].a = req[s].a,
           \A s \in Details : req[s].a \in Accounts =>
               req'[s].auth = req[s].auth /\ req'[s].session = req[s].session,
           upd.pc = "mark" => upd' = upd,
           upd'.a = upd.a, upd'.session = upd.session, med' = med
    PROVE  Calling' /\ Owned' /\ Saved' /\ Healthy' /\ Leasing' /\ Downloading'
<1>0. /\ Shaped /\ Calling /\ Gated /\ Updated /\ Owned /\ Saved /\ Healthy
      /\ Leasing /\ Downloading
  BY DEF IInv, Counted
<1>1. /\ DOMAIN row' = Accounts /\ \A b \in Accounts : IsRow(row'[b])
      /\ DOMAIN pend' = Accounts /\ \A b \in Accounts : IsHealth(pend'[b])
      /\ table' = table /\ \A b \in Accounts : FlushedOf(b)
      /\ (Confirmed(o) \/ ~dirty') => \A b \in Accounts : pend'[b] = NoHealth
  BY <1>0, FlushFx
<1>2. \A b \in Accounts : row'[b].auth = row[b].auth /\ row'[b].ctx = row[b].ctx
  BY <1>1 DEF FlushedOf
<1>3. Calling'
  <2>1. ASSUME NEW s \in Details, req'[s] = req[s] PROVE CallOK(s)'
    <3>1. CallOK(s)
      BY <1>0 DEF Calling
    <3>2. req[s].pc \in LeasePC => req[s].a \in Accounts
      BY <1>0, LeasedIsAccount
    <3> QED
      BY <1>1, <1>2, <2>1, <3>1, <3>2, OtherCall DEF LeasePC
  <2> QED
    BY <2>1 DEF Calling
<1>4. Owned'
  <2>1. \A b \in Accounts : Moves(acc'[b].auth, b, None) /\ Moves(row'[b].auth, b, None)
    BY <1>2 DEF Moves, Bears
  <2>2. \A s \in Details : req'[s].a \in Accounts =>
            Moves(req'[s].auth, req'[s].a, None) /\ Moves(req'[s].session, req'[s].a, None)
    BY DEF Moves, Bears
  <2>3. upd'.a \in Accounts => Moves(upd'.session, upd'.a, None)
    BY DEF Moves, Bears
  <2>4. minted' \in Nat /\ minted <= minted' /\ None \in Accounts \cup {None}
    BY <1>0 DEF Shaped
  <2> QED
    BY <1>0, <2>1, <2>2, <2>3, <2>4, OwnedFrame
<1>5. Saved'
  BY <1>0, <1>1, <1>2 DEF Saved, Stored
<1>6. Healthy'
  <2>1. ASSUME NEW b \in Stored PROVE HealthOf(b)'
    <3>1. b \in Accounts /\ HealthOf(b)
      BY <1>0 DEF Shaped, Healthy
    <3>2. \A s \in Details : Marks(s, b) => req'[s] = req[s]
      BY DEF Marks
    <3>3. \A s \in Details : req'[s].a = b => req[s].a = b
      OBVIOUS
    <3> QED
      BY <1>0, <1>1, <3>1, <3>2, <3>3, FlushedHealth
  <2> QED
    BY <1>0, <1>1, <2>1 DEF Healthy, Stored
<1>7. Leasing' /\ Downloading'
  BY <1>0, LeasingFrame, DownloadingFrame, SameAccounts
<1> QED
  BY <1>3, <1>4, <1>5, <1>6, <1>7

\* The update is not disturbed: no death of its account is pending when it
\* publishes.
LEMMA FlushedUpdate ==
    ASSUME IInv, NEW o \in Outcomes, Flush(o), acc' = acc, rejected' = rejected,
           upd' = upd, \A s \in Details : req'[s].a = req[s].a
    PROVE  Updated'
<1>0. Shaped /\ Updated /\ Healthy
  BY DEF IInv
<1>1. table' = table /\ \A b \in Accounts : FlushedOf(b)
  BY <1>0, FlushFx
<1>2. upd.pc # "idle" => upd.a \in Accounts
  BY <1>0 DEF Updated, Shaped
<1>3. \A b \in Accounts : pend[b].reason = "none" =>
          /\ pend'[b].reason = "none" /\ row'[b].auth = row[b].auth
          /\ row'[b].dead => row[b].dead
  BY <1>1 DEF FlushedOf, NoHealth
<1>4. upd.pc = "publish" => pend[upd.a].reason = "none"
  BY <1>0 DEF Updated
<1> QED
  BY <1>0, <1>1, <1>2, <1>3, <1>4, UpdatedFrame

\* The shapes, when pending health is written.
LEMMA ShapedFlushed ==
    ASSUME Shaped, Healthy, NEW o \in Outcomes, Flush(o), accounts' = accounts,
           acc' = acc, med' = med, clock' = clock, minted' = minted, IsUpdate(upd'),
           DOMAIN req' = Details, \A s \in Details : IsCall(req'[s])
    PROVE  Shaped'
<1>1. /\ DOMAIN row' = Accounts /\ \A b \in Accounts : IsRow(row'[b])
      /\ DOMAIN pend' = Accounts /\ \A b \in Accounts : IsHealth(pend'[b])
      /\ table' = table
  BY FlushFx
<1> QED
  BY <1>1 DEF Shaped, Stored

\* Detail begins: it goes on to acquire, or ends because health was not saved.
LEMMA DetailKeeps ==
    ASSUME IInv, NEW r \in Details, Detail(r)
    PROVE  IInv'
<1>0. /\ Shaped /\ Calling /\ Gated /\ Updated /\ Healthy
      /\ Queueing /\ Writing /\ Updating
      /\ CallOK(r) /\ IsCall(req[r]) /\ DOMAIN req = Details
  BY DEF IInv, Counted, Calling, Shaped
<1>1. req[r].pc = "idle" /\ ~req[r].queued /\ req[r].a = None
      /\ req[r].auth = NoSession /\ req[r].session = NoSession
  BY <1>0 DEF Detail, CallOK, LeasePC
<1>2. /\ accounts' = accounts /\ acc' = acc /\ med' = med /\ upd' = upd
      /\ clock' = clock /\ minted' = minted /\ rejected' = rejected
      /\ writes' = writes /\ updating' = updating /\ queued' = queued
  BY DEF Detail, poolVars, ghosts, env
<1>3. PICK o \in Outcomes :
          Flush(o) /\ IF Confirmed(o) THEN Goto(r, "acquire") ELSE End(r)
  BY DEF Detail
<1>4. /\ Only(r) /\ IsCall(req'[r]) /\ req'[r].pc \in {"acquire", "done"}
      /\ ~req'[r].queued /\ req'[r].a = None /\ req'[r].auth = NoSession
      /\ req'[r].session = NoSession
  <2>1. CASE Confirmed(o)
    <3>1. req' = [req EXCEPT ![r].pc = "acquire"]
      BY <1>3, <2>1 DEF Goto
    <3>2. /\ Only(r) /\ DOMAIN req'[r] = DOMAIN req[r] /\ req'[r].pc = "acquire"
          /\ req'[r].a = req[r].a /\ req'[r].queued = req[r].queued
          /\ req'[r].auth = req[r].auth /\ req'[r].session = req[r].session
          /\ req'[r].out = req[r].out /\ req'[r].until = req[r].until
      BY <1>0, <3>1 DEF Only, IsCall
    <3>3. IsCall(req'[r])
      BY <1>0, <3>2 DEF IsCall
    <3> QED
      BY <1>1, <3>2, <3>3
  <2>2. CASE ~Confirmed(o)
    <3>1. req' = [req EXCEPT ![r] = Done]
      BY <1>3, <2>2 DEF End
    <3>2. Only(r) /\ req'[r] = Done
      BY <1>0, <3>1 DEF Only
    <3> QED
      BY <3>2, IdleAndDone DEF NoSession
  <2> QED
    BY <2>1, <2>2
<1>5. CallOK(r)'
  BY <1>4 DEF CallOK, LeasePC
<1>6. \A s \in Details : req'[s].a = req[s].a
  BY <1>1, <1>4 DEF Only
<1>7. Shaped'
  <2>1. DOMAIN req' = Details /\ \A s \in Details : IsCall(req'[s])
    BY <1>0, <1>4 DEF Shaped, Only
  <2> QED
    BY <1>0, <1>2, <1>3, <2>1, ShapedFlushed DEF Shaped
<1>8. Calling' /\ Owned' /\ Saved' /\ Healthy' /\ Leasing' /\ Downloading'
  <2>1. \A s \in Details : req'[s] = req[s] \/ (CallOK(s)' /\ req[s].pc # "mark")
    BY <1>1, <1>4, <1>5 DEF Only
  <2>2. \A s \in Details : req[s].a \in Accounts =>
               req'[s].auth = req[s].auth /\ req'[s].session = req[s].session
    BY <1>1, <1>4 DEF Only
  <2>3. DOMAIN req' = Details
    BY <1>0, <1>4 DEF Only
  <2> QED
    BY <1>2, <1>3, <1>6, <2>1, <2>2, <2>3, Flushed
<1>9. Updated'
  BY <1>2, <1>3, <1>6, FlushedUpdate
<1>10. Gated'
  BY <1>0, <1>2, <1>4, GatedFrame, SameAccounts DEF Only, GatePC
<1>11. Queueing' /\ Writing' /\ Updating'
  BY <1>0, <1>1, <1>2, <1>4, QueueingFrame, WritingFrame
     DEF Only, WritePC, UpdateWrites, Updating
<1> QED
  BY <1>7, <1>8, <1>9, <1>10, <1>11, Together

\* A call writes the health it has marked, and whatever else is pending.
LEMMA FlushHealthKeeps ==
    ASSUME IInv, NEW r \in Details, FlushHealth(r)
    PROVE  IInv'
<1>0. /\ Shaped /\ Calling /\ Gated /\ Updated /\ Healthy
      /\ Queueing /\ Writing /\ Updating
      /\ CallOK(r) /\ IsCall(req[r]) /\ DOMAIN req = Details
  BY DEF IInv, Counted, Calling, Shaped
<1>1. req[r].pc = "flush" /\ ~req[r].queued /\ req[r].a \in Stored
  BY <1>0 DEF FlushHealth, CallOK, LeasePC
<1>2. /\ accounts' = accounts /\ acc' = acc /\ med' = med /\ upd' = upd
      /\ clock' = clock /\ minted' = minted /\ rejected' = rejected
      /\ writes' = writes /\ updating' = updating /\ queued' = queued
  BY DEF FlushHealth, poolVars, ghosts, env
<1>3. PICK o \in Outcomes :
          Flush(o) /\ req' = [req EXCEPT ![r].pc = "settle", ![r].saved = Confirmed(o)]
  BY DEF FlushHealth
<1>4. /\ Only(r) /\ DOMAIN req'[r] = DOMAIN req[r] /\ req'[r].pc = "settle"
      /\ req'[r].a = req[r].a /\ req'[r].queued = req[r].queued
      /\ req'[r].auth = req[r].auth /\ req'[r].session = req[r].session
      /\ req'[r].out = req[r].out /\ req'[r].until = req[r].until
  <2> DEFINE y == Confirmed(o)
  <2>1. req' = [req EXCEPT ![r].pc = "settle", ![r].saved = y]
    BY <1>3
  <2> HIDE DEF y
  <2> QED
    BY <1>0, <2>1 DEF Only, IsCall
<1>5. IsCall(req'[r])
  BY <1>0, <1>4 DEF IsCall
<1>6. table' = table
  BY <1>0, <1>3, FlushFx
<1>7. CallOK(r)'
  BY <1>1, <1>4, <1>6 DEF CallOK, LeasePC, Stored
<1>8. Shaped'
  <2>1. DOMAIN req' = Details /\ \A s \in Details : IsCall(req'[s])
    BY <1>0, <1>4, <1>5 DEF Shaped, Only
  <2> QED
    BY <1>0, <1>2, <1>3, <2>1, ShapedFlushed DEF Shaped
<1>9. \A s \in Details : req'[s].a = req[s].a
  BY <1>4 DEF Only
<1>10. Calling' /\ Owned' /\ Saved' /\ Healthy' /\ Leasing' /\ Downloading'
  <2>1. \A s \in Details : req'[s] = req[s] \/ (CallOK(s)' /\ req[s].pc # "mark")
    BY <1>1, <1>4, <1>7 DEF Only
  <2>2. \A s \in Details : req[s].a \in Accounts =>
               req'[s].auth = req[s].auth /\ req'[s].session = req[s].session
    BY <1>4 DEF Only
  <2>3. DOMAIN req' = Details
    BY <1>0, <1>4 DEF Only
  <2> QED
    BY <1>2, <1>3, <1>9, <2>1, <2>2, <2>3, Flushed
<1>11. Updated'
  BY <1>2, <1>3, <1>9, FlushedUpdate
<1>12. Gated'
  BY <1>0, <1>1, <1>2, <1>4, GatedFrame, SameAccounts DEF Only, GatePC
<1>13. Queueing' /\ Writing' /\ Updating'
  BY <1>0, <1>1, <1>2, <1>4, QueueingFrame, WritingFrame
     DEF Only, WritePC, UpdateWrites, Updating
<1> QED
  BY <1>8, <1>10, <1>11, <1>12, <1>13, Together

\* Flush, in a step of no call of Detail.
LEMMA FlushedElsewhere ==
    ASSUME IInv, NEW o \in Outcomes, Flush(o), acc' = acc, accounts' = accounts,
           rejected' = rejected, minted' = minted, clock' = clock, req' = req, med' = med,
           updating' = updating, queued' = queued, writes' = writes, IsUpdate(upd'),
           upd.pc = "mark" => upd' = upd,
           upd'.a = upd.a, upd'.session = upd.session, upd'.gate = upd.gate,
           UpdateWrites' = UpdateWrites, Updated',
           (upd'.pc = "idle") <=> (upd.pc = "idle")
    PROVE  IInv'
<1>0. /\ Shaped /\ Calling /\ Gated /\ Updated /\ Healthy
      /\ Queueing /\ Writing /\ Updating /\ DOMAIN req = Details
  BY DEF IInv, Counted, Shaped
<1>1. Shaped'
  BY <1>0, ShapedFlushed DEF Shaped
<1>2. Calling' /\ Owned' /\ Saved' /\ Healthy' /\ Leasing' /\ Downloading'
  BY <1>0, Flushed
<1>3. Gated'
  BY <1>0, GatedFrame, SameAccounts
<1>4. Queueing' /\ Writing' /\ Updating'
  BY <1>0, QueueingFrame, WritingFrame DEF Updating
<1> QED
  BY <1>1, <1>2, <1>3, <1>4, Together

\* Close writes what is pending.
LEMMA CloseStoreKeeps ==
    ASSUME IInv, CloseStore
    PROVE  IInv'
<1>0. PICK o \in Outcomes : Flush(o)
  BY DEF CloseStore
<1>1. /\ accounts' = accounts /\ acc' = acc /\ req' = req /\ med' = med
      /\ upd' = upd /\ clock' = clock /\ minted' = minted /\ rejected' = rejected
      /\ writes' = writes /\ updating' = updating /\ queued' = queued
  BY DEF CloseStore, poolVars, callVars, ghosts, env
<1>2. Updated'
  BY <1>0, <1>1, FlushedUpdate
<1>3. IsUpdate(upd') /\ UpdateWrites' = UpdateWrites
  BY <1>1 DEF IInv, Shaped, UpdateWrites
<1> QED
  BY <1>0, <1>1, <1>2, <1>3, FlushedElsewhere

\* The update writes what is pending before it goes on: no death of its account
\* is left in memory.
LEMMA UpdateFlushKeeps ==
    ASSUME IInv, UpdateFlush
    PROVE  IInv'
<1>0. Shaped /\ Updated /\ Healthy /\ upd.pc = "flush" /\ IsUpdate(upd) /\ upd.a \in Accounts
  BY DEF IInv, Shaped, Updated, UpdateFlush
<1>1. PICK o \in Outcomes :
          Flush(o) /\ IF Confirmed(o) THEN UpdateTo("gate") ELSE UpdateEnds("db")
  BY DEF UpdateFlush
<1>2. /\ accounts' = accounts /\ acc' = acc /\ req' = req /\ med' = med
      /\ clock' = clock /\ minted' = minted /\ rejected' = rejected
      /\ writes' = writes /\ updating' = updating /\ queued' = queued
  BY DEF UpdateFlush, poolVars, ghosts, env
<1>3. /\ DOMAIN upd' = DOMAIN upd /\ upd'.pc = IF Confirmed(o) THEN "gate" ELSE "finish"
      /\ upd'.a = upd.a /\ upd'.session = upd.session /\ upd'.gate = upd.gate
      /\ upd'.until = upd.until
  BY <1>0, <1>1 DEF UpdateTo, UpdateEnds, IsUpdate
<1>4. /\ table' = table
      /\ Confirmed(o) => \A b \in Accounts : pend'[b] = NoHealth
  BY <1>0, <1>1, FlushFx
<1>5. Updated'
  <2>1. upd'.pc = "gate" => pend'[upd.a].reason = "none"
    BY <1>0, <1>3, <1>4 DEF NoHealth
  <2> QED
    BY <1>0, <1>2, <1>3, <1>4, <2>1 DEF Updated, Stored
<1>6. IsUpdate(upd') /\ UpdateWrites' = UpdateWrites
  BY <1>0, <1>3 DEF IsUpdate, UpdateWrites
<1> QED
  BY <1>0, <1>1, <1>2, <1>3, <1>5, <1>6, FlushedElsewhere

\* A throttle found by the update is written.
LEMMA FlushCooldownKeeps ==
    ASSUME IInv, FlushCooldown
    PROVE  IInv'
<1>0. Shaped /\ Updated /\ Healthy /\ upd.pc = "flushHealth" /\ IsUpdate(upd)
      /\ upd.a \in Accounts
  BY DEF IInv, Shaped, Updated, FlushCooldown
<1>1. PICK o \in Outcomes, x \in {"failed", "stop"} :
          Flush(o) /\ upd' = [upd EXCEPT !.pc = "settle",
                                         !.result = IF Confirmed(o) THEN x ELSE "db"]
  BY DEF FlushCooldown
<1>2. /\ accounts' = accounts /\ acc' = acc /\ req' = req /\ med' = med
      /\ clock' = clock /\ minted' = minted /\ rejected' = rejected
      /\ writes' = writes /\ updating' = updating /\ queued' = queued
  BY DEF FlushCooldown, poolVars, ghosts, env
<1>3. /\ DOMAIN upd' = DOMAIN upd /\ upd'.pc = "settle"
      /\ upd'.a = upd.a /\ upd'.session = upd.session /\ upd'.gate = upd.gate
      /\ upd'.until = upd.until
  BY <1>0, <1>1 DEF IsUpdate
<1>4. table' = table /\ FlushedOf(upd.a)
  BY <1>0, <1>1, FlushFx
<1>5. Updated'
  <2>1. pend'[upd.a].reason = "none"
    BY <1>0, <1>4 DEF Updated, FlushedOf, NoHealth
  <2> QED
    BY <1>0, <1>2, <1>3, <1>4, <2>1 DEF Updated, Stored
<1>6. IsUpdate(upd') /\ UpdateWrites' = UpdateWrites
  BY <1>0, <1>3 DEF IsUpdate, UpdateWrites
<1> QED
  BY <1>0, <1>1, <1>2, <1>3, <1>5, <1>6, FlushedElsewhere

\* The write is over: the gate is free again.
LEMMA SettleKeeps ==
    ASSUME IInv, NEW r \in Details, Settle(r)
    PROVE  IInv'
<1> DEFINE a == req[r].a
           p == IF req[r].saved THEN "persist" ELSE "release"
<1>0. /\ Shaped /\ Calling /\ Gated /\ Updated /\ Writing
      /\ CallOK(r) /\ IsCall(req[r]) /\ DOMAIN req = Details
  BY DEF IInv, Counted, Calling, Shaped
<1>1. /\ req[r].pc = "settle" /\ a \in Accounts /\ a \in Stored /\ ~req[r].queued
  BY <1>0 DEF Settle, CallOK, LeasePC, Shaped
<1>2. /\ storeVars' = storeVars /\ accounts' = accounts /\ med' = med /\ upd' = upd
      /\ clock' = clock /\ minted' = minted /\ rejected' = rejected
      /\ updating' = updating /\ queued' = queued /\ table' = table /\ row' = row
      /\ pend' = pend /\ dirty' = dirty
      /\ writes' = writes - 1
  BY DEF Settle, storeVars, ghosts, env
<1>3. req' = [req EXCEPT ![r].pc = p] /\ acc' = [acc EXCEPT ![a].gate = FALSE]
  BY DEF Settle, Goto
<1>4. p \in {"persist", "release"}
  OBVIOUS
<1> HIDE DEF p
<1>5. /\ Only(r) /\ DOMAIN req'[r] = DOMAIN req[r] /\ req'[r].pc = p
      /\ req'[r].a = req[r].a /\ req'[r].queued = req[r].queued
      /\ req'[r].auth = req[r].auth /\ req'[r].session = req[r].session
      /\ req'[r].out = req[r].out /\ req'[r].until = req[r].until
  BY <1>0, <1>3 DEF Only, IsCall
<1>6. /\ DOMAIN acc' = Accounts /\ \A b \in Accounts : b # a => acc'[b] = acc[b]
      /\ DOMAIN acc'[a] = DOMAIN acc[a] /\ acc'[a].auth = acc[a].auth
      /\ acc'[a].disabled = acc[a].disabled /\ acc'[a].reason = acc[a].reason
      /\ acc'[a].cooldown = acc[a].cooldown /\ acc'[a].gate = FALSE
      /\ acc'[a].updating = acc[a].updating /\ acc'[a].busy = acc[a].busy
      /\ acc'[a].mediaBusy = acc[a].mediaBusy
      /\ acc'[a].refreshAfter = acc[a].refreshAfter
      /\ acc'[a].refreshErr = acc[a].refreshErr
  <2> HIDE DEF a
  <2> QED
    BY <1>0, <1>1, <1>3 DEF Shaped, IsAccount
<1>7. SameAuth /\ SameHealth /\ SameFlag /\ SameLoad /\ SameDownloads
  BY <1>6 DEF SameAuth, SameHealth, SameFlag, SameLoad, SameDownloads
<1>8. Shaped'
  <2>1. IsCall(req'[r])
    BY <1>0, <1>5 DEF IsCall
  <2>2. ASSUME NEW b \in Accounts PROVE IsAccount(acc'[b])
    <3>1. IsAccount(acc[b])
      BY <1>0 DEF Shaped
    <3>2. CASE b = a
      BY <3>1, <3>2, <1>6 DEF IsAccount
    <3> QED
      BY <3>1, <3>2, <1>6
  <2> QED
    BY <1>0, <1>2, <1>5, <1>6, <2>1, <2>2, ShapedAccounts DEF Shaped
<1>9. CallOK(r)'
  BY <1>1, <1>2, <1>4, <1>5 DEF CallOK, LeasePC, Stored
<1>10. Gated'
  BY <1>0, <1>1, <1>2, <1>4, <1>5, <1>6, GateLeft DEF GatePC
<1>11. Writing'
  BY <1>0, <1>1, <1>2, <1>4, <1>5, WriteEnded DEF WritePC
<1>12. Bears(req'[r].auth, a) /\ Bears(req'[r].session, a)
  BY <1>5 DEF Bears
<1>13. req[r].pc \in LeasePC /\ req'[r].pc \in LeasePC
  BY <1>1, <1>4, <1>5 DEF LeasePC
<1> QED
  BY <1>1, <1>2, <1>5, <1>7, <1>8, <1>9, <1>10, <1>11, <1>12, <1>13, LeaseStep, SameTable

\* persistSessionContext: the context is that of the row's session.
LEMMA PersistKeeps ==
    ASSUME IInv, NEW r \in Details, Persist(r)
    PROVE  IInv'
<1> DEFINE a == req[r].a
<1>0. /\ Shaped /\ Calling /\ Gated /\ Updated /\ Writing /\ Saved
      /\ CallOK(r) /\ IsCall(req[r]) /\ DOMAIN req = Details
  BY DEF IInv, Counted, Calling, Shaped
<1>1. /\ req[r].pc = "persist" /\ a \in Accounts /\ a \in Stored /\ ~req[r].queued
  BY <1>0 DEF Persist, CallOK, LeasePC, Shaped
<1>2. /\ accounts' = accounts /\ acc' = acc /\ med' = med /\ upd' = upd
      /\ clock' = clock /\ minted' = minted /\ rejected' = rejected
      /\ writes' = writes /\ updating' = updating /\ queued' = queued
  BY DEF Persist, poolVars, ghosts, env
<1>3. CASE Goto(r, "release") /\ UNCHANGED storeVars
  <2>1. req' = [req EXCEPT ![r].pc = "release"] /\ storeVars' = storeVars
    BY <1>3 DEF Goto
  <2>2. /\ Only(r) /\ DOMAIN req'[r] = DOMAIN req[r] /\ req'[r].pc = "release"
        /\ req'[r].a = req[r].a /\ req'[r].queued = req[r].queued
        /\ req'[r].auth = req[r].auth /\ req'[r].session = req[r].session
        /\ req'[r].out = req[r].out /\ req'[r].until = req[r].until
    BY <1>0, <2>1 DEF Only, IsCall
  <2>3. IsCall(req'[r])
    BY <1>0, <2>2 DEF IsCall
  <2> QED
    BY <1>1, <1>2, <2>1, <2>2, <2>3, JudgedNext DEF LeasePC, GatePC
<1>4. CASE \E o \in Outcomes :
            /\ SaveSessionState(a, acc[a].auth, o)
            /\ req' = [req EXCEPT ![r].pc = "release", ![r].saved = Confirmed(o)]
  <2>1. PICK o \in Outcomes :
            /\ SaveSessionState(a, acc[a].auth, o)
            /\ req' = [req EXCEPT ![r].pc = "release", ![r].saved = Confirmed(o)]
    BY <1>4
  <2>2. /\ Only(r) /\ DOMAIN req'[r] = DOMAIN req[r] /\ req'[r].pc = "release"
        /\ req'[r].a = req[r].a /\ req'[r].queued = req[r].queued
        /\ req'[r].auth = req[r].auth /\ req'[r].session = req[r].session
        /\ req'[r].out = req[r].out /\ req'[r].until = req[r].until
    <3> DEFINE y == Confirmed(o)
    <3>1. req' = [req EXCEPT ![r].pc = "release", ![r].saved = y]
      BY <2>1
    <3> HIDE DEF y
    <3> QED
      BY <1>0, <3>1 DEF Only, IsCall
  <2>3. table' = table /\ pend' = pend /\ dirty' = dirty
    BY <2>1 DEF SaveSessionState
  <2>4. /\ DOMAIN row' = Accounts /\ \A b \in Accounts : IsRow(row'[b])
        /\ SameRows
    <3>1. DOMAIN row = Accounts /\ \A b \in Accounts : IsRow(row[b])
      BY <1>0 DEF Shaped
    <3>2. CASE row' = row
      BY <3>1, <3>2 DEF SameRows
    <3>3. CASE row' # row
      <4> DEFINE n == acc[a].auth
      <4>1. row' = [row EXCEPT ![a].ctx = n] /\ row[a].auth = n
        BY <2>1, <3>3 DEF SaveSessionState
      <4>2. row[a].ctx = n
        BY <4>1, <1>0, <1>1 DEF Saved
      <4> HIDE DEF a, n
      <4>3. /\ DOMAIN row' = Accounts /\ DOMAIN row'[a] = DOMAIN row[a]
            /\ \A b \in Accounts : b # a => row'[b] = row[b]
            /\ row'[a].auth = row[a].auth /\ row'[a].ctx = n
            /\ row'[a].dead = row[a].dead /\ row'[a].reason = row[a].reason
            /\ row'[a].until = row[a].until
        BY <1>1, <3>1, <4>1 DEF IsRow
      <4>4. IsRow(row'[a])
        BY <1>1, <3>1, <4>3 DEF IsRow
      <4> QED
        BY <3>1, <4>2, <4>3, <4>4 DEF SameRows
    <3> QED
      BY <3>2, <3>3
  <2>5. Shaped'
    <3>1. IsCall(req'[r])
      BY <1>0, <2>2 DEF IsCall
    <3> QED
      BY <1>0, <1>2, <2>2, <2>3, <2>4, <3>1 DEF Shaped, Stored, Only
  <2>6. CallOK(r)'
    BY <1>1, <2>2, <2>3 DEF CallOK, LeasePC, Stored
  <2>7. Gated'
    BY <1>0, <1>1, <1>2, <2>2, GatedFrame, SameAccounts DEF Only, GatePC
  <2>8. Writing'
    BY <1>0, <1>1, <1>2, <2>2, WritingFrame DEF Only, WritePC, UpdateWrites
  <2>9. Bears(req'[r].auth, a) /\ Bears(req'[r].session, a)
    BY <2>2 DEF Bears
  <2>10. req[r].pc \in LeasePC /\ req'[r].pc \in LeasePC
    BY <1>1, <2>2 DEF LeasePC
  <2> QED
    BY <1>1, <1>2, <2>2, <2>3, <2>4, <2>5, <2>6, <2>7, <2>8, <2>9, <2>10, LeaseStep,
       SameAccounts
<1> QED
  BY <1>3, <1>4 DEF Persist

\* A call that tries again begins as a new one.
LEMMA AgainCall ==
    ASSUME NEW t
    PROVE  LET k == [Idle EXCEPT !.pc = "acquire", !.tried = t] IN
           /\ IsCall(k) /\ k.pc = "acquire" /\ k.a = None /\ ~k.queued
           /\ k.auth = 0 /\ k.session = 0
<1> DEFINE k == [Idle EXCEPT !.pc = "acquire", !.tried = t]
<1>1. /\ DOMAIN k = DOMAIN Idle /\ k.pc = "acquire" /\ k.a = Idle.a
      /\ k.queued = Idle.queued /\ k.auth = Idle.auth /\ k.session = Idle.session
      /\ k.until = Idle.until /\ k.out = Idle.out
  BY DEF Idle
<1> HIDE DEF k
<1>2. /\ IsCall(k) /\ k.pc = "acquire" /\ k.a = None /\ ~k.queued
      /\ k.auth = 0 /\ k.session = 0
  BY <1>1, IdleAndDone DEF IsCall
<1> QED
  BY <1>2 DEF k

\* The lease ends.
LEMMA ReleaseKeeps ==
    ASSUME IInv, NEW r \in Details, Release(r)
    PROVE  IInv'
<1> DEFINE a == req[r].a
<1>0. /\ Shaped /\ Calling /\ Gated /\ Updated /\ Leasing /\ Queueing /\ Writing
      /\ CallOK(r) /\ IsCall(req[r]) /\ DOMAIN req = Details
  BY DEF IInv, Counted, Calling, Shaped
<1>1. /\ req[r].pc = "release" /\ a \in Accounts /\ a \in Stored /\ ~req[r].queued
  BY <1>0 DEF Release, CallOK, LeasePC, Shaped
<1>2. /\ storeVars' = storeVars /\ accounts' = accounts /\ med' = med /\ upd' = upd
      /\ clock' = clock /\ minted' = minted /\ rejected' = rejected
      /\ writes' = writes /\ updating' = updating /\ queued' = queued
      /\ table' = table /\ row' = row /\ pend' = pend /\ dirty' = dirty
  BY DEF Release, storeVars, ghosts, env
<1>3. /\ Only(r) /\ IsCall(req'[r]) /\ req'[r].pc \in {"acquire", "done"}
      /\ ~req'[r].queued /\ req'[r].a = None /\ req'[r].auth = NoSession
      /\ req'[r].session = NoSession
  <2> DEFINE k == [Idle EXCEPT !.pc = "acquire", !.tried = req[r].tried]
  <2>1. \/ req' = [req EXCEPT ![r] = k]
        \/ req' = [req EXCEPT ![r] = Done]
    BY DEF Release
  <2>2. /\ IsCall(k) /\ k.pc = "acquire" /\ k.a = None /\ ~k.queued
        /\ k.auth = 0 /\ k.session = 0
    BY AgainCall
  <2> HIDE DEF k
  <2>3. Only(r) /\ req'[r] \in {k, Done}
    BY <1>0, <2>1 DEF Only
  <2> QED
    BY <2>2, <2>3, IdleAndDone DEF NoSession
<1>4. /\ DOMAIN acc' = Accounts /\ \A b \in Accounts : b # a => acc'[b] = acc[b]
      /\ DOMAIN acc'[a] = DOMAIN acc[a] /\ acc'[a].auth = acc[a].auth
      /\ acc'[a].disabled = acc[a].disabled /\ acc'[a].reason = acc[a].reason
      /\ acc'[a].cooldown = acc[a].cooldown /\ acc'[a].gate = acc[a].gate
      /\ acc'[a].updating = acc[a].updating /\ acc'[a].busy = acc[a].busy - 1
      /\ acc'[a].mediaBusy = acc[a].mediaBusy
      /\ acc'[a].refreshAfter = acc[a].refreshAfter
      /\ acc'[a].refreshErr = acc[a].refreshErr
  <2> HIDE DEF a
  <2>1. acc' = [acc EXCEPT ![a].busy = @ - 1]
    BY DEF Release, a
  <2> QED
    BY <1>0, <1>1, <2>1 DEF Shaped, IsAccount
<1>5. req'[r].a \notin Accounts
  BY <1>3, ConstantFacts
<1>6. SameAuth /\ SameHealth /\ SameGate /\ SameFlag /\ SameDownloads
  BY <1>4 DEF SameAuth, SameHealth, SameGate, SameFlag, SameDownloads
<1>7. Leasing' /\ acc'[a].busy \in Nat
  BY <1>0, <1>1, <1>3, <1>4, <1>5, LeaseEnded
<1>8. Shaped'
  <2>1. ASSUME NEW b \in Accounts PROVE IsAccount(acc'[b])
    <3>1. IsAccount(acc[b])
      BY <1>0 DEF Shaped
    <3>2. CASE b = a
      BY <3>1, <3>2, <1>4, <1>7 DEF IsAccount
    <3> QED
      BY <3>1, <3>2, <1>4
  <2> QED
    BY <1>0, <1>2, <1>3, <1>4, <2>1, ShapedAccounts DEF Shaped
<1>9. CallOK(r)'
  BY <1>3 DEF CallOK, LeasePC
<1>10. Calling' /\ Updated' /\ Owned' /\ Saved' /\ Healthy' /\ Downloading' /\ Updating'
  BY <1>1, <1>2, <1>3, <1>5, <1>6, <1>9, Quiet, SameTable
<1>11. Gated'
  BY <1>0, <1>2, <1>3, <1>6, GatedFrame DEF Only, GatePC
<1>12. Queueing' /\ Writing'
  BY <1>0, <1>1, <1>2, <1>3, QueueingFrame, WritingFrame DEF Only, WritePC, UpdateWrites
<1> QED
  BY <1>7, <1>8, <1>10, <1>11, <1>12, Together

-----------------------------------------------------------------------------
(* Downloads.                                                              *)

\* Only the download m takes the step.
OnlyMedia(m) == /\ DOMAIN med' = DOMAIN med
                /\ \A n \in Media : n # m => med'[n] = med[n]

\* A step that only moves downloads: it holds no lease and changes no health.
LEMMA MediaStepKeeps ==
    ASSUME IInv, SameAuth, SameHealth, SameGate, SameFlag, SameLoad,
           DOMAIN acc' = Accounts, \A b \in Accounts : IsAccount(acc'[b]),
           DOMAIN med' = Media, \A m \in Media : IsMedia(med'[m]),
           storeVars' = storeVars, accounts' = accounts, req' = req, upd' = upd,
           clock' = clock, minted' = minted, rejected' = rejected, writes' = writes,
           updating' = updating, Downloading', Queueing'
    PROVE  IInv'
<1>0. /\ Shaped /\ Calling /\ Gated /\ Updated /\ Owned /\ Saved /\ Healthy
      /\ Leasing /\ Writing /\ Updating
  BY DEF IInv, Counted
<1>1. table' = table /\ row' = row /\ pend' = pend /\ dirty' = dirty
  BY DEF storeVars
<1>2. Shaped'
  BY <1>0, <1>1 DEF Shaped, Stored
<1>3. SameRows
  BY <1>1, SameTable
<1>4. Calling' /\ Saved' /\ Healthy'
  BY <1>0, <1>1, <1>3, CallingCalm, SavedFrame, HealthyCalm
<1>5. Updated'
  <2>1. upd.a \in Accounts => /\ acc'[upd.a].auth = acc[upd.a].auth
                              /\ acc'[upd.a].updating = acc[upd.a].updating
    BY DEF SameAuth, SameFlag
  <2> QED
    BY <1>0, <1>1, <2>1, UpdatedFrame
<1>6. Owned'
  <2>1. \A b \in Accounts : Moves(acc'[b].auth, b, None) /\ Moves(row'[b].auth, b, None)
    BY <1>1 DEF SameAuth, Moves, Bears
  <2>2. \A s \in Details : req'[s].a \in Accounts =>
            Moves(req'[s].auth, req'[s].a, None) /\ Moves(req'[s].session, req'[s].a, None)
    BY DEF Moves, Bears
  <2>3. upd'.a \in Accounts => Moves(upd'.session, upd'.a, None)
    BY DEF Moves, Bears
  <2>4. minted' \in Nat /\ minted <= minted' /\ None \in Accounts \cup {None}
    BY <1>0 DEF Shaped
  <2> QED
    BY <1>0, <2>1, <2>2, <2>3, <2>4, OwnedFrame
<1>7. Gated'
  BY <1>0, GatedFrame
<1>8. Leasing' /\ Writing' /\ Updating'
  BY <1>0, LeasingFrame, WritingFrame DEF UpdateWrites, Updating
<1> QED
  BY <1>2, <1>4, <1>5, <1>6, <1>7, <1>8, Together

\* m takes a download slot of a.
LEMMA DownloadTaken ==
    ASSUME Shaped, Downloading, NEW m \in Media, NEW a \in Accounts, OnlyMedia(m),
           med[m].pc # "run", med'[m].pc = "run", med'[m].a = a,
           acc[a].mediaBusy < DownloadConcurrency,
           acc'[a].mediaBusy = acc[a].mediaBusy + 1,
           \A b \in Accounts : b # a => acc'[b].mediaBusy = acc[b].mediaBusy
    PROVE  Downloading'
<1>1. \A b \in Accounts : b # a => Downloads(b)' = Downloads(b)
  BY DEF Downloads, OnlyMedia
<1>2. Downloads(a)' = Downloads(a) \cup {m} /\ m \notin Downloads(a)
  BY DEF Downloads, OnlyMedia
<1>3. Cardinality(Downloads(a)') = Cardinality(Downloads(a)) + 1
  BY <1>2, OneMore, CountsAreNat
<1>4. /\ acc[a].mediaBusy = Cardinality(Downloads(a)) /\ acc[a].mediaBusy \in Nat
      /\ DownloadConcurrency \in Nat
  BY ConstantFacts DEF Downloading, Shaped, IsAccount
<1>5. acc'[a].mediaBusy = Cardinality(Downloads(a)') /\ acc'[a].mediaBusy <= DownloadConcurrency
  BY <1>3, <1>4
<1> QED
  BY <1>1, <1>5 DEF Downloading

\* m gives its slot back.
LEMMA DownloadEnded ==
    ASSUME Shaped, Downloading, NEW m \in Media, NEW a \in Accounts, OnlyMedia(m),
           med[m].pc = "run", med[m].a = a, med'[m].pc # "run",
           acc'[a].mediaBusy = acc[a].mediaBusy - 1,
           \A b \in Accounts : b # a => acc'[b].mediaBusy = acc[b].mediaBusy
    PROVE  Downloading' /\ acc'[a].mediaBusy \in Nat
<1>1. \A b \in Accounts : b # a => Downloads(b)' = Downloads(b)
  BY DEF Downloads, OnlyMedia
<1>2. Downloads(a)' = Downloads(a) \ {m} /\ m \in Downloads(a)
  BY DEF Downloads, OnlyMedia
<1>3. Cardinality(Downloads(a)') = Cardinality(Downloads(a)) - 1
      /\ Cardinality(Downloads(a)) >= 1
  BY <1>2, OneLess, CountsAreNat
<1>4. /\ acc[a].mediaBusy = Cardinality(Downloads(a)) /\ acc[a].mediaBusy \in Nat
      /\ DownloadConcurrency \in Nat /\ acc[a].mediaBusy <= DownloadConcurrency
  BY ConstantFacts DEF Downloading, Shaped, IsAccount
<1>5. acc'[a].mediaBusy = Cardinality(Downloads(a)') /\ acc'[a].mediaBusy <= DownloadConcurrency
      /\ acc'[a].mediaBusy \in Nat
  BY <1>3, <1>4
<1> QED
  BY <1>1, <1>5 DEF Downloading

\* m neither runs before nor after.
LEMMA DownloadsStay ==
    ASSUME Downloading, NEW m \in Media, OnlyMedia(m), med[m].pc # "run",
           med'[m].pc # "run", acc' = acc
    PROVE  Downloading'
<1>1. \A b : Downloads(b)' = Downloads(b)
  BY DEF Downloads, OnlyMedia
<1> QED
  BY <1>1 DEF Downloading

\* m joins the queue.
LEMMA MediaJoined ==
    ASSUME Queueing, NEW m \in Media, OnlyMedia(m), ~med[m].queued, med'[m].queued,
           med'[m].pc = "acquire", queued < MaxQueued, queued' = queued + 1, req' = req
    PROVE  Queueing'
<1> DEFINE S == {n \in Media : med[n].queued}
           T == {n \in Media : med'[n].queued}
           D == {s \in Details : req[s].queued}
<1>1. T = S \cup {m} /\ m \notin S
  BY DEF OnlyMedia
<1>2. IsFiniteSet(S) /\ Cardinality(S) \in Nat /\ Cardinality(D) \in Nat
  BY CountsAreNat
<1>3. queued = Cardinality(D) + Cardinality(S)
  BY DEF Queueing
<1>4. {s \in Details : req'[s].queued} = D
      /\ \A n \in Media : med'[n].queued => med'[n].pc = "acquire"
  BY DEF Queueing, OnlyMedia
<1> HIDE DEF S, T, D
<1>5. Cardinality(T) = Cardinality(S) + 1
  BY <1>1, <1>2, OneMore
<1>6. queued' = Cardinality(D) + Cardinality(T) /\ queued' <= MaxQueued
  BY <1>2, <1>3, <1>5, ConstantFacts
<1> QED
  BY <1>4, <1>6 DEF Queueing, T

\* m is not in the queue any more, if it was.
LEMMA MediaLeft ==
    ASSUME Queueing, NEW m \in Media, OnlyMedia(m), ~med'[m].queued,
           queued' = Dequeue(med[m]), req' = req
    PROVE  Queueing'
<1> DEFINE S == {n \in Media : med[n].queued}
           T == {n \in Media : med'[n].queued}
           D == {s \in Details : req[s].queued}
<1>0. \A n \in Media : med'[n].queued => med'[n].pc = "acquire"
  BY DEF Queueing, OnlyMedia
<1>1. CASE med[m].queued
  <2>1. T = S \ {m} /\ m \in S
    BY <1>1 DEF OnlyMedia
  <2>2. IsFiniteSet(S) /\ Cardinality(S) \in Nat /\ Cardinality(D) \in Nat
    BY CountsAreNat
  <2>3. queued = Cardinality(D) + Cardinality(S) /\ queued <= MaxQueued
    BY DEF Queueing
  <2>4. {s \in Details : req'[s].queued} = D /\ queued' = queued - 1
    BY <1>1 DEF Dequeue
  <2> HIDE DEF S, T, D
  <2>5. Cardinality(T) = Cardinality(S) - 1 /\ Cardinality(S) >= 1
    BY <2>1, <2>2, OneLess
  <2>6. queued' = Cardinality(D) + Cardinality(T) /\ queued' <= MaxQueued
    BY <2>2, <2>3, <2>4, <2>5, ConstantFacts
  <2> QED
    BY <1>0, <2>4, <2>6 DEF Queueing, T
<1>2. CASE ~med[m].queued
  <2>1. queued' = queued /\ T = S
    BY <1>2 DEF Dequeue, OnlyMedia
  <2> QED
    BY <1>0, <2>1 DEF Queueing
<1> QED
  BY <1>1, <1>2

\* WithMedia begins.
LEMMA WithMediaKeeps ==
    ASSUME IInv, NEW m \in Media, NEW a \in Accounts, WithMedia(m, a)
    PROVE  IInv'
<1>0. /\ Shaped /\ Downloading /\ Queueing /\ IsMedia(med[m]) /\ DOMAIN med = Media
  BY DEF IInv, Counted, Shaped
<1>1. /\ storeVars' = storeVars /\ accounts' = accounts /\ req' = req /\ upd' = upd
      /\ clock' = clock /\ minted' = minted /\ rejected' = rejected
      /\ writes' = writes /\ updating' = updating /\ table' = table /\ row' = row
      /\ pend' = pend /\ dirty' = dirty
  BY DEF WithMedia, storeVars, poolVars, ghosts, env
<1>2. acc' = acc /\ queued' = queued /\ med[m].pc = "idle"
  BY DEF WithMedia, poolVars
<1>3. OnlyMedia(m) /\ DOMAIN med'[m] = DOMAIN med[m] /\ med'[m].pc = "acquire"
      /\ med'[m].queued = med[m].queued
  BY <1>0 DEF WithMedia, OnlyMedia, IsMedia
<1>4. DOMAIN med' = Media /\ \A n \in Media : IsMedia(med'[n])
  BY <1>0, <1>3, ConstantFacts DEF Shaped, IsMedia, OnlyMedia
<1>5. Downloading'
  BY <1>0, <1>2, <1>3, DownloadsStay
<1>6. Queueing'
  <2>1. ~med[m].queued
    BY <1>0, <1>2 DEF Queueing
  <2>2. queued' = Dequeue(med[m])
    BY <1>2, <2>1 DEF Dequeue
  <2> QED
    BY <1>0, <1>1, <1>3, <2>1, <2>2, MediaLeft
<1> QED
  BY <1>0, <1>1, <1>2, <1>4, <1>5, <1>6, MediaStepKeeps, SameAccounts DEF Shaped

\* A download gets a slot.
LEMMA MediaAcquireKeeps ==
    ASSUME IInv, NEW m \in Media, MediaAcquire(m)
    PROVE  IInv'
<1>0. /\ Shaped /\ Downloading /\ Queueing /\ IsMedia(med[m]) /\ DOMAIN med = Media
  BY DEF IInv, Counted, Shaped
<1>1. /\ storeVars' = storeVars /\ accounts' = accounts /\ req' = req /\ upd' = upd
      /\ clock' = clock /\ minted' = minted /\ rejected' = rejected
      /\ writes' = writes /\ updating' = updating /\ table' = table /\ row' = row
      /\ pend' = pend /\ dirty' = dirty
  BY DEF MediaAcquire, storeVars, poolVars, ghosts, env
<1> DEFINE a == med[m].a
<1>2. /\ queued' = Dequeue(med[m]) /\ med[m].pc = "acquire" /\ a \in Accounts
      /\ acc[a].mediaBusy < DownloadConcurrency
  BY <1>0 DEF MediaAcquire, Loaded, Shaped, Stored
<1>3. OnlyMedia(m) /\ DOMAIN med'[m] = DOMAIN med[m] /\ med'[m].pc = "run"
      /\ med'[m].queued = FALSE /\ med'[m].a = a /\ a \in Accounts
  BY <1>0, <1>2 DEF MediaAcquire, OnlyMedia, IsMedia
<1>4. DOMAIN med' = Media /\ \A n \in Media : IsMedia(med'[n])
  BY <1>0, <1>3, ConstantFacts DEF Shaped, IsMedia, OnlyMedia
<1>5. /\ DOMAIN acc' = Accounts /\ \A b \in Accounts : b # a => acc'[b] = acc[b]
      /\ DOMAIN acc'[a] = DOMAIN acc[a] /\ acc'[a].auth = acc[a].auth
      /\ acc'[a].disabled = acc[a].disabled /\ acc'[a].reason = acc[a].reason
      /\ acc'[a].cooldown = acc[a].cooldown /\ acc'[a].gate = acc[a].gate
      /\ acc'[a].updating = acc[a].updating /\ acc'[a].busy = acc[a].busy
      /\ acc'[a].mediaBusy = acc[a].mediaBusy + 1
      /\ acc'[a].refreshAfter = acc[a].refreshAfter
      /\ acc'[a].refreshErr = acc[a].refreshErr
  <2> HIDE DEF a
  <2>1. acc' = [acc EXCEPT ![a].mediaBusy = @ + 1]
    BY DEF MediaAcquire, a
  <2> QED
    BY <1>0, <1>2, <2>1 DEF Shaped, IsAccount
<1>6. SameAuth /\ SameHealth /\ SameGate /\ SameFlag /\ SameLoad
  BY <1>5 DEF SameAuth, SameHealth, SameGate, SameFlag, SameLoad
<1>7. ASSUME NEW b \in Accounts PROVE IsAccount(acc'[b])
  <2>1. IsAccount(acc[b])
    BY <1>0 DEF Shaped
  <2>2. CASE b = a
    BY <2>1, <2>2, <1>5 DEF IsAccount
  <2> QED
    BY <2>1, <2>2, <1>5
<1>8. Downloading'
  BY <1>0, <1>2, <1>3, <1>5, DownloadTaken
<1>9. Queueing'
  BY <1>0, <1>1, <1>2, <1>3, MediaLeft
<1> QED
  BY <1>1, <1>4, <1>5, <1>6, <1>7, <1>8, <1>9, MediaStepKeeps

\* A download waits.
LEMMA MediaWaitKeeps ==
    ASSUME IInv, NEW m \in Media, MediaWait(m)
    PROVE  IInv'
<1>0. /\ Shaped /\ Downloading /\ Queueing /\ IsMedia(med[m]) /\ DOMAIN med = Media
  BY DEF IInv, Counted, Shaped
<1>1. /\ storeVars' = storeVars /\ accounts' = accounts /\ req' = req /\ upd' = upd
      /\ clock' = clock /\ minted' = minted /\ rejected' = rejected
      /\ writes' = writes /\ updating' = updating /\ table' = table /\ row' = row
      /\ pend' = pend /\ dirty' = dirty
  BY DEF MediaWait, storeVars, poolVars, ghosts, env
<1>2. /\ acc' = acc /\ med[m].pc = "acquire"
      /\ med[m].queued \/ queued < MaxQueued
      /\ queued' = IF med[m].queued THEN queued ELSE queued + 1
  BY DEF MediaWait
<1>3. OnlyMedia(m) /\ DOMAIN med'[m] = DOMAIN med[m] /\ med'[m].pc = "acquire"
      /\ med'[m].queued = TRUE
  BY <1>0 DEF MediaWait, OnlyMedia, IsMedia
<1>4. DOMAIN med' = Media /\ \A n \in Media : IsMedia(med'[n])
  BY <1>0, <1>3, ConstantFacts DEF Shaped, IsMedia, OnlyMedia
<1>5. Downloading'
  BY <1>0, <1>2, <1>3, DownloadsStay DEF MediaWait
<1>6. Queueing'
  <2>1. CASE med[m].queued
    <3>1. {n \in Media : med'[n].queued} = {n \in Media : med[n].queued}
      BY <2>1, <1>3 DEF OnlyMedia
    <3>2. \A n \in Media : med'[n].queued => med'[n].pc = "acquire"
      BY <1>0, <1>3 DEF OnlyMedia, Queueing
    <3> QED
      BY <2>1, <1>0, <1>1, <1>2, <3>1, <3>2 DEF Queueing, MediaWait
  <2>2. CASE ~med[m].queued
    BY <2>2, <1>0, <1>1, <1>2, <1>3, MediaJoined DEF MediaWait
  <2> QED
    BY <2>1, <2>2
<1> QED
  BY <1>0, <1>1, <1>2, <1>4, <1>5, <1>6, MediaStepKeeps, SameAccounts DEF Shaped, MediaWait

\* A download ends without a slot.
LEMMA MediaGivesUp ==
    ASSUME IInv, NEW m \in Media, med[m].pc = "acquire", MediaEnd(m),
           queued' = Dequeue(med[m]), acc' = acc,
           storeVars' = storeVars, accounts' = accounts, req' = req, upd' = upd,
           clock' = clock, minted' = minted, rejected' = rejected, writes' = writes,
           updating' = updating
    PROVE  IInv'
<1>0. /\ Shaped /\ Downloading /\ Queueing /\ IsMedia(med[m]) /\ DOMAIN med = Media
  BY DEF IInv, Counted, Shaped
<1>3. OnlyMedia(m) /\ {"pc", "a", "queued"} \subseteq DOMAIN med'[m]
      /\ med'[m].pc = "done" /\ med'[m].queued = FALSE
  BY <1>0 DEF MediaEnd, OnlyMedia
<1>4. DOMAIN med' = Media /\ \A n \in Media : IsMedia(med'[n])
  BY <1>0, <1>3, ConstantFacts DEF Shaped, IsMedia, OnlyMedia
<1>5. Downloading' /\ Queueing'
  BY <1>0, <1>3, DownloadsStay, MediaLeft
<1> QED
  BY <1>0, <1>4, <1>5, MediaStepKeeps, SameAccounts DEF Shaped

\* acquire returns an error to a download.
LEMMA MediaRefuseKeeps ==
    ASSUME IInv, NEW m \in Media, MediaRefuse(m)
    PROVE  IInv'
  BY MediaGivesUp DEF MediaRefuse, ghosts, env

\* The caller of a download goes away.
LEMMA MediaCancelKeeps ==
    ASSUME IInv, NEW m \in Media, MediaCancel(m)
    PROVE  IInv'
  BY MediaGivesUp DEF MediaCancel, ghosts, env

\* A download ends.
LEMMA MediaReleaseKeeps ==
    ASSUME IInv, NEW m \in Media, MediaRelease(m)
    PROVE  IInv'
<1>0. /\ Shaped /\ Downloading /\ Queueing /\ IsMedia(med[m]) /\ DOMAIN med = Media
  BY DEF IInv, Counted, Shaped
<1>1. /\ storeVars' = storeVars /\ accounts' = accounts /\ req' = req /\ upd' = upd
      /\ clock' = clock /\ minted' = minted /\ rejected' = rejected
      /\ writes' = writes /\ updating' = updating /\ table' = table /\ row' = row
      /\ pend' = pend /\ dirty' = dirty
  BY DEF MediaRelease, storeVars, poolVars, ghosts, env
<1> DEFINE a == med[m].a
<1>2. queued' = queued /\ med[m].pc = "run" /\ a \in Accounts
  BY <1>0 DEF MediaRelease, IsMedia
<1>3. OnlyMedia(m) /\ {"pc", "a", "queued"} \subseteq DOMAIN med'[m]
      /\ med'[m].pc = "done" /\ med'[m].queued = FALSE
  BY <1>0 DEF MediaRelease, MediaEnd, OnlyMedia
<1>4. DOMAIN med' = Media /\ \A n \in Media : IsMedia(med'[n])
  BY <1>0, <1>3, ConstantFacts DEF Shaped, IsMedia, OnlyMedia
<1>5. /\ DOMAIN acc' = Accounts /\ \A b \in Accounts : b # a => acc'[b] = acc[b]
      /\ DOMAIN acc'[a] = DOMAIN acc[a] /\ acc'[a].auth = acc[a].auth
      /\ acc'[a].disabled = acc[a].disabled /\ acc'[a].reason = acc[a].reason
      /\ acc'[a].cooldown = acc[a].cooldown /\ acc'[a].gate = acc[a].gate
      /\ acc'[a].updating = acc[a].updating /\ acc'[a].busy = acc[a].busy
      /\ acc'[a].mediaBusy = acc[a].mediaBusy - 1
      /\ acc'[a].refreshAfter = acc[a].refreshAfter
      /\ acc'[a].refreshErr = acc[a].refreshErr
  <2> HIDE DEF a
  <2>1. acc' = [acc EXCEPT ![a].mediaBusy = @ - 1]
    BY DEF MediaRelease, a
  <2> QED
    BY <1>0, <1>2, <2>1 DEF Shaped, IsAccount
<1>6. SameAuth /\ SameHealth /\ SameGate /\ SameFlag /\ SameLoad
  BY <1>5 DEF SameAuth, SameHealth, SameGate, SameFlag, SameLoad
<1>7. Downloading' /\ acc'[a].mediaBusy \in Nat
  BY <1>0, <1>2, <1>3, <1>5, DownloadEnded
<1>8. ASSUME NEW b \in Accounts PROVE IsAccount(acc'[b])
  <2>1. IsAccount(acc[b])
    BY <1>0 DEF Shaped
  <2>2. CASE b = a
    BY <2>1, <2>2, <1>5, <1>7 DEF IsAccount
  <2> QED
    BY <2>1, <2>2, <1>5
<1>9. Queueing'
  <2>1. ~med[m].queued
    BY <1>0, <1>2 DEF Queueing
  <2>2. queued' = Dequeue(med[m])
    BY <1>2, <2>1 DEF Dequeue
  <2> QED
    BY <1>0, <1>1, <1>3, <2>2, MediaLeft
<1> QED
  BY <1>1, <1>4, <1>5, <1>6, <1>7, <1>8, <1>9, MediaStepKeeps

-----------------------------------------------------------------------------
(* The update.                                                             *)

\* A step of the update that changes neither sessions nor health.
LEMMA UpdateCalm ==
    ASSUME IInv, SameAuth, SameHealth, SameLoad, SameDownloads, SameRows,
           table' = table, pend' = pend, dirty' = dirty, rejected' = rejected,
           minted' = minted, req' = req, med' = med, queued' = queued,
           upd'.a \in Accounts => Bears(upd'.session, upd'.a), upd.pc # "mark",
           Shaped', Gated', Updated', Writing', Updating'
    PROVE  IInv'
<1>0. Shaped /\ Calling /\ Owned /\ Saved /\ Healthy /\ Leasing /\ Downloading /\ Queueing
  BY DEF IInv, Counted
<1>1. Calling' /\ Saved' /\ Healthy'
  BY <1>0, CallingCalm, SavedFrame, HealthyCalm
<1>2. Owned'
  <2>1. \A b \in Accounts : Moves(acc'[b].auth, b, None) /\ Moves(row'[b].auth, b, None)
    BY DEF SameAuth, SameRows, Moves, Bears
  <2>2. \A s \in Details : req'[s].a \in Accounts =>
            Moves(req'[s].auth, req'[s].a, None) /\ Moves(req'[s].session, req'[s].a, None)
    BY DEF Moves, Bears
  <2>3. upd'.a \in Accounts => Moves(upd'.session, upd'.a, None)
    BY DEF Moves
  <2>4. minted' \in Nat /\ minted <= minted' /\ None \in Accounts \cup {None}
    BY <1>0 DEF Shaped
  <2> QED
    BY <1>0, <2>1, <2>2, <2>3, <2>4, OwnedFrame
<1>3. Leasing' /\ Downloading' /\ Queueing'
  BY <1>0, LeasingFrame, DownloadingFrame, QueueingFrame
<1> QED
  BY <1>1, <1>2, <1>3, Together

\* The shapes, when the update changes.
LEMMA ShapedUpdate ==
    ASSUME Shaped, IsUpdate(upd'), DOMAIN acc' = Accounts,
           \A b \in Accounts : IsAccount(acc'[b]), storeVars' = storeVars,
           accounts' = accounts, req' = req, med' = med, clock' = clock, minted' \in Nat
    PROVE  Shaped'
<1>1. table' = table /\ row' = row /\ pend' = pend
  BY DEF storeVars
<1> QED
  BY <1>1 DEF Shaped, Stored

\* A step of the update that changes nothing else.
LEMMA UpdateMoves ==
    ASSUME IInv, acc' = acc, storeVars' = storeVars, accounts' = accounts, req' = req,
           med' = med, clock' = clock, minted' = minted, rejected' = rejected,
           queued' = queued, updating' = updating, writes' = writes, IsUpdate(upd'),
           upd.pc # "idle", upd'.pc # "idle", upd'.a = upd.a,
           upd'.session = upd.session, upd'.gate = upd.gate,
           upd.pc # "mark", UpdateWrites' = UpdateWrites, Updated'
    PROVE  IInv'
<1>0. Shaped /\ Calling /\ Gated /\ Updated /\ Writing /\ Updating
  BY DEF IInv, Counted
<1>1. Shaped'
  BY <1>0, ShapedUpdate DEF Shaped
<1>2. Gated'
  BY <1>0, GatedFrame, SameAccounts
<1>3. Writing' /\ Updating'
  BY <1>0, WritingFrame DEF Updating
<1>4. upd'.a \in Accounts => Bears(upd'.session, upd'.a)
  BY DEF Bears
<1>5. table' = table /\ row' = row /\ pend' = pend /\ dirty' = dirty
  BY DEF storeVars
<1> QED
  BY <1>1, <1>2, <1>3, <1>4, <1>5, UpdateCalm, SameAccounts, SameTable

\* No update.
LEMMA NoUpdateFx ==
    /\ IsUpdate(NoUpdate) /\ NoUpdate.pc = "idle" /\ NoUpdate.a = None
    /\ NoUpdate.gate = FALSE /\ NoUpdate.session = NoSession
  BY DEF IsUpdate, NoUpdate, NoSession

\* beginUpdate.
LEMMA BeginUpdateKeeps ==
    ASSUME IInv, NEW a \in Accounts, NEW c \in Offers, BeginUpdate(a, c)
    PROVE  IInv'
<1>0. /\ Shaped /\ Calling /\ Gated /\ Updated /\ Writing /\ Updating
  BY DEF IInv, Counted
<1>1. /\ upd.pc = "idle" /\ a \in Stored /\ updating' = updating + 1
      /\ acc' = [acc EXCEPT ![a].updating = TRUE]
  BY <1>0 DEF BeginUpdate, Loaded, Stored, Shaped
<1>2. /\ storeVars' = storeVars /\ accounts' = accounts /\ req' = req /\ med' = med
      /\ clock' = clock /\ minted' = minted /\ rejected' = rejected
      /\ writes' = writes /\ queued' = queued /\ table' = table /\ row' = row
      /\ pend' = pend /\ dirty' = dirty
  BY DEF BeginUpdate, storeVars, ghosts, env
<1>3. /\ IsUpdate(upd') /\ upd'.pc = "drain" /\ upd'.a = a
      /\ upd'.gate = FALSE /\ upd'.session = NoSession
  <2> DEFINE x == c.cookies
             y == c.backup
  <2>1. upd' = [NoUpdate EXCEPT !.pc = "drain", !.a = a, !.cookies = x, !.backup = y]
    BY DEF BeginUpdate
  <2> HIDE DEF x, y
  <2>2. /\ DOMAIN upd' = DOMAIN NoUpdate /\ upd'.pc = "drain" /\ upd'.a = a
        /\ upd'.gate = NoUpdate.gate /\ upd'.session = NoUpdate.session
        /\ upd'.until = NoUpdate.until
    BY <2>1, NoUpdateFx DEF IsUpdate
  <2> QED
    BY <2>2, NoUpdateFx DEF IsUpdate
<1>4. /\ DOMAIN acc' = Accounts /\ \A b \in Accounts : b # a => acc'[b] = acc[b]
      /\ DOMAIN acc'[a] = DOMAIN acc[a] /\ acc'[a].auth = acc[a].auth
      /\ acc'[a].disabled = acc[a].disabled /\ acc'[a].reason = acc[a].reason
      /\ acc'[a].cooldown = acc[a].cooldown /\ acc'[a].gate = acc[a].gate
      /\ acc'[a].updating = TRUE /\ acc'[a].busy = acc[a].busy
      /\ acc'[a].mediaBusy = acc[a].mediaBusy
      /\ acc'[a].refreshAfter = acc[a].refreshAfter
      /\ acc'[a].refreshErr = acc[a].refreshErr
  BY <1>0, <1>1 DEF Shaped, IsAccount
<1>5. SameAuth /\ SameHealth /\ SameGate /\ SameLoad /\ SameDownloads
  BY <1>4 DEF SameAuth, SameHealth, SameGate, SameLoad, SameDownloads
<1>6. Shaped'
  <2>1. ASSUME NEW b \in Accounts PROVE IsAccount(acc'[b])
    <3>1. IsAccount(acc[b])
      BY <1>0 DEF Shaped
    <3>2. CASE b = a
      BY <3>1, <3>2, <1>4 DEF IsAccount
    <3> QED
      BY <3>1, <3>2, <1>4
  <2> QED
    BY <1>0, <1>2, <1>3, <1>4, <2>1, ShapedUpdate DEF Shaped
<1>7. Gated'
  BY <1>0, <1>2, <1>3, <1>5, GatedFrame
<1>8. Updated'
  BY <1>1, <1>2, <1>3, <1>4 DEF Updated, Stored
<1>9. Writing' /\ Updating'
  BY <1>0, <1>1, <1>2, <1>3, WritingFrame DEF UpdateWrites, Updating
<1>10. Bears(upd'.session, upd'.a)
  BY <1>3 DEF Bears
<1> QED
  BY <1>1, <1>2, <1>5, <1>6, <1>7, <1>8, <1>9, <1>10, UpdateCalm, SameTable

\* beginUpdate waits for the leases of the account.
LEMMA DrainKeeps ==
    ASSUME IInv, Drain
    PROVE  IInv'
<1>0. Shaped /\ Updated /\ Leasing /\ upd.pc = "drain" /\ IsUpdate(upd) /\ upd.a \in Accounts
  BY DEF IInv, Counted, Shaped, Updated, Drain
<1>1. /\ storeVars' = storeVars /\ accounts' = accounts /\ acc' = acc /\ req' = req
      /\ med' = med /\ clock' = clock /\ minted' = minted /\ rejected' = rejected
      /\ writes' = writes /\ updating' = updating /\ queued' = queued
      /\ table' = table /\ row' = row /\ pend' = pend /\ dirty' = dirty
  BY DEF Drain, storeVars, ghosts, env
<1>2. CASE Drained
  <2>1. /\ DOMAIN upd' = DOMAIN upd /\ upd'.pc = "flush" /\ upd'.a = upd.a
        /\ upd'.session = upd.session /\ upd'.until = upd.until
        /\ upd'.gate = upd.gate
    BY <1>0, <1>2 DEF Drain, UpdateTo, IsUpdate
  <2>2. \A r \in Details : req[r].a # upd.a
    BY <1>0, <1>2, NobodyLeases DEF Drained
  <2>3. Updated'
    BY <1>0, <1>1, <2>1, <2>2 DEF Updated, Stored
  <2>4. IsUpdate(upd') /\ UpdateWrites' = UpdateWrites
    BY <1>0, <2>1 DEF IsUpdate, UpdateWrites
  <2> QED
    BY <1>0, <1>1, <2>1, <2>3, <2>4, UpdateMoves
<1>3. CASE ~Drained
  <2>1. upd' = upd
    BY <1>3 DEF Drain
  <2>2. Updated' /\ UpdateWrites' = UpdateWrites
    BY <1>0, <1>1, <2>1 DEF Updated, Stored, UpdateWrites
  <2> QED
    BY <1>0, <1>1, <2>1, <2>2, UpdateMoves
<1> QED
  BY <1>2, <1>3

\* The caller of the update goes away.
LEMMA CancelUpdateKeeps ==
    ASSUME IInv, CancelUpdate
    PROVE  IInv'
<1>0. Shaped /\ Updated /\ upd.pc \in {"drain", "gate", "verify"} /\ IsUpdate(upd)
  BY DEF IInv, Shaped, CancelUpdate
<1>1. /\ storeVars' = storeVars /\ accounts' = accounts /\ acc' = acc /\ req' = req
      /\ med' = med /\ clock' = clock /\ minted' = minted /\ rejected' = rejected
      /\ writes' = writes /\ updating' = updating /\ queued' = queued
      /\ table' = table /\ row' = row /\ pend' = pend /\ dirty' = dirty
  BY DEF CancelUpdate, storeVars, ghosts, env
<1>2. /\ DOMAIN upd' = DOMAIN upd /\ upd'.pc = "finish" /\ upd'.a = upd.a
      /\ upd'.session = upd.session /\ upd'.until = upd.until
      /\ upd'.gate = upd.gate
  BY <1>0 DEF CancelUpdate, UpdateEnds, IsUpdate
<1>3. Updated'
  BY <1>0, <1>1, <1>2 DEF Updated, Stored
<1>4. IsUpdate(upd') /\ UpdateWrites' = UpdateWrites
  BY <1>0, <1>2 DEF IsUpdate, UpdateWrites
<1> QED
  BY <1>0, <1>1, <1>2, <1>3, <1>4, UpdateMoves

\* The update takes the gate of its account, or ends.
LEMMA UpdateGateKeeps ==
    ASSUME IInv, UpdateGate
    PROVE  IInv'
<1>0. Shaped /\ Calling /\ Gated /\ Updated /\ Writing /\ Updating /\ upd.pc = "gate"
      /\ IsUpdate(upd) /\ upd.a \in Accounts /\ ~acc[upd.a].gate
  BY DEF IInv, Counted, Shaped, Updated, UpdateGate
<1>1. /\ storeVars' = storeVars /\ accounts' = accounts /\ req' = req /\ med' = med
      /\ clock' = clock /\ minted' = minted /\ rejected' = rejected
      /\ writes' = writes /\ updating' = updating /\ queued' = queued
      /\ table' = table /\ row' = row /\ pend' = pend /\ dirty' = dirty
  BY DEF UpdateGate, otherPool, storeVars, ghosts, env
<1>2. CASE acc' = acc /\ \E x \in {"duplicate", "stop"} : UpdateEnds(x)
  <2>1. PICK x \in {"duplicate", "stop"} : UpdateEnds(x)
    BY <1>2
  <2>2. /\ DOMAIN upd' = DOMAIN upd /\ upd'.pc = "finish" /\ upd'.a = upd.a
        /\ upd'.session = upd.session /\ upd'.until = upd.until
        /\ upd'.gate = upd.gate
    BY <1>0, <2>1 DEF UpdateEnds, IsUpdate
  <2>3. Updated'
    BY <1>0, <1>1, <1>2, <2>2 DEF Updated, Stored
  <2>4. IsUpdate(upd') /\ UpdateWrites' = UpdateWrites
    BY <1>0, <2>2 DEF IsUpdate, UpdateWrites
  <2> QED
    BY <1>0, <1>1, <1>2, <2>2, <2>3, <2>4, UpdateMoves
<1>3. CASE /\ acc' = [acc EXCEPT ![upd.a].gate = TRUE]
           /\ \E p \in {"verify", "setlogin"} : upd' = [upd EXCEPT !.pc = p, !.gate = TRUE]
  <2> DEFINE a == upd.a
  <2>1. PICK p \in {"verify", "setlogin"} : upd' = [upd EXCEPT !.pc = p, !.gate = TRUE]
    BY <1>3
  <2>2. /\ DOMAIN upd' = DOMAIN upd /\ upd'.pc = p /\ upd'.a = upd.a
        /\ upd'.session = upd.session /\ upd'.until = upd.until /\ upd'.gate = TRUE
    BY <1>0, <2>1 DEF IsUpdate
  <2>3. /\ DOMAIN acc' = Accounts /\ \A b \in Accounts : b # a => acc'[b] = acc[b]
        /\ DOMAIN acc'[a] = DOMAIN acc[a] /\ acc'[a].auth = acc[a].auth
        /\ acc'[a].disabled = acc[a].disabled /\ acc'[a].reason = acc[a].reason
        /\ acc'[a].cooldown = acc[a].cooldown /\ acc'[a].gate = TRUE
        /\ acc'[a].updating = acc[a].updating /\ acc'[a].busy = acc[a].busy
        /\ acc'[a].mediaBusy = acc[a].mediaBusy
        /\ acc'[a].refreshAfter = acc[a].refreshAfter
        /\ acc'[a].refreshErr = acc[a].refreshErr
    <3>1. acc' = [acc EXCEPT ![a].gate = TRUE] /\ a \in Accounts
      BY <1>0, <1>3
    <3> HIDE DEF a
    <3> QED
      BY <1>0, <3>1 DEF Shaped, IsAccount
  <2>4. SameAuth /\ SameHealth /\ SameFlag /\ SameLoad /\ SameDownloads
    BY <2>3 DEF SameAuth, SameHealth, SameFlag, SameLoad, SameDownloads
  <2>5. Shaped'
    <3>1. ASSUME NEW b \in Accounts PROVE IsAccount(acc'[b])
      <4>1. IsAccount(acc[b])
        BY <1>0 DEF Shaped
      <4>2. CASE b = a
        BY <4>1, <4>2, <2>3 DEF IsAccount
      <4> QED
        BY <4>1, <4>2, <2>3
    <3>2. IsUpdate(upd')
      BY <1>0, <2>2 DEF IsUpdate
    <3> QED
      BY <1>0, <1>1, <2>3, <3>1, <3>2, ShapedUpdate DEF Shaped
  <2>6. Gated'
    <3>1. \A s \in Details : req[s].pc \in GatePC => req[s].a \in Accounts /\ req[s].a # a
      BY <1>0, LeasedIsAccount DEF GatePC, LeasePC, Gated
    <3> QED
      BY <1>0, <1>1, <2>2, <2>3, <3>1 DEF Gated
  <2>7. Updated'
    BY <1>0, <1>1, <2>2, <2>3 DEF Updated, Stored
  <2>8. Writing' /\ Updating'
    BY <1>0, <1>1, <2>2, WritingFrame DEF UpdateWrites, Updating
  <2>9. Bears(upd'.session, upd'.a)
    BY <2>2 DEF Bears
  <2> QED
    BY <1>0, <1>1, <2>4, <2>5, <2>6, <2>7, <2>8, <2>9, UpdateCalm, SameTable
<1> QED
  BY <1>2, <1>3 DEF UpdateGate

\* The throttle is written, or at least pending.
LEMMA SettleCooldownKeeps ==
    ASSUME IInv, SettleCooldown
    PROVE  IInv'
<1>0. Shaped /\ Calling /\ Gated /\ Updated /\ Writing /\ Updating /\ upd.pc = "settle"
      /\ IsUpdate(upd)
  BY DEF IInv, Counted, Shaped, SettleCooldown
<1>1. /\ storeVars' = storeVars /\ accounts' = accounts /\ acc' = acc /\ req' = req
      /\ med' = med /\ clock' = clock /\ minted' = minted /\ rejected' = rejected
      /\ updating' = updating /\ queued' = queued /\ table' = table /\ row' = row
      /\ pend' = pend /\ dirty' = dirty
      /\ writes' = writes - 1
  BY DEF SettleCooldown, storeVars, ghosts, env
<1>2. /\ DOMAIN upd' = DOMAIN upd /\ upd'.pc = "finish" /\ upd'.a = upd.a
      /\ upd'.session = upd.session /\ upd'.until = upd.until
      /\ upd'.gate = upd.gate
  BY <1>0 DEF SettleCooldown, UpdateTo, IsUpdate
<1>3. Updated'
  BY <1>0, <1>1, <1>2 DEF Updated, Stored
<1>4. Writing' /\ Updating'
  <2> DEFINE S == {r \in Details : req[r].pc \in WritePC}
  <2>1. writes = Cardinality(S) + 1 /\ UpdateWrites' = 0 /\ Cardinality(S) \in Nat
    BY <1>0, <1>2, CountsAreNat DEF Writing, UpdateWrites
  <2>2. {r \in Details : req'[r].pc \in WritePC} = S
    BY <1>1
  <2>3. writes' = Cardinality(S) + UpdateWrites'
    <3> HIDE DEF S
    <3> QED
      BY <1>1, <2>1
  <2> QED
    BY <1>0, <1>1, <1>2, <2>2, <2>3 DEF Writing, Updating
<1>5. Shaped'
  <2>1. IsUpdate(upd')
    BY <1>0, <1>2 DEF IsUpdate
  <2> QED
    BY <1>0, <1>1, <2>1, ShapedUpdate DEF Shaped
<1>6. Gated'
  BY <1>0, <1>1, <1>2, GatedFrame, SameAccounts
<1>7. Bears(upd'.session, upd'.a)
  BY <1>2 DEF Bears
<1> QED
  BY <1>0, <1>1, <1>3, <1>4, <1>5, <1>6, <1>7, UpdateCalm, SameAccounts, SameTable

\* The deferred calls of updateExisting.
LEMMA FinishUpdateKeeps ==
    ASSUME IInv, FinishUpdate
    PROVE  IInv'
<1> DEFINE a == upd.a
           g == acc[a].gate /\ ~upd.gate
<1>0. Shaped /\ Calling /\ Gated /\ Updated /\ Writing /\ Updating /\ upd.pc = "finish"
      /\ IsUpdate(upd) /\ a \in Accounts
  BY DEF IInv, Counted, Shaped, Updated, FinishUpdate
<1>1. /\ storeVars' = storeVars /\ accounts' = accounts /\ req' = req /\ med' = med
      /\ clock' = clock /\ minted' = minted /\ rejected' = rejected
      /\ writes' = writes /\ queued' = queued /\ table' = table /\ row' = row
      /\ pend' = pend /\ dirty' = dirty
      /\ updating' = updating - 1 /\ upd' = NoUpdate
  BY DEF FinishUpdate, storeVars, ghosts, env
<1>2. /\ DOMAIN acc' = Accounts /\ \A b \in Accounts : b # a => acc'[b] = acc[b]
      /\ DOMAIN acc'[a] = DOMAIN acc[a] /\ acc'[a].auth = acc[a].auth
      /\ acc'[a].disabled = acc[a].disabled /\ acc'[a].reason = acc[a].reason
      /\ acc'[a].cooldown = acc[a].cooldown /\ acc'[a].gate = g
      /\ acc'[a].updating = FALSE /\ acc'[a].busy = acc[a].busy
      /\ acc'[a].mediaBusy = acc[a].mediaBusy
      /\ acc'[a].refreshAfter = acc[a].refreshAfter
      /\ acc'[a].refreshErr = acc[a].refreshErr
  <2>1. acc' = [acc EXCEPT ![a].updating = FALSE, ![a].gate = g]
    BY <1>0 DEF FinishUpdate, Shaped, IsAccount
  <2> HIDE DEF a, g
  <2> QED
    BY <1>0, <2>1 DEF Shaped, IsAccount
<1>3. SameAuth /\ SameHealth /\ SameLoad /\ SameDownloads
  BY <1>2 DEF SameAuth, SameHealth, SameLoad, SameDownloads
<1>4. Shaped'
  <2>0. g \in BOOLEAN
    OBVIOUS
  <2>1. ASSUME NEW b \in Accounts PROVE IsAccount(acc'[b])
    <3>1. IsAccount(acc[b])
      BY <1>0 DEF Shaped
    <3> HIDE DEF g
    <3>2. CASE b = a
      BY <3>1, <3>2, <1>2, <2>0 DEF IsAccount
    <3> QED
      BY <3>1, <3>2, <1>2
  <2> QED
    BY <1>0, <1>1, <1>2, <2>1, NoUpdateFx, ShapedUpdate DEF Shaped
<1>5. Gated'
  <2>1. \A s \in Details : req[s].pc \in GatePC => req[s].a \in Accounts
    BY <1>0, LeasedIsAccount DEF GatePC, LeasePC
  <2> QED
    BY <1>0, <1>1, <1>2, <2>1, NoUpdateFx DEF Gated
<1>6. Updated'
  BY <1>1, NoUpdateFx DEF Updated
<1>7. Writing' /\ Updating'
  BY <1>0, <1>1, NoUpdateFx, WritingFrame DEF UpdateWrites, Updating
<1>8. upd'.a \in Accounts => Bears(upd'.session, upd'.a)
  BY <1>1, NoUpdateFx, ConstantFacts
<1> QED
  BY <1>0, <1>1, <1>3, <1>4, <1>5, <1>6, <1>7, <1>8, UpdateCalm, SameTable

\* What may change of an account that has no leases: the session, the health and
\* the row of the updated account.  Everybody else is left alone.
LEMMA UpdateAlone ==
    ASSUME IInv, NEW a \in Accounts, \A r \in Details : req[r].a # a,
           \A b \in Accounts : b # a => acc'[b] = acc[b] /\ row'[b] = row[b]
                                        /\ pend'[b] = pend[b],
           table' = table, req' = req, upd.a = a, upd'.a = a,
           \A b \in Accounts : b # a =>
               ((acc[b].auth \in rejected) <=> (acc[b].auth \in rejected')),
           \A r \in Details : (req[r].a \in Accounts /\ req[r].auth \in rejected) =>
               req[r].auth \in rejected',
           NoSession \in rejected',
           ~dirty' => \A b \in Accounts : pend'[b] = NoHealth,
           a \in Stored => HealthOf(a)'
    PROVE  Calling' /\ Healthy'
<1>0. Shaped /\ Calling /\ Healthy
  BY DEF IInv
<1>1. Calling'
  <2>1. ASSUME NEW s \in Details PROVE CallOK(s)'
    <3>1. CallOK(s) /\ req'[s] = req[s] /\ req[s].a # a
      BY <1>0 DEF Calling
    <3>2. req[s].pc \in LeasePC => req[s].a \in Accounts
      BY <1>0, LeasedIsAccount
    <3>3. req[s].a \in Stored => req[s].a \in Accounts
      BY <1>0 DEF Shaped
    <3> QED
      BY <3>1, <3>2, <3>3, OtherCall DEF LeasePC
  <2> QED
    BY <2>1 DEF Calling
<1>2. ASSUME NEW b \in Stored PROVE HealthOf(b)'
  <2>1. b \in Accounts /\ HealthOf(b)
    BY <1>0 DEF Shaped, Healthy
  <2>2. CASE b # a
    <3>1. \A s \in Details : Marks(s, b) =>
               /\ req'[s].pc = "mark" /\ req'[s].a = b
               /\ req'[s].out.reason = req[s].out.reason /\ req'[s].until = req[s].until
      BY DEF Marks
    <3> QED
      BY <2>1, <2>2, <3>1, HealthFrame
  <2> QED
    BY <2>1, <2>2
<1> QED
  BY <1>0, <1>1, <1>2 DEF Healthy, Stored

\* The credentials are accepted: the session is the one in use, or a new one.  No
\* call of Detail can hold either of them.
LEMMA VerifiedKeeps ==
    ASSUME IInv, Verified
    PROVE  IInv'
<1> DEFINE a == upd.a
<1>0. /\ Shaped /\ Calling /\ Gated /\ Updated /\ Owned /\ Saved /\ Healthy
      /\ Leasing /\ Downloading /\ Queueing /\ Writing /\ Updating
      /\ upd.pc = "verify" /\ IsUpdate(upd) /\ a \in Accounts /\ a \in Stored
  BY DEF IInv, Counted, Shaped, Updated, Verified
<1>1. /\ storeVars' = storeVars /\ accounts' = accounts /\ acc' = acc /\ req' = req
      /\ med' = med /\ clock' = clock /\ writes' = writes /\ updating' = updating
      /\ queued' = queued /\ table' = table /\ row' = row /\ pend' = pend
      /\ dirty' = dirty
  BY DEF Verified, poolVars, storeVars, env
<1>2. PICK s \in Sessions :
         /\ \/ s = acc[a].auth /\ s # NoSession
            \/ s = minted + 1
         /\ minted' = Later(minted, s)
         /\ rejected' = rejected \ {s}
         /\ upd' = [upd EXCEPT !.pc = "replace", !.session = s]
  BY DEF Verified
<1>3. /\ DOMAIN upd' = DOMAIN upd /\ upd'.pc = "replace" /\ upd'.a = upd.a
      /\ upd'.session = s /\ upd'.until = upd.until /\ upd'.gate = upd.gate
  BY <1>0, <1>2 DEF IsUpdate
<1>4. s \in Nat /\ minted \in Nat /\ s # NoSession /\ acc[a].auth \in Nat
  BY <1>0, <1>2, ConstantFacts DEF Sessions, NoSession, Shaped, IsAccount
<1>5. \A r \in Details : req[r].a # a
  BY <1>0 DEF Updated
<1>6. ASSUME NEW b \in Accounts, Bears(s, b) PROVE b = a /\ s <= minted
  <2>1. s <= minted
    BY <1>0, <1>4, <1>6, OwnersDiffer
  <2>2. s = acc[a].auth
    BY <1>2, <1>4, <2>1
  <2>3. Bears(s, a)
    BY <2>2 DEF Bears
  <2> QED
    BY <1>0, <1>4, <1>6, <2>1, <2>3, OwnersDiffer
<1>7. (s = minted + 1 /\ minted' = minted + 1) \/ (Bears(s, a) /\ minted' = minted)
  <2>1. CASE s = minted + 1
    BY <2>1, <1>2, <1>4 DEF Later
  <2>2. CASE s = acc[a].auth
    <3>1. Bears(s, a)
      BY <2>2 DEF Bears
    <3>2. s <= minted
      BY <1>0, <1>6, <3>1
    <3> QED
      BY <1>2, <1>4, <3>1, <3>2 DEF Later
  <2> QED
    BY <1>2, <2>1, <2>2
<1>8. acc[a].auth <= s
  <2>1. acc[a].auth # NoSession => acc[a].auth <= minted
    <3>1. Bears(acc[a].auth, a)
      BY DEF Bears
    <3> QED
      BY <1>0, <1>4, <3>1, OwnersDiffer
  <2> QED
    BY <1>2, <1>4, <2>1 DEF NoSession
<1>9. Shaped'
  <2>1. IsUpdate(upd')
    BY <1>0, <1>3, <1>4 DEF IsUpdate
  <2>2. minted' \in Nat
    BY <1>4, <1>7
  <2> QED
    BY <1>0, <1>1, <2>1, <2>2, ShapedUpdate DEF Shaped
<1>10. Updated'
  BY <1>0, <1>1, <1>2, <1>3, <1>8 DEF Updated, Stored
<1>11. Gated'
  BY <1>0, <1>1, <1>3, GatedFrame, SameAccounts
<1>12. Owned'
  <2>1. \A b \in Accounts : Moves(acc'[b].auth, b, a) /\ Moves(row'[b].auth, b, a)
    BY <1>1 DEF Moves, Bears
  <2>2. \A t \in Details : req'[t].a \in Accounts =>
            Moves(req'[t].auth, req'[t].a, a) /\ Moves(req'[t].session, req'[t].a, a)
    BY <1>1 DEF Moves, Bears
  <2>3. Moves(upd'.session, upd'.a, a)
    BY <1>3, <1>7 DEF Moves
  <2>4. minted' \in Nat /\ minted <= minted'
    BY <1>4, <1>7
  <2> HIDE DEF a
  <2> QED
    BY <1>0, <2>1, <2>2, <2>3, <2>4, OwnedFrame
<1>13. Saved'
  BY <1>0, <1>1, SavedFrame, SameAccounts, SameTable
<1>14. Calling' /\ Healthy'
  <2>1. ASSUME NEW b \in Accounts, b # a
        PROVE  (acc[b].auth \in rejected) <=> (acc[b].auth \in rejected')
    <3>1. acc[b].auth # s
      <4>1. acc[b].auth = s => Bears(s, b)
        BY DEF Bears
      <4> QED
        BY <1>6, <2>1, <4>1
    <3> QED
      BY <1>2, <3>1
  <2>2. ASSUME NEW r \in Details, req[r].a \in Accounts, req[r].auth \in rejected
        PROVE  req[r].auth \in rejected'
    <3>1. req[r].auth # s
      <4>1. req[r].auth = s => Bears(s, req[r].a)
        BY DEF Bears
      <4> QED
        BY <1>5, <1>6, <2>2, <4>1
    <3> QED
      BY <1>2, <2>2, <3>1
  <2>3. NoSession \in rejected' /\ (~dirty' => \A b \in Accounts : pend'[b] = NoHealth)
    BY <1>0, <1>1, <1>2, <1>4 DEF Healthy
  <2>4. ASSUME NEW b \in Stored, b = a PROVE HealthOf(b)'
    <3>1. b \in Accounts /\ HealthOf(b)
      BY <1>0, <2>4 DEF Healthy
    <3>2. \A t \in Details : Marks(t, b) =>
               /\ req'[t].pc = "mark" /\ req'[t].a = b
               /\ req'[t].out.reason = req[t].out.reason /\ req'[t].until = req[t].until
      BY <1>1 DEF Marks
    <3>3. \A t \in Details : req'[t].a # b
      BY <1>1, <1>5, <2>4
    <3>4. upd.pc # "mark"
      BY <1>0
    <3> QED
      BY <1>1, <1>2, <3>1, <3>2, <3>3, <3>4, HealthFrame
  <2>5. PICK x \in Accounts : x = a /\ x \in Stored
    BY <1>0
  <2>6. x \in Stored => HealthOf(x)'
    BY <2>4, <2>5
  <2>7. /\ upd.a = x /\ upd'.a = x /\ \A r \in Details : req[r].a # x
        /\ \A b \in Accounts : b # x =>
               ((acc[b].auth \in rejected) <=> (acc[b].auth \in rejected'))
    BY <1>3, <1>5, <2>1, <2>5
  <2> QED
    BY <1>1, <2>2, <2>3, <2>5, <2>6, <2>7, UpdateAlone
<1>15. Leasing' /\ Downloading' /\ Queueing' /\ Writing' /\ Updating'
  BY <1>0, <1>1, <1>3, LeasingFrame, DownloadingFrame, QueueingFrame, WritingFrame,
     SameAccounts DEF UpdateWrites, Updating
<1> QED
  BY <1>9, <1>10, <1>11, <1>12, <1>13, <1>14, <1>15, Together

\* The credentials are not accepted; a throttle holds for the account.
LEMMA NotVerifiedKeeps ==
    ASSUME IInv, NotVerified
    PROVE  IInv'
<1>0. /\ Shaped /\ Calling /\ Gated /\ Updated /\ Owned /\ Saved /\ Healthy
      /\ Leasing /\ Downloading /\ Queueing /\ Writing /\ Updating
      /\ upd.pc = "verify" /\ IsUpdate(upd) /\ upd.a \in Accounts /\ upd.a \in Stored
  BY DEF IInv, Counted, Shaped, Updated, NotVerified
<1>1. /\ storeVars' = storeVars /\ accounts' = accounts /\ req' = req /\ med' = med
      /\ clock' = clock /\ minted' = minted /\ rejected' = rejected
      /\ updating' = updating /\ queued' = queued /\ table' = table /\ row' = row
      /\ pend' = pend /\ dirty' = dirty
  BY DEF NotVerified, storeVars, ghosts, env
<1>2. CASE (\E x \in {"failed", "stop"} : UpdateEnds(x)) /\ UNCHANGED <<acc, writes>>
  <2>1. PICK x \in {"failed", "stop"} : UpdateEnds(x)
    BY <1>2
  <2>2. /\ DOMAIN upd' = DOMAIN upd /\ upd'.pc = "finish" /\ upd'.a = upd.a
        /\ upd'.session = upd.session /\ upd'.until = upd.until
        /\ upd'.gate = upd.gate
    BY <1>0, <2>1 DEF UpdateEnds, IsUpdate
  <2>3. Updated'
    BY <1>0, <1>1, <1>2, <2>2 DEF Updated, Stored
  <2>4. IsUpdate(upd') /\ UpdateWrites' = UpdateWrites
    BY <1>0, <2>2 DEF IsUpdate, UpdateWrites
  <2> QED
    BY <1>0, <1>1, <1>2, <2>2, <2>3, <2>4, UpdateMoves
<1>3. CASE \E d \in 1..MaxDelay :
            LET until == Later(acc[upd.a].cooldown, clock + d) IN
            /\ acc' = [acc EXCEPT ![upd.a].cooldown = until]
            /\ upd' = [upd EXCEPT !.pc = "mark", !.until = until]
            /\ writes' = writes + 1
  <2>0. PICK a \in Accounts : a = upd.a /\ a \in Stored
    BY <1>0
  <2>1. PICK d \in 1..MaxDelay :
            /\ acc' = [acc EXCEPT ![a].cooldown = Later(acc[a].cooldown, clock + d)]
            /\ upd' = [upd EXCEPT !.pc = "mark", !.until = Later(acc[a].cooldown, clock + d)]
            /\ writes' = writes + 1
    BY <1>3, <2>0
  <2> DEFINE u == Later(acc[a].cooldown, clock + d)
  <2>2. u \in Nat
    <3>1. acc[a].cooldown \in Nat /\ clock \in Nat
      BY <1>0 DEF Shaped, IsAccount
    <3>2. d \in Nat
      BY ConstantFacts
    <3> QED
      BY <3>1, <3>2 DEF Later
  <2>3. /\ acc' = [acc EXCEPT ![a].cooldown = u]
        /\ upd' = [upd EXCEPT !.pc = "mark", !.until = u]
    BY <2>1
  <2> HIDE DEF u
  <2>4. /\ DOMAIN upd' = DOMAIN upd /\ upd'.pc = "mark" /\ upd'.a = upd.a
        /\ upd'.session = upd.session /\ upd'.until = u /\ upd'.gate = upd.gate
    BY <1>0, <2>3 DEF IsUpdate
  <2>5. /\ DOMAIN acc' = Accounts /\ \A b \in Accounts : b # a => acc'[b] = acc[b]
        /\ DOMAIN acc'[a] = DOMAIN acc[a] /\ acc'[a].auth = acc[a].auth
        /\ acc'[a].disabled = acc[a].disabled /\ acc'[a].reason = acc[a].reason
        /\ acc'[a].cooldown = u /\ acc'[a].gate = acc[a].gate
        /\ acc'[a].updating = acc[a].updating /\ acc'[a].busy = acc[a].busy
        /\ acc'[a].mediaBusy = acc[a].mediaBusy
        /\ acc'[a].refreshAfter = acc[a].refreshAfter
        /\ acc'[a].refreshErr = acc[a].refreshErr
    BY <1>0, <2>3 DEF Shaped, IsAccount
  <2>6. SameAuth /\ SameGate /\ SameFlag /\ SameLoad /\ SameDownloads
    BY <2>5 DEF SameAuth, SameGate, SameFlag, SameLoad, SameDownloads
  <2>7. Shaped'
    <3>1. ASSUME NEW b \in Accounts PROVE IsAccount(acc'[b])
      <4>1. IsAccount(acc[b])
        BY <1>0 DEF Shaped
      <4>2. CASE b = a
        BY <4>1, <4>2, <2>2, <2>5 DEF IsAccount
      <4> QED
        BY <4>1, <4>2, <2>5
    <3>2. IsUpdate(upd')
      BY <1>0, <2>2, <2>4 DEF IsUpdate
    <3> QED
      BY <1>0, <1>1, <2>5, <3>1, <3>2, ShapedUpdate DEF Shaped
  <2>8. \A r \in Details : req[r].a # a
    BY <1>0, <2>0 DEF Updated
  <2>9. Calling' /\ Healthy'
    <3>1. HealthOf(a)
      BY <1>0, <2>0 DEF Healthy
    <3>2. ~Marked(a)
      BY <2>8 DEF Marked, Marks
    <3>3. Dead(a)' => Dead(a)
      BY <1>1, <2>5 DEF Dead
    <3>4. /\ row'[a].dead => acc'[a].disabled
          /\ pend'[a].reason # "none" =>
               acc'[a].disabled /\ pend'[a].reason = acc'[a].reason
          /\ Dead(a)' => \/ pend'[a].reason # "none"
                         \/ row'[a].dead /\ row'[a].reason = acc'[a].reason
      BY <1>1, <2>5, <3>1, <3>2, <3>3 DEF HealthOf
    <3>5. upd'.pc = "mark" /\ upd'.a = a /\ acc'[a].cooldown <= upd'.until
      BY <2>0, <2>2, <2>4, <2>5
    <3>6. \A r \in Details : req'[r].a # a
      BY <1>1, <2>8
    <3>7. HealthOf(a)'
      BY <3>4, <3>5, <3>6 DEF HealthOf
    <3>8. NoSession \in rejected' /\ (~dirty' => \A b \in Accounts : pend'[b] = NoHealth)
      BY <1>0, <1>1 DEF Healthy
    <3>9. upd.a = a /\ upd'.a = a
      BY <2>0, <2>4
    <3> QED
      BY <1>1, <2>5, <2>8, <3>7, <3>8, <3>9, UpdateAlone
  <2>10. Updated'
    BY <1>0, <1>1, <2>0, <2>4, <2>5 DEF Updated, Stored
  <2>11. Gated'
    BY <1>0, <1>1, <2>4, <2>6, GatedFrame
  <2>12. Owned'
    <3>1. \A b \in Accounts : Moves(acc'[b].auth, b, None) /\ Moves(row'[b].auth, b, None)
      BY <1>1, <2>6 DEF SameAuth, Moves, Bears
    <3>2. \A s \in Details : req'[s].a \in Accounts =>
              Moves(req'[s].auth, req'[s].a, None) /\ Moves(req'[s].session, req'[s].a, None)
      BY <1>1 DEF Moves, Bears
    <3>3. upd'.a \in Accounts => Moves(upd'.session, upd'.a, None)
      BY <2>4 DEF Moves, Bears
    <3>4. minted' \in Nat /\ minted <= minted' /\ None \in Accounts \cup {None}
      BY <1>0, <1>1 DEF Shaped
    <3> QED
      BY <1>0, <3>1, <3>2, <3>3, <3>4, OwnedFrame
  <2>13. Saved'
    BY <1>0, <1>1, <2>6, SavedFrame, SameTable
  <2>14. Writing'
    <3> DEFINE S == {r \in Details : req[r].pc \in WritePC}
    <3>1. writes = Cardinality(S) /\ UpdateWrites' = 1 /\ Cardinality(S) \in Nat
      BY <1>0, <2>4, CountsAreNat DEF Writing, UpdateWrites
    <3>2. {r \in Details : req'[r].pc \in WritePC} = S
      BY <1>1
    <3>3. writes' = Cardinality(S) + UpdateWrites'
      <4> HIDE DEF S
      <4> QED
        BY <2>1, <3>1
    <3> QED
      BY <3>2, <3>3 DEF Writing
  <2>15. Leasing' /\ Downloading' /\ Queueing' /\ Updating'
    BY <1>0, <1>1, <2>4, <2>6, LeasingFrame, DownloadingFrame, QueueingFrame DEF Updating
  <2> QED
    BY <2>7, <2>9, <2>10, <2>11, <2>12, <2>13, <2>14, <2>15, Together
<1> QED
  BY <1>2, <1>3 DEF NotVerified

\* The throttle is handed to the store.
LEMMA MarkCooldownKeeps ==
    ASSUME IInv, MarkCooldown
    PROVE  IInv'
<1>0. /\ Shaped /\ Calling /\ Gated /\ Updated /\ Owned /\ Saved /\ Healthy
      /\ Leasing /\ Downloading /\ Queueing /\ Writing /\ Updating
      /\ upd.pc = "mark" /\ IsUpdate(upd) /\ upd.a \in Accounts /\ upd.a \in Stored
  BY DEF IInv, Counted, Shaped, Updated, MarkCooldown
<1>1. /\ accounts' = accounts /\ acc' = acc /\ req' = req /\ med' = med
      /\ clock' = clock /\ minted' = minted /\ rejected' = rejected
      /\ writes' = writes /\ updating' = updating /\ queued' = queued
  BY DEF MarkCooldown, poolVars, ghosts, env
<1>2. /\ DOMAIN upd' = DOMAIN upd /\ upd'.pc = "flushHealth" /\ upd'.a = upd.a
      /\ upd'.session = upd.session /\ upd'.until = upd.until
      /\ upd'.gate = upd.gate
  BY <1>0 DEF MarkCooldown, UpdateTo, IsUpdate
<1>3. PICK a \in Accounts : a = upd.a /\ a \in Stored
  BY <1>0
<1>4. PICK u \in Nat : u = upd.until
  BY <1>0 DEF IsUpdate
<1>5. MarkHealth(a, "none", u)
  BY <1>3, <1>4 DEF MarkCooldown
<1>6. /\ DOMAIN pend' = Accounts /\ \A b \in Accounts : IsHealth(pend'[b])
      /\ \A b \in Accounts : b # a => pend'[b] = pend[b]
      /\ pend'[a].reason = pend[a].reason
      /\ pend[a].until <= pend'[a].until /\ u <= pend'[a].until
      /\ dirty' = TRUE /\ row' = row /\ table' = table
  BY <1>0, <1>5, MarkHealthFx
<1>7. Shaped'
  <2>1. IsUpdate(upd')
    BY <1>0, <1>2 DEF IsUpdate
  <2> QED
    BY <1>0, <1>1, <1>6, <2>1 DEF Shaped, Stored
<1>8. \A r \in Details : req[r].a # a
  BY <1>0, <1>3 DEF Updated
<1>9. Calling' /\ Healthy'
  <2>1. HealthOf(a)
    BY <1>0, <1>3 DEF Healthy
  <2>2. ~Marked(a) /\ \A r \in Details : ~Marks(r, a)
    BY <1>8 DEF Marked, Marks
  <2>3. Dead(a)' => Dead(a)
    BY <1>1, <1>6 DEF Dead
  <2>4. /\ row'[a].dead => acc'[a].disabled
        /\ pend'[a].reason # "none" =>
             acc'[a].disabled /\ pend'[a].reason = acc'[a].reason
        /\ Dead(a)' => \/ pend'[a].reason # "none"
                       \/ row'[a].dead /\ row'[a].reason = acc'[a].reason
    BY <1>1, <1>6, <2>1, <2>2, <2>3 DEF HealthOf
  <2>5. acc'[a].cooldown <= row'[a].until \/ acc'[a].cooldown <= pend'[a].until
    <3>1. \/ acc[a].cooldown <= row[a].until
          \/ acc[a].cooldown <= pend[a].until
          \/ acc[a].cooldown <= u
      BY <1>4, <2>1, <2>2 DEF HealthOf
    <3>2. acc[a].cooldown \in Nat /\ pend[a].until \in Nat /\ pend'[a].until \in Nat
      BY <1>0, <1>6 DEF Shaped, IsAccount, IsHealth
    <3> QED
      BY <1>1, <1>6, <3>1, <3>2
  <2>6. \A r \in Details : req'[r].a # a
    BY <1>1, <1>8
  <2>7. HealthOf(a)'
    BY <2>4, <2>5, <2>6 DEF HealthOf
  <2>8. NoSession \in rejected' /\ (~dirty' => \A b \in Accounts : pend'[b] = NoHealth)
    BY <1>0, <1>1, <1>6 DEF Healthy
  <2>9. upd.a = a /\ upd'.a = a
    BY <1>2, <1>3
  <2> QED
    BY <1>1, <1>6, <1>8, <2>7, <2>8, <2>9, UpdateAlone
<1>10. Updated'
  BY <1>0, <1>1, <1>2, <1>3, <1>6 DEF Updated, Stored
<1>11. Gated'
  BY <1>0, <1>1, <1>2, GatedFrame, SameAccounts
<1>12. Owned'
  <2>1. \A b \in Accounts : Moves(acc'[b].auth, b, None) /\ Moves(row'[b].auth, b, None)
    BY <1>1, <1>6 DEF Moves, Bears
  <2>2. \A s \in Details : req'[s].a \in Accounts =>
            Moves(req'[s].auth, req'[s].a, None) /\ Moves(req'[s].session, req'[s].a, None)
    BY <1>1 DEF Moves, Bears
  <2>3. upd'.a \in Accounts => Moves(upd'.session, upd'.a, None)
    BY <1>2 DEF Moves, Bears
  <2>4. minted' \in Nat /\ minted <= minted' /\ None \in Accounts \cup {None}
    BY <1>0, <1>1 DEF Shaped
  <2> QED
    BY <1>0, <2>1, <2>2, <2>3, <2>4, OwnedFrame
<1>13. Saved'
  BY <1>0, <1>1, <1>6, SavedFrame, SameAccounts, SameTable
<1>14. Leasing' /\ Downloading' /\ Queueing' /\ Writing' /\ Updating'
  BY <1>0, <1>1, <1>2, LeasingFrame, DownloadingFrame, QueueingFrame, WritingFrame,
     SameAccounts DEF UpdateWrites, Updating
<1> QED
  BY <1>7, <1>9, <1>10, <1>11, <1>12, <1>13, <1>14, Together

\* What ReplaceSession does to the rows.
LEMMA ReplaceSessionFx ==
    ASSUME Shaped, NEW a \in Accounts, NEW session \in Nat, NEW backup, NEW o, Commits(o),
           ReplaceSession(a, session, backup, o)
    PROVE  /\ DOMAIN row' = Accounts /\ \A b \in Accounts : IsRow(row'[b])
           /\ \A b \in Accounts : b # a => row'[b] = row[b]
           /\ row'[a].auth = session /\ row'[a].ctx = session
           /\ row'[a].dead = FALSE /\ row'[a].until = row[a].until
<1>0. DOMAIN row = Accounts /\ IsRow(row[a])
  BY DEF Shaped
<1> DEFINE l == row[a].login \/ backup
<1>1. row' = [row EXCEPT ![a].auth = session, ![a].ctx = session, ![a].login = l,
                         ![a].dead = FALSE, ![a].reason = "none"]
  BY <1>0 DEF ReplaceSession, IsRow
<1> HIDE DEF l
<1>2. /\ DOMAIN row' = Accounts /\ DOMAIN row'[a] = DOMAIN row[a]
      /\ \A b \in Accounts : b # a => row'[b] = row[b]
      /\ row'[a].auth = session /\ row'[a].ctx = session
      /\ row'[a].dead = FALSE /\ row'[a].until = row[a].until
  BY <1>0, <1>1 DEF IsRow
<1>3. IsRow(row'[a])
  BY <1>0, <1>2 DEF IsRow
<1> QED
  BY <1>2, <1>3 DEF Shaped

\* The verified session is committed, whether or not it is confirmed: the row is
\* alive, and nothing pending can bury it again.
LEMMA ReplaceKeeps ==
    ASSUME IInv, Replace
    PROVE  IInv'
<1>0. /\ Shaped /\ Calling /\ Gated /\ Updated /\ Owned /\ Saved /\ Healthy
      /\ Leasing /\ Downloading /\ Queueing /\ Writing /\ Updating
      /\ upd.pc = "replace" /\ IsUpdate(upd) /\ upd.a \in Accounts /\ upd.a \in Stored
  BY DEF IInv, Counted, Shaped, Updated, Replace
<1>1. /\ accounts' = accounts /\ acc' = acc /\ req' = req /\ med' = med
      /\ clock' = clock /\ minted' = minted /\ rejected' = rejected
      /\ writes' = writes /\ updating' = updating /\ queued' = queued
  BY DEF Replace, poolVars, ghosts, env
<1>2. PICK a \in Accounts : a = upd.a /\ a \in Stored
  BY <1>0
<1>3. PICK n \in Nat : n = upd.session
  BY <1>0 DEF IsUpdate
<1>4. PICK o \in Outcomes :
          /\ ReplaceSession(a, n, upd.backup, o)
          /\ IF Confirmed(o) THEN UpdateTo("publish") ELSE UpdateEnds("db")
  BY <1>2, <1>3 DEF Replace
<1>5. /\ DOMAIN upd' = DOMAIN upd
      /\ upd'.pc = (IF Confirmed(o) THEN "publish" ELSE "finish") /\ upd'.a = upd.a
      /\ upd'.session = upd.session /\ upd'.until = upd.until
      /\ upd'.gate = upd.gate
  BY <1>0, <1>4 DEF UpdateTo, UpdateEnds, IsUpdate
<1>6. table' = table /\ pend' = pend /\ dirty' = dirty
  BY <1>4 DEF ReplaceSession
<1>7. IsUpdate(upd') /\ UpdateWrites' = UpdateWrites
  BY <1>0, <1>5 DEF IsUpdate, UpdateWrites
<1>8. CASE ~Commits(o)
  <2>1. row' = row /\ ~Confirmed(o)
    BY <1>4, <1>8 DEF ReplaceSession, Commits, Confirmed
  <2>2. Updated'
    BY <1>0, <1>1, <1>5, <1>6, <2>1 DEF Updated, Stored
  <2>3. Shaped'
    BY <1>0, <1>1, <1>6, <1>7, <2>1 DEF Shaped, Stored
  <2>4. Gated'
    BY <1>0, <1>1, <1>5, GatedFrame, SameAccounts
  <2>5. Writing' /\ Updating'
    BY <1>0, <1>1, <1>5, <1>7, WritingFrame DEF Updating
  <2>6. Bears(upd'.session, upd'.a)
    BY <1>5 DEF Bears
  <2> QED
    BY <1>0, <1>1, <1>6, <2>1, <2>2, <2>3, <2>4, <2>5, <2>6, UpdateCalm, SameAccounts,
       SameTable
<1>9. CASE Commits(o)
  <2>1. /\ DOMAIN row' = Accounts /\ \A b \in Accounts : IsRow(row'[b])
        /\ \A b \in Accounts : b # a => row'[b] = row[b]
        /\ row'[a].auth = n /\ row'[a].ctx = n
        /\ row'[a].dead = FALSE /\ row'[a].until = row[a].until
    <3> DEFINE y == upd.backup
    <3>1. ReplaceSession(a, n, y, o)
      BY <1>4
    <3> HIDE DEF y
    <3> QED
      BY <1>0, <1>9, <3>1, ReplaceSessionFx
  <2>2. n \notin rejected /\ n # NoSession /\ acc[a].auth <= n /\ pend[a].reason = "none"
        /\ \A r \in Details : req[r].a # a
    BY <1>0, <1>2, <1>3 DEF Updated, Healthy
  <2>3. Shaped'
    BY <1>0, <1>1, <1>6, <1>7, <2>1 DEF Shaped, Stored
  <2>4. Updated'
    BY <1>0, <1>1, <1>2, <1>3, <1>5, <1>6, <2>1 DEF Updated, Stored
  <2>5. Gated'
    BY <1>0, <1>1, <1>5, GatedFrame, SameAccounts
  <2>6. Owned'
    <3>1. Bears(n, a)
      BY <1>2, <1>3 DEF Bears
    <3>2. ASSUME NEW b \in Accounts
          PROVE Moves(acc'[b].auth, b, None) /\ Moves(row'[b].auth, b, None)
      <4>1. Bears(acc'[b].auth, b) /\ Bears(row[b].auth, b)
        BY <1>1 DEF Bears
      <4> QED
        BY <2>1, <3>1, <4>1 DEF Moves
    <3>3. \A s \in Details : req'[s].a \in Accounts =>
              Moves(req'[s].auth, req'[s].a, None) /\ Moves(req'[s].session, req'[s].a, None)
      BY <1>1 DEF Moves, Bears
    <3>4. upd'.a \in Accounts => Moves(upd'.session, upd'.a, None)
      BY <1>5 DEF Moves, Bears
    <3>5. minted' \in Nat /\ minted <= minted' /\ None \in Accounts \cup {None}
      BY <1>0, <1>1 DEF Shaped
    <3> QED
      BY <1>0, <3>2, <3>3, <3>4, <3>5, OwnedFrame
  <2>7. Saved'
    <3>1. ASSUME NEW b \in Accounts
          PROVE  /\ row'[b].ctx = row'[b].auth
                 /\ b \in Stored => row'[b].auth > 0 /\ acc'[b].auth <= row'[b].auth
      <4>1. CASE b = a
        BY <4>1, <1>1, <2>1, <2>2 DEF NoSession
      <4>2. CASE b # a
        BY <4>2, <1>0, <1>1, <2>1 DEF Saved
      <4> QED
        BY <4>1, <4>2
    <3> QED
      BY <1>6, <3>1 DEF Saved, Stored
  <2>8. Calling' /\ Healthy'
    <3>1. HealthOf(a)
      BY <1>0, <1>2 DEF Healthy
    <3>2. ~Dead(a)'
      BY <1>1, <2>1, <2>2 DEF Dead
    <3>3. pend'[a].reason = "none" /\ ~row'[a].dead
      BY <1>6, <2>1, <2>2
    <3>4. \A r \in Details : ~Marks(r, a)
      BY <2>2 DEF Marks
    <3>5. acc'[a].cooldown <= row'[a].until \/ acc'[a].cooldown <= pend'[a].until
      BY <1>0, <1>1, <1>6, <2>1, <3>1, <3>4 DEF HealthOf
    <3>6. \A r \in Details : req'[r].a # a
      BY <1>1, <2>2
    <3>7. HealthOf(a)'
      BY <3>2, <3>3, <3>5, <3>6 DEF HealthOf
    <3>8. NoSession \in rejected' /\ (~dirty' => \A b \in Accounts : pend'[b] = NoHealth)
      BY <1>0, <1>1, <1>6 DEF Healthy
    <3>9. upd.a = a /\ upd'.a = a
      BY <1>2, <1>5
    <3> QED
      BY <1>1, <1>6, <2>1, <2>2, <3>7, <3>8, <3>9, UpdateAlone
  <2>9. Leasing' /\ Downloading' /\ Queueing' /\ Writing' /\ Updating'
    BY <1>0, <1>1, <1>5, <1>7, LeasingFrame, DownloadingFrame, QueueingFrame, WritingFrame,
       SameAccounts DEF Updating
  <2> QED
    BY <2>3, <2>4, <2>5, <2>6, <2>7, <2>8, <2>9, Together
<1> QED
  BY <1>8, <1>9

\* The committed session revives the account in the pool.
LEMMA PublishUpdateKeeps ==
    ASSUME IInv, PublishUpdate
    PROVE  IInv'
<1>0. /\ Shaped /\ Calling /\ Gated /\ Updated /\ Owned /\ Saved /\ Healthy
      /\ Leasing /\ Downloading /\ Queueing /\ Writing /\ Updating
      /\ upd.pc = "publish" /\ IsUpdate(upd) /\ upd.a \in Accounts /\ upd.a \in Stored
  BY DEF IInv, Counted, Shaped, Updated, PublishUpdate
<1>1. /\ storeVars' = storeVars /\ accounts' = accounts /\ req' = req /\ med' = med
      /\ clock' = clock /\ minted' = minted /\ rejected' = rejected
      /\ writes' = writes /\ updating' = updating /\ queued' = queued
      /\ table' = table /\ row' = row /\ pend' = pend /\ dirty' = dirty
  BY DEF PublishUpdate, otherPool, storeVars, ghosts, env
<1>2. PICK a \in Accounts : a = upd.a /\ a \in Stored
  BY <1>0
<1>3. PICK n \in Nat : n = upd.session
  BY <1>0 DEF IsUpdate
<1>4. /\ DOMAIN upd' = DOMAIN upd /\ upd'.pc = "finish" /\ upd'.a = upd.a
      /\ upd'.session = upd.session /\ upd'.until = upd.until
      /\ upd'.gate = upd.gate
  BY <1>0 DEF PublishUpdate, UpdateEnds, IsUpdate
<1>5. /\ DOMAIN acc' = Accounts /\ \A b \in Accounts : b # a => acc'[b] = acc[b]
      /\ DOMAIN acc'[a] = DOMAIN acc[a] /\ acc'[a].auth = n
      /\ acc'[a].disabled = FALSE /\ acc'[a].reason = "none"
      /\ acc'[a].cooldown = acc[a].cooldown /\ acc'[a].gate = acc[a].gate
      /\ acc'[a].updating = acc[a].updating /\ acc'[a].busy = acc[a].busy
      /\ acc'[a].mediaBusy = acc[a].mediaBusy /\ acc'[a].refreshAfter = 0
      /\ acc'[a].refreshErr = Failure
  <2> DEFINE l == acc[a].login \/ upd.backup
             f == Failure
  <2>1. acc' = [acc EXCEPT ![a].auth = n, ![a].disabled = FALSE, ![a].reason = "none",
                  ![a].login = l, ![a].refreshAfter = 0, ![a].refreshErr = f]
    BY <1>0, <1>2, <1>3 DEF PublishUpdate, Shaped, IsAccount
  <2> HIDE DEF l, f
  <2>2. /\ DOMAIN acc' = Accounts /\ \A b \in Accounts : b # a => acc'[b] = acc[b]
        /\ DOMAIN acc'[a] = DOMAIN acc[a] /\ acc'[a].auth = n
        /\ acc'[a].disabled = FALSE /\ acc'[a].reason = "none"
        /\ acc'[a].cooldown = acc[a].cooldown /\ acc'[a].gate = acc[a].gate
        /\ acc'[a].updating = acc[a].updating /\ acc'[a].busy = acc[a].busy
        /\ acc'[a].mediaBusy = acc[a].mediaBusy /\ acc'[a].refreshAfter = 0
        /\ acc'[a].refreshErr = f
    BY <1>0, <2>1 DEF Shaped, IsAccount
  <2> QED
    BY <2>2 DEF f
<1>6. SameGate /\ SameFlag /\ SameLoad /\ SameDownloads
  BY <1>5 DEF SameGate, SameFlag, SameLoad, SameDownloads
<1>7. Shaped'
  <2>1. ASSUME NEW b \in Accounts PROVE IsAccount(acc'[b])
    <3>1. IsAccount(acc[b]) /\ IsOut(Failure)
      BY <1>0, Outs DEF Shaped
    <3>2. CASE b = a
      <4>1. /\ DOMAIN acc'[b] = DOMAIN acc[b] /\ acc'[b].auth \in Nat
            /\ acc'[b].cooldown = acc[b].cooldown /\ acc'[b].gate = acc[b].gate
            /\ acc'[b].busy = acc[b].busy /\ acc'[b].mediaBusy = acc[b].mediaBusy
        BY <3>2, <1>5
      <4>2. acc'[b].disabled = FALSE
        BY <3>2, <1>5
      <4>3. acc'[b].disabled \in BOOLEAN
        BY <4>2
      <4>4. acc'[b].refreshAfter \in Nat
        BY <3>2, <1>5
      <4>5. IsOut(acc'[b].refreshErr)
        BY <3>1, <3>2, <1>5
      <4> QED
        BY <3>1, <4>1, <4>3, <4>4, <4>5 DEF IsAccount
    <3> QED
      BY <3>1, <3>2, <1>5
  <2>2. IsUpdate(upd')
    BY <1>0, <1>4 DEF IsUpdate
  <2> QED
    BY <1>0, <1>1, <1>5, <2>1, <2>2, ShapedUpdate DEF Shaped
<1>8. row[a].auth = n /\ ~row[a].dead /\ pend[a].reason = "none"
      /\ \A r \in Details : req[r].a # a
  BY <1>0, <1>2, <1>3 DEF Updated
<1>9. Updated'
  BY <1>0, <1>1, <1>2, <1>4, <1>5 DEF Updated, Stored
<1>10. Gated'
  BY <1>0, <1>1, <1>4, <1>6, GatedFrame
<1>11. Owned'
  <2>1. Bears(n, a)
    BY <1>2, <1>3 DEF Bears
  <2>2. ASSUME NEW b \in Accounts
        PROVE Moves(acc'[b].auth, b, None) /\ Moves(row'[b].auth, b, None)
    <3>1. Bears(acc[b].auth, b) /\ Bears(row'[b].auth, b)
      BY <1>1 DEF Bears
    <3> QED
      BY <1>5, <2>1, <3>1 DEF Moves
  <2>3. \A s \in Details : req'[s].a \in Accounts =>
            Moves(req'[s].auth, req'[s].a, None) /\ Moves(req'[s].session, req'[s].a, None)
    BY <1>1 DEF Moves, Bears
  <2>4. upd'.a \in Accounts => Moves(upd'.session, upd'.a, None)
    BY <1>4 DEF Moves, Bears
  <2>5. minted' \in Nat /\ minted <= minted' /\ None \in Accounts \cup {None}
    BY <1>0, <1>1 DEF Shaped
  <2> QED
    BY <1>0, <2>2, <2>3, <2>4, <2>5, OwnedFrame
<1>12. Saved'
  <2>1. ASSUME NEW b \in Accounts
        PROVE  /\ row'[b].ctx = row'[b].auth
               /\ b \in Stored => row'[b].auth > 0 /\ acc'[b].auth <= row'[b].auth
    <3>1. CASE b = a
      BY <3>1, <1>0, <1>1, <1>5, <1>8 DEF Saved
    <3>2. CASE b # a
      BY <3>2, <1>0, <1>1, <1>5 DEF Saved
    <3> QED
      BY <3>1, <3>2
  <2> QED
    BY <1>1, <2>1 DEF Saved, Stored
<1>13. Calling' /\ Healthy'
  <2>1. HealthOf(a)
    BY <1>0, <1>2 DEF Healthy
  <2>2. ~Dead(a)'
    BY <1>5 DEF Dead
  <2>3. \A r \in Details : ~Marks(r, a)
    BY <1>8 DEF Marks
  <2>4. acc'[a].cooldown <= row'[a].until \/ acc'[a].cooldown <= pend'[a].until
    BY <1>0, <1>1, <1>5, <2>1, <2>3 DEF HealthOf
  <2>5. ~row'[a].dead /\ pend'[a].reason = "none" /\ ~acc'[a].disabled
    BY <1>1, <1>5, <1>8
  <2>6. HealthOf(a)'
    BY <2>2, <2>4, <2>5 DEF HealthOf
  <2>7. NoSession \in rejected' /\ (~dirty' => \A b \in Accounts : pend'[b] = NoHealth)
    BY <1>0, <1>1 DEF Healthy
  <2>8. upd.a = a /\ upd'.a = a
    BY <1>2, <1>4
  <2> QED
    BY <1>1, <1>5, <1>8, <2>6, <2>7, <2>8, UpdateAlone
<1>14. Leasing' /\ Downloading' /\ Queueing' /\ Writing' /\ Updating'
  BY <1>0, <1>1, <1>4, <1>6, LeasingFrame, DownloadingFrame, QueueingFrame, WritingFrame
     DEF UpdateWrites, Updating
<1> QED
  BY <1>7, <1>9, <1>10, <1>11, <1>12, <1>13, <1>14, Together

\* A saved password changes neither sessions nor health.
LEMMA UpdateLoginKeeps ==
    ASSUME IInv, UpdateLogin
    PROVE  IInv'
<1>0. /\ Shaped /\ Calling /\ Gated /\ Updated /\ Writing /\ Updating
      /\ upd.pc = "setlogin" /\ IsUpdate(upd) /\ upd.a \in Accounts /\ upd.a \in Stored
  BY DEF IInv, Counted, Shaped, Updated, UpdateLogin
<1>1. /\ accounts' = accounts /\ req' = req /\ med' = med /\ clock' = clock
      /\ minted' = minted /\ rejected' = rejected /\ writes' = writes
      /\ updating' = updating /\ queued' = queued
  BY DEF UpdateLogin, otherPool, ghosts, env
<1>2. PICK a \in Accounts : a = upd.a /\ a \in Stored
  BY <1>0
<1>3. PICK o \in Outcomes :
         /\ SetLogin(a, o)
         /\ UpdateEnds(IF Confirmed(o) THEN "updated" ELSE "db")
         /\ acc' = IF Confirmed(o)
                   THEN [acc EXCEPT ![a].login = TRUE, ![a].refreshAfter = 0,
                                    ![a].refreshErr = Failure]
                   ELSE acc
  BY <1>2 DEF UpdateLogin
<1>4. /\ DOMAIN upd' = DOMAIN upd /\ upd'.pc = "finish" /\ upd'.a = upd.a
      /\ upd'.session = upd.session /\ upd'.until = upd.until
      /\ upd'.gate = upd.gate
  BY <1>0, <1>3 DEF UpdateEnds, IsUpdate
<1>5. table' = table /\ pend' = pend /\ dirty' = dirty
  BY <1>3 DEF SetLogin
<1>6. /\ DOMAIN row' = Accounts /\ \A b \in Accounts : IsRow(row'[b])
      /\ SameRows
  <2>1. DOMAIN row = Accounts /\ \A b \in Accounts : IsRow(row[b])
    BY <1>0 DEF Shaped
  <2>2. CASE row' = row
    BY <2>1, <2>2 DEF SameRows
  <2>3. CASE row' # row
    <3>1. row' = [row EXCEPT ![a].login = TRUE]
      BY <1>3, <2>3 DEF SetLogin
    <3>2. /\ DOMAIN row' = Accounts /\ DOMAIN row'[a] = DOMAIN row[a]
          /\ \A b \in Accounts : b # a => row'[b] = row[b]
          /\ row'[a].auth = row[a].auth /\ row'[a].ctx = row[a].ctx
          /\ row'[a].dead = row[a].dead /\ row'[a].reason = row[a].reason
          /\ row'[a].until = row[a].until
      BY <2>1, <3>1 DEF IsRow
    <3>3. IsRow(row'[a])
      BY <2>1, <3>2 DEF IsRow
    <3> QED
      BY <2>1, <3>2, <3>3 DEF SameRows
  <2> QED
    BY <2>2, <2>3
<1>7. /\ DOMAIN acc' = Accounts /\ \A b \in Accounts : IsAccount(acc'[b])
      /\ SameAuth /\ SameHealth /\ SameGate /\ SameFlag /\ SameLoad /\ SameDownloads
  <2>1. CASE acc' = acc
    BY <2>1, <1>0, SameAccounts DEF Shaped
  <2>2. CASE acc' # acc
    <3> DEFINE f == Failure
    <3>1. acc' = [acc EXCEPT ![a].login = TRUE, ![a].refreshAfter = 0, ![a].refreshErr = f]
      BY <1>3, <2>2
    <3>2. IsOut(f)
      BY Outs
    <3> HIDE DEF f
    <3>3. /\ DOMAIN acc' = Accounts /\ \A b \in Accounts : b # a => acc'[b] = acc[b]
          /\ DOMAIN acc'[a] = DOMAIN acc[a] /\ acc'[a].auth = acc[a].auth
          /\ acc'[a].disabled = acc[a].disabled /\ acc'[a].reason = acc[a].reason
          /\ acc'[a].cooldown = acc[a].cooldown /\ acc'[a].gate = acc[a].gate
          /\ acc'[a].updating = acc[a].updating /\ acc'[a].busy = acc[a].busy
          /\ acc'[a].mediaBusy = acc[a].mediaBusy /\ acc'[a].refreshAfter = 0
          /\ acc'[a].refreshErr = f
      BY <1>0, <3>1 DEF Shaped, IsAccount
    <3>4. IsAccount(acc'[a])
      BY <1>0, <3>2, <3>3 DEF Shaped, IsAccount
    <3>5. \A b \in Accounts : IsAccount(acc'[b])
      BY <1>0, <3>3, <3>4 DEF Shaped
    <3> QED
      BY <3>3, <3>5 DEF SameAuth, SameHealth, SameGate, SameFlag, SameLoad, SameDownloads
  <2> QED
    BY <2>1, <2>2
<1>8. Shaped'
  <2>1. IsUpdate(upd')
    BY <1>0, <1>4 DEF IsUpdate
  <2> QED
    BY <1>0, <1>1, <1>5, <1>6, <1>7, <2>1 DEF Shaped, Stored
<1>9. Updated'
  BY <1>0, <1>1, <1>2, <1>4, <1>5, <1>7 DEF Updated, Stored, SameFlag
<1>10. Gated'
  BY <1>0, <1>1, <1>4, <1>7, GatedFrame
<1>11. Writing' /\ Updating'
  BY <1>0, <1>1, <1>4, WritingFrame DEF UpdateWrites, Updating
<1>12. Bears(upd'.session, upd'.a)
  BY <1>4 DEF Bears
<1> QED
  BY <1>0, <1>1, <1>5, <1>6, <1>7, <1>8, <1>9, <1>10, <1>11, <1>12, UpdateCalm

-----------------------------------------------------------------------------
(* The process.                                                            *)

\* A step of the clock, of asleep or of closed only.
LEMMA ProcessCalm ==
    ASSUME IInv, storeVars' = storeVars, accounts' = accounts, acc' = acc, req' = req,
           med' = med, upd' = upd, minted' = minted, rejected' = rejected,
           writes' = writes, updating' = updating, queued' = queued, clock' \in Nat
    PROVE  IInv'
<1>0. /\ Shaped /\ Calling /\ Gated /\ Updated /\ Owned /\ Saved /\ Healthy
      /\ Leasing /\ Downloading /\ Queueing /\ Writing /\ Updating
  BY DEF IInv, Counted
<1>1. table' = table /\ row' = row /\ pend' = pend /\ dirty' = dirty
  BY DEF storeVars
<1>2. SameAuth /\ SameHealth /\ SameGate /\ SameFlag /\ SameLoad /\ SameDownloads
      /\ SameRows
  BY <1>1, SameAccounts, SameTable
<1>3. Shaped'
  BY <1>0, <1>1 DEF Shaped, Stored
<1>4. Calling' /\ Saved' /\ Healthy'
  BY <1>0, <1>1, <1>2, CallingCalm, SavedFrame, HealthyCalm
<1>5. Updated' /\ Gated'
  BY <1>0, <1>1, <1>2, UpdatedFrame, GatedFrame
<1>6. Owned'
  <2>1. \A b \in Accounts : Moves(acc'[b].auth, b, None) /\ Moves(row'[b].auth, b, None)
    BY <1>1 DEF Moves, Bears
  <2>2. \A s \in Details : req'[s].a \in Accounts =>
            Moves(req'[s].auth, req'[s].a, None) /\ Moves(req'[s].session, req'[s].a, None)
    BY DEF Moves, Bears
  <2>3. upd'.a \in Accounts => Moves(upd'.session, upd'.a, None)
    BY DEF Moves, Bears
  <2>4. minted' \in Nat /\ minted <= minted' /\ None \in Accounts \cup {None}
    BY <1>0 DEF Shaped
  <2> QED
    BY <1>0, <2>1, <2>2, <2>3, <2>4, OwnedFrame
<1>7. Leasing' /\ Downloading' /\ Queueing' /\ Writing' /\ Updating'
  BY <1>0, <1>2, LeasingFrame, DownloadingFrame, QueueingFrame, WritingFrame
     DEF UpdateWrites, Updating
<1> QED
  BY <1>3, <1>4, <1>5, <1>6, <1>7, Together

\* Close.
LEMMA CloseKeeps ==
    ASSUME IInv, Close
    PROVE  IInv'
<1>1. clock' \in Nat
  BY DEF Close, env, IInv, Shaped
<1> QED
  BY <1>1, ProcessCalm DEF Close, callVars, ghosts

\* Time passes.
LEMMA TickKeeps ==
    ASSUME IInv, Tick
    PROVE  IInv'
<1>1. clock' \in Nat
  BY DEF Tick, IInv, Shaped
<1> QED
  BY <1>1, ProcessCalm DEF Tick, poolVars, callVars, ghosts

\* A pool that was opened just now: no calls, and of every account what its row
\* says.
Fresh ==
    /\ Shaped /\ Owned /\ Saved /\ NoSession \in rejected
    /\ \A r \in Details : req[r] \in {Idle, Done}
    /\ \A m \in Media : med[m].pc # "run" /\ ~med[m].queued
    /\ upd = NoUpdate /\ queued = 0 /\ writes = 0 /\ updating = 0
    /\ \A a \in Accounts : acc[a].busy = 0 /\ acc[a].mediaBusy = 0 /\ pend[a] = NoHealth
    /\ \A a \in Stored :
         /\ row[a].dead => acc[a].disabled
         /\ (acc[a].disabled /\ acc[a].auth = row[a].auth) =>
              row[a].dead /\ row[a].reason = acc[a].reason
         /\ acc[a].cooldown <= row[a].until

\* It satisfies the invariant.
LEMMA FreshIsFine == Fresh => IInv
<1> SUFFICES ASSUME Fresh PROVE IInv
  OBVIOUS
<1>1. Shaped /\ Owned /\ Saved
  BY DEF Fresh
<1>2. \A r \in Details : /\ req[r].pc \in {"idle", "done"} /\ req[r].a = None
                         /\ ~req[r].queued /\ req[r].auth = 0 /\ req[r].session = 0
  BY IdleAndDone DEF Fresh
<1>3. Calling
  BY <1>2 DEF Calling, CallOK, LeasePC, NoSession
<1>4. Gated /\ Updated
  BY <1>2, NoUpdateFx DEF Gated, Updated, GatePC, Fresh
<1>5. Healthy
  <2>1. ASSUME NEW a \in Stored PROVE HealthOf(a)
    <3>1. a \in Accounts /\ pend[a].reason = "none"
      BY <1>1 DEF Shaped, Fresh, NoHealth
    <3>2. Dead(a) => row[a].dead /\ row[a].reason = acc[a].reason
      BY DEF Dead, Fresh
    <3>3. \A r \in Details : req[r].a # a
      BY <1>2, <3>1, ConstantFacts
    <3> QED
      BY <3>1, <3>2, <3>3 DEF HealthOf, Fresh
  <2> QED
    BY <2>1 DEF Healthy, Fresh
<1>6. Leasing
  <2>1. ASSUME NEW a \in Accounts
        PROVE  acc[a].busy = Cardinality(Leases(a)) /\ acc[a].busy <= Concurrency
    <3>1. Leases(a) = {}
      BY <1>2, ConstantFacts DEF Leases
    <3> QED
      BY <3>1, ConstantFacts, FS_EmptySet DEF Fresh
  <2> QED
    BY <2>1 DEF Leasing
<1>7. Downloading
  <2>1. ASSUME NEW a \in Accounts
        PROVE  /\ acc[a].mediaBusy = Cardinality(Downloads(a))
               /\ acc[a].mediaBusy <= DownloadConcurrency
    <3>1. Downloads(a) = {}
      BY DEF Downloads, Fresh
    <3> QED
      BY <3>1, ConstantFacts, FS_EmptySet DEF Fresh
  <2> QED
    BY <2>1 DEF Downloading
<1>8. Queueing
  <2>1. {r \in Details : req[r].queued} = {} /\ {m \in Media : med[m].queued} = {}
    BY <1>2 DEF Fresh
  <2>2. Cardinality({r \in Details : req[r].queued}) = 0
        /\ Cardinality({m \in Media : med[m].queued}) = 0
    BY <2>1, FS_EmptySet
  <2> QED
    BY <2>2, ConstantFacts DEF Queueing, Fresh
<1>9. Writing /\ Updating
  <2>1. {r \in Details : req[r].pc \in WritePC} = {}
    BY <1>2 DEF WritePC
  <2>2. Cardinality({r \in Details : req[r].pc \in WritePC}) = 0
    BY <2>1, FS_EmptySet
  <2>3. UpdateWrites = 0 /\ upd.pc = "idle"
    BY NoUpdateFx DEF UpdateWrites, Fresh
  <2> QED
    BY <2>2, <2>3 DEF Writing, Updating, Fresh
<1> QED
  BY <1>1, <1>3, <1>4, <1>5, <1>6, <1>7, <1>8, <1>9 DEF IInv, Counted

\* What addStoredAccount makes of a row.
LEMMA StoredAccount ==
    ASSUME NEW a \in Accounts, IsRow(row[a]), NEW stale \in BOOLEAN
    PROVE  LET k == addStoredAccount(a, stale) IN
           /\ IsAccount(k) /\ k.busy = 0 /\ k.mediaBusy = 0
           /\ k.auth = NoSession \/ k.auth = row[a].auth
           /\ stale => k.auth = NoSession
           /\ row[a].dead => k.disabled
           /\ (k.disabled /\ ~stale) => row[a].dead
           /\ ~stale => k.reason = row[a].reason
           /\ k.cooldown = row[a].until
<1> DEFINE k  == addStoredAccount(a, stale)
           x1 == IF stale THEN NoSession ELSE row[a].auth
           x2 == row[a].login
           x3 == row[a].dead \/ (stale /\ ~row[a].login)
           x4 == IF row[a].reason = "none" /\ stale /\ ~row[a].login
                 THEN "session_expired" ELSE row[a].reason
           x5 == row[a].until
           x6 == Failure
<1>1. k = [auth |-> x1, login |-> x2, disabled |-> x3, reason |-> x4, cooldown |-> x5,
           busy |-> 0, mediaBusy |-> 0, updating |-> FALSE, gate |-> FALSE,
           refreshAfter |-> 0, refreshErr |-> x6]
  BY DEF addStoredAccount
<1>2. x1 \in Nat /\ x3 \in BOOLEAN /\ x5 \in Nat /\ IsOut(x6)
  BY Outs DEF IsRow, NoSession
<1>3. /\ x1 = NoSession \/ x1 = row[a].auth
      /\ stale => x1 = NoSession
      /\ row[a].dead => x3
      /\ (x3 /\ ~stale) => row[a].dead
      /\ ~stale => x4 = row[a].reason
      /\ x5 = row[a].until
  OBVIOUS
<1> HIDE DEF k, x1, x2, x3, x4, x5, x6
<1>4. /\ IsAccount(k) /\ k.busy = 0 /\ k.mediaBusy = 0
      /\ k.auth = x1 /\ k.disabled = x3 /\ k.reason = x4 /\ k.cooldown = x5
  BY <1>1, <1>2 DEF IsAccount
<1>5. /\ IsAccount(k) /\ k.busy = 0 /\ k.mediaBusy = 0
      /\ k.auth = NoSession \/ k.auth = row[a].auth
      /\ stale => k.auth = NoSession
      /\ row[a].dead => k.disabled
      /\ (k.disabled /\ ~stale) => row[a].dead
      /\ ~stale => k.reason = row[a].reason
      /\ k.cooldown = row[a].until
  BY <1>3, <1>4
<1> QED
  BY <1>5 DEF k

\* An account the pool does not have.
LEMMA NoAccountFx ==
    IsAccount(NoAccount) /\ NoAccount.busy = 0 /\ NoAccount.mediaBusy = 0
    /\ NoAccount.auth = NoSession
<1> DEFINE f == Failure
<1>1. IsOut(f) /\ NoSession \in Nat
  BY Outs DEF NoSession
<1>2. NoAccount = [auth |-> NoSession, login |-> FALSE, disabled |-> FALSE,
              reason |-> "none", cooldown |-> 0, busy |-> 0, mediaBusy |-> 0,
              updating |-> FALSE, gate |-> FALSE, refreshAfter |-> 0,
              refreshErr |-> f]
  BY DEF NoAccount
<1> HIDE DEF f
<1> QED
  BY <1>1, <1>2 DEF IsAccount

\* The process ends and a new one opens the pool from the table.
LEMMA RestartKeeps ==
    ASSUME IInv, Restart
    PROVE  IInv'
<1>0. Shaped /\ Owned /\ Saved /\ Healthy /\ Queueing
  BY DEF IInv, Counted
<1>1. PICK stale \in SUBSET Stored :
         acc' = [a \in Accounts |-> IF a \in Stored
                                    THEN addStoredAccount(a, a \in stale)
                                    ELSE NoAccount]
  BY DEF Restart
<1>2. /\ accounts' = table /\ table' = table /\ row' = row /\ clock' = clock
      /\ minted' = minted /\ rejected' = rejected /\ upd' = NoUpdate
      /\ queued' = 0 /\ writes' = 0 /\ updating' = 0
      /\ pend' = [a \in Accounts |-> NoHealth] /\ dirty' = FALSE
      /\ req' = [r \in Details |-> IF req[r].pc = "idle" THEN Idle ELSE Done]
      /\ med' = [m \in Media |-> IF med[m].pc = "idle" THEN med[m]
                               ELSE [pc |-> "done", a |-> None, queued |-> FALSE]]
  BY DEF Restart, ghosts
<1>3. ASSUME NEW a \in Accounts
      PROVE  /\ IsAccount(acc'[a]) /\ acc'[a].busy = 0 /\ acc'[a].mediaBusy = 0
             /\ acc'[a].auth = NoSession \/ acc'[a].auth = row[a].auth
             /\ a \in Stored =>
                  /\ row[a].dead => acc'[a].disabled
                  /\ (acc'[a].disabled /\ acc'[a].auth = row[a].auth) =>
                       row[a].dead /\ row[a].reason = acc'[a].reason
                  /\ acc'[a].cooldown = row[a].until
  <2>1. CASE a \in Stored
    <3> DEFINE k == addStoredAccount(a, a \in stale)
    <3>1. acc'[a] = k /\ IsRow(row[a])
      BY <1>0, <1>1, <2>1 DEF Shaped
    <3>2. /\ IsAccount(k) /\ k.busy = 0 /\ k.mediaBusy = 0
          /\ k.auth = NoSession \/ k.auth = row[a].auth
          /\ a \in stale => k.auth = NoSession
          /\ row[a].dead => k.disabled
          /\ (k.disabled /\ a \notin stale) => row[a].dead
          /\ a \notin stale => k.reason = row[a].reason
          /\ k.cooldown = row[a].until
      <4> DEFINE y == a \in stale
      <4>1. y \in BOOLEAN
        OBVIOUS
      <4> HIDE DEF y
      <4>2. LET j == addStoredAccount(a, y) IN
            /\ IsAccount(j) /\ j.busy = 0 /\ j.mediaBusy = 0
            /\ j.auth = NoSession \/ j.auth = row[a].auth
            /\ y => j.auth = NoSession
            /\ row[a].dead => j.disabled
            /\ (j.disabled /\ ~y) => row[a].dead
            /\ ~y => j.reason = row[a].reason
            /\ j.cooldown = row[a].until
        BY <3>1, <4>1, StoredAccount
      <4> QED
        BY <4>2 DEF y
    <3>3. row[a].auth # NoSession
      BY <1>0, <2>1 DEF Saved, NoSession, Shaped, IsRow
    <3> HIDE DEF k
    <3> QED
      BY <3>1, <3>2, <3>3
  <2>2. CASE a \notin Stored
    <3>1. acc'[a] = NoAccount
      BY <1>1, <2>2
    <3> QED
      BY <2>2, <3>1, NoAccountFx
  <2> QED
    BY <2>1, <2>2
<1>4. \A r \in Details : req'[r] \in {Idle, Done}
  BY <1>2
<1>5. \A m \in Media : IsMedia(med'[m]) /\ med'[m].pc # "run" /\ ~med'[m].queued
  <2>1. ASSUME NEW m \in Media
        PROVE  IsMedia(med'[m]) /\ med'[m].pc # "run" /\ ~med'[m].queued
    <3>1. CASE med[m].pc = "idle"
      BY <3>1, <1>0, <1>2 DEF Queueing, Shaped
    <3>2. CASE med[m].pc # "idle"
      <4>1. med'[m] = [pc |-> "done", a |-> None, queued |-> FALSE]
        BY <3>2, <1>2
      <4> QED
        BY <4>1 DEF IsMedia
    <3> QED
      BY <3>1, <3>2
  <2> QED
    BY <2>1
<1>6. \A a \in Accounts : pend'[a] = NoHealth /\ IsHealth(pend'[a])
  BY <1>2 DEF IsHealth, NoHealth
<1>7. Shaped'
  <2>1. DOMAIN req' = Details /\ \A r \in Details : IsCall(req'[r])
    BY <1>2, <1>4, IdleAndDone
  <2>2. DOMAIN acc' = Accounts /\ DOMAIN med' = Media /\ DOMAIN pend' = Accounts
    BY <1>1, <1>2
  <2> QED
    BY <1>0, <1>2, <1>3, <1>5, <1>6, <2>1, <2>2, NoUpdateFx DEF Shaped, Stored
<1>8. Owned'
  <2>1. \A b \in Accounts : Moves(acc'[b].auth, b, None) /\ Moves(row'[b].auth, b, None)
    BY <1>2, <1>3 DEF Moves, Bears
  <2>2. \A s \in Details : req'[s].a \notin Accounts
    BY <1>4, IdleAndDone, ConstantFacts
  <2>3. upd'.a \notin Accounts
    BY <1>2, NoUpdateFx, ConstantFacts
  <2>4. minted' \in Nat /\ minted <= minted' /\ None \in Accounts \cup {None}
    BY <1>0, <1>2 DEF Shaped
  <2> QED
    BY <1>0, <2>1, <2>2, <2>3, <2>4, OwnedFrame
<1>9. Saved'
  <2>1. \A a \in Accounts : row[a].auth \in Nat
    BY <1>0 DEF Shaped, IsRow
  <2> QED
    BY <1>0, <1>2, <1>3, <2>1 DEF Saved, Stored, NoSession
<1>10. NoSession \in rejected'
  BY <1>0, <1>2 DEF Healthy
<1>11. \A a \in Stored : a \in Accounts /\ row[a].until \in Nat
  BY <1>0 DEF Shaped, IsRow
<1>12. (\A a \in Stored :
         /\ row[a].dead => acc[a].disabled
         /\ (acc[a].disabled /\ acc[a].auth = row[a].auth) =>
              row[a].dead /\ row[a].reason = acc[a].reason
         /\ acc[a].cooldown <= row[a].until)'
  BY <1>2, <1>3, <1>11 DEF Stored
<1>13. Fresh'
  BY <1>2, <1>3, <1>4, <1>5, <1>6, <1>7, <1>8, <1>9, <1>10, <1>12 DEF Fresh
<1> QED
  BY <1>13, FreshIsFine, PTL

-----------------------------------------------------------------------------
(* The theorems.                                                           *)

\* The row of an account at first: its session is its place in Seeded.
LEMMA FirstRow ==
    ASSUME Init, NEW a \in Accounts
    PROVE  /\ IsRow(row[a]) /\ row[a].ctx = row[a].auth /\ ~row[a].dead
           /\ row[a].reason = "none" /\ row[a].until = 0
           /\ row[a].auth = NoSession \/
                (row[a].auth \in 1..Len(Seeded) /\ Seeded[row[a].auth] = a)
           /\ a \in Stored => row[a].auth \in 1..Len(Seeded)
<1> DEFINE at == {i \in DOMAIN Seeded : Seeded[i] = a}
           s  == IF at = {} THEN NoSession ELSE Min(at)
           l  == a \in Logins
<1>1. row[a] = [auth |-> s, ctx |-> s, login |-> l, dead |-> FALSE,
                reason |-> "none", until |-> 0]
  BY DEF Init
<1>2. DOMAIN Seeded = 1..Len(Seeded) /\ Len(Seeded) \in Nat
  BY ConstantFacts
<1>3. at # {} => Min(at) \in at
  <2> SUFFICES ASSUME NEW i \in at PROVE Min(at) \in at
    OBVIOUS
  <2>1. i \in Nat /\ \A j \in at : j = i
    BY <1>2, PoolAssumption
  <2>2. \A j \in at : i =< j
    BY <2>1
  <2> HIDE DEF at
  <2> QED
    BY <2>2 DEF Min
<1>4. s = NoSession \/ (s \in 1..Len(Seeded) /\ Seeded[s] = a)
  BY <1>2, <1>3
<1>5. a \in Stored => s \in 1..Len(Seeded)
  <2>1. a \in Stored => at # {}
    BY DEF Stored, Init
  <2> QED
    BY <1>2, <1>3, <2>1
<1>6. s \in Nat
  BY <1>4, <1>2 DEF NoSession
<1> HIDE DEF s, l
<1> QED
  BY <1>1, <1>4, <1>5, <1>6 DEF IsRow

\* The pool is opened on the seeded table.
LEMMA InitIsFine == Init => IInv
<1> SUFFICES ASSUME Init PROVE IInv
  OBVIOUS
<1>1. /\ table = Seeded /\ accounts = table /\ upd = NoUpdate /\ clock = 0
      /\ queued = 0 /\ writes = 0 /\ updating = 0 /\ minted = Len(Seeded)
      /\ rejected = {NoSession}
      /\ pend = [a \in Accounts |-> NoHealth]
      /\ req = [r \in Details |-> Idle]
      /\ med = [m \in Media |-> [pc |-> "idle", a |-> None, queued |-> FALSE]]
      /\ acc = [a \in Accounts |-> IF a \in Stored THEN addStoredAccount(a, FALSE)
                                                   ELSE NoAccount]
  BY DEF Init
<1>2. Stored \subseteq Accounts /\ Len(Seeded) \in Nat /\ DOMAIN row = Accounts
  BY <1>1, ConstantFacts DEF Stored, Init
<1>3. ASSUME NEW a \in Accounts
      PROVE  /\ IsAccount(acc[a]) /\ acc[a].busy = 0 /\ acc[a].mediaBusy = 0
             /\ acc[a].auth = NoSession \/ acc[a].auth = row[a].auth
             /\ a \in Stored => ~acc[a].disabled /\ acc[a].cooldown = 0
  <2>1. IsRow(row[a]) /\ ~row[a].dead /\ row[a].until = 0
    BY FirstRow
  <2>2. CASE a \in Stored
    <3> DEFINE k == addStoredAccount(a, FALSE)
    <3>1. /\ IsAccount(k) /\ k.busy = 0 /\ k.mediaBusy = 0
          /\ k.auth = NoSession \/ k.auth = row[a].auth
          /\ k.disabled => row[a].dead
          /\ k.cooldown = row[a].until
      <4>1. PICK y \in BOOLEAN : y = FALSE
        OBVIOUS
      <4>2. LET j == addStoredAccount(a, y) IN
            /\ IsAccount(j) /\ j.busy = 0 /\ j.mediaBusy = 0
            /\ j.auth = NoSession \/ j.auth = row[a].auth
            /\ y => j.auth = NoSession
            /\ row[a].dead => j.disabled
            /\ (j.disabled /\ ~y) => row[a].dead
            /\ ~y => j.reason = row[a].reason
            /\ j.cooldown = row[a].until
        BY <2>1, StoredAccount
      <4>3. k = addStoredAccount(a, y)
        BY <4>1
      <4> HIDE DEF k
      <4> QED
        BY <4>1, <4>2, <4>3
    <3>2. acc[a] = k
      BY <1>1, <2>2
    <3> HIDE DEF k
    <3> QED
      BY <2>1, <3>1, <3>2
  <2>3. CASE a \notin Stored
    <3>1. acc[a] = NoAccount
      BY <1>1, <2>3
    <3> QED
      BY <2>3, <3>1, NoAccountFx
  <2> QED
    BY <2>2, <2>3
<1>4. \A a \in Accounts : pend[a] = NoHealth /\ IsHealth(pend[a])
  BY <1>1 DEF IsHealth, NoHealth
<1>5. \A m \in Media : IsMedia(med[m]) /\ med[m].pc # "run" /\ ~med[m].queued
  <2>1. ASSUME NEW m \in Media
        PROVE  IsMedia(med[m]) /\ med[m].pc # "run" /\ ~med[m].queued
    <3>1. med[m] = [pc |-> "idle", a |-> None, queued |-> FALSE]
      BY <1>1
    <3> QED
      BY <3>1 DEF IsMedia
  <2> QED
    BY <2>1
<1>6. \A r \in Details : req[r] = Idle
  BY <1>1
<1>7. Shaped
  <2>1. DOMAIN req = Details /\ \A r \in Details : IsCall(req[r])
    BY <1>1, <1>6, IdleAndDone
  <2>2. DOMAIN acc = Accounts /\ DOMAIN med = Media /\ DOMAIN pend = Accounts
    BY <1>1
  <2>3. clock \in Nat /\ minted \in Nat /\ IsUpdate(upd)
    BY <1>1, <1>2, NoUpdateFx
  <2>4. \A a \in Accounts : IsRow(row[a])
    BY FirstRow
  <2> QED
    BY <1>1, <1>2, <1>3, <1>4, <1>5, <2>1, <2>2, <2>3, <2>4 DEF Shaped
<1>8. Owned
  <2> DEFINE own == [n \in Nat |-> IF n \in 1..Len(Seeded) THEN Seeded[n] ELSE None]
  <2>1. own \in [Nat -> Accounts \cup {None}]
    BY ConstantFacts
  <2>2. ASSUME NEW a \in Accounts
        PROVE  Belongs(own, acc[a].auth, a) /\ Belongs(own, row[a].auth, a)
    <3>1. Belongs(own, row[a].auth, a)
      BY <1>1, <1>2, FirstRow DEF Belongs, NoSession
    <3> QED
      BY <1>3, <3>1 DEF Belongs
  <2>3. \A r \in Details : req[r].a \notin Accounts
    BY <1>6, IdleAndDone, ConstantFacts
  <2>4. upd.a \notin Accounts
    BY <1>1, NoUpdateFx, ConstantFacts
  <2> HIDE DEF own
  <2>5. OwnedBy(own)
    BY <2>2, <2>3, <2>4 DEF OwnedBy
  <2> QED
    BY <2>1, <2>5 DEF Owned
<1>9. Saved
  <2>1. ASSUME NEW a \in Accounts
        PROVE  /\ row[a].ctx = row[a].auth
               /\ a \in Stored => row[a].auth > 0 /\ acc[a].auth <= row[a].auth
    <3>1. row[a].auth \in Nat /\ row[a].ctx = row[a].auth
      BY FirstRow DEF IsRow
    <3>2. a \in Stored => row[a].auth > 0
      BY <1>2, FirstRow
    <3> QED
      BY <1>3, <3>1, <3>2 DEF NoSession
  <2> QED
    BY <2>1 DEF Saved
<1>10. \A a \in Stored : ~row[a].dead /\ row[a].until = 0 /\ a \in Accounts
  BY <1>2, FirstRow
<1>11. Fresh
  <2>1. \A a \in Accounts : acc[a].busy = 0 /\ acc[a].mediaBusy = 0 /\ pend[a] = NoHealth
    BY <1>3, <1>4
  <2>2. \A a \in Stored :
           /\ row[a].dead => acc[a].disabled
           /\ (acc[a].disabled /\ acc[a].auth = row[a].auth) =>
                row[a].dead /\ row[a].reason = acc[a].reason
           /\ acc[a].cooldown <= row[a].until
    BY <1>3, <1>10
  <2>3. NoSession \in rejected /\ \A r \in Details : req[r] \in {Idle, Done}
    BY <1>1, <1>6
  <2> QED
    BY <1>1, <1>5, <1>7, <1>8, <1>9, <2>1, <2>2, <2>3 DEF Fresh
<1> QED
  BY <1>11, FreshIsFine

\* Every step keeps the invariant.
LEMMA NextKeeps ==
    ASSUME IInv, [Next]_vars
    PROVE  IInv'
<1>1. ASSUME NEW r \in Details, DetailStep(r) PROVE IInv'
  BY <1>1, AcquireKeeps, WaitKeeps, RefuseKeeps, ReadSessionKeeps, CheckAccountKeeps,
     AnswerKeeps, RenewKeeps, LoginKeeps, SaveRenewalKeeps, PublishKeeps, JudgeKeeps,
     MarkKeeps, FlushHealthKeeps, SettleKeeps, PersistKeeps, ReleaseKeeps
     DEF DetailStep
<1>2. ASSUME NEW m \in Media, MediaStep(m) PROVE IInv'
  BY <1>2, MediaAcquireKeeps, MediaWaitKeeps, MediaRefuseKeeps, MediaReleaseKeeps
     DEF MediaStep
<1>3. CASE UpdateStep
  BY <1>3, DrainKeeps, UpdateFlushKeeps, UpdateGateKeeps, VerifiedKeeps,
     NotVerifiedKeeps, MarkCooldownKeeps, FlushCooldownKeeps, SettleCooldownKeeps,
     ReplaceKeeps, PublishUpdateKeeps, UpdateLoginKeeps DEF UpdateStep
<1>4. CASE Environment
  BY <1>4, DetailKeeps, CancelWaitKeeps, CancelRequestKeeps, MediaCancelKeeps,
     WithMediaKeeps, CancelUpdateKeeps, CloseKeeps, CloseStoreKeeps, TickKeeps
     DEF Environment
<1>5. CASE Restart
  BY <1>5, RestartKeeps
<1>6. CASE FinishUpdate
  BY <1>6, FinishUpdateKeeps
<1>7. ASSUME NEW a \in Accounts, NEW c \in Offers, BeginUpdate(a, c) PROVE IInv'
  BY <1>7, BeginUpdateKeeps
<1>8. CASE UNCHANGED vars
  <2>1. clock' \in Nat
    BY <1>8 DEF vars, env, IInv, Shaped
  <2> QED
    BY <1>8, <2>1, ProcessCalm DEF vars, poolVars, callVars, ghosts
<1> QED
  BY <1>1, <1>2, <1>3, <1>4, <1>5, <1>6, <1>7, <1>8 DEF Next, PoolNext

\* The invariant holds of every run of the pool, through restarts, cancelled
\* callers and statements that fail or lose their reply.
THEOREM Invariance == Spec => []IInv
<1>1. IInv /\ [Next]_vars => IInv'
  BY NextKeeps
<1> QED
  BY <1>1, InitIsFine, PTL DEF Spec

\* Leases, downloads, queued calls, health writes and updates are counted once
\* each, whichever way acquire, Detail, WithMedia and updateExisting return.
THEOREM CountersAreExact == Spec => []CountersExact
<1>1. IInv => CountersExact
  BY DEF IInv, Counted, Leasing, Leases, Downloading, Downloads, Queueing, Writing,
         WritePC, UpdateWrites, Updating, CountersExact
<1> QED
  BY <1>1, Invariance, PTL

\* The pool never uses a session that the table does not have yet, and the saved
\* context is always that of the saved session (renew, SaveSessionState).
THEOREM SessionStaysSaved == Spec => []SessionIsSaved
<1>1. IInv => SessionIsSaved
  <2> SUFFICES ASSUME IInv, NEW a \in Loaded
               PROVE  acc[a].auth <= row[a].auth /\ row[a].ctx = row[a].auth
    BY DEF SessionIsSaved
  <2>1. a \in Stored /\ a \in Accounts
    BY DEF IInv, Shaped, Loaded, Stored
  <2> QED
    BY <2>1 DEF IInv, Saved
<1> QED
  BY <1>1, Invariance, PTL

\* No death or cooldown is lost: when no write is in flight and none is pending,
\* the table is as bad as the pool, and no death is written for an account in use
\* (MarkHealth, Flush, updateExisting).
THEOREM HealthStaysDurable == Spec => []HealthIsDurable
<1>1. IInv => HealthIsDurable
  <2> SUFFICES ASSUME IInv PROVE HealthIsDurable
    OBVIOUS
  <2>0. Shaped /\ Healthy /\ Writing /\ Loaded = Stored
    BY DEF IInv, Counted, Shaped, Loaded, Stored
  <2>1. DeathIsCurrent
    BY <2>0 DEF DeathIsCurrent, Healthy, HealthOf
  <2>2. ASSUME ~Unsettled, NEW a \in Stored
        PROVE  /\ (acc[a].disabled /\ acc[a].auth = row[a].auth /\ acc[a].auth \in rejected)
                    => row[a].dead /\ row[a].reason = acc[a].reason
               /\ acc[a].cooldown <= row[a].until
    <3> DEFINE W == {r \in Details : req[r].pc \in WritePC}
    <3>1. IsFiniteSet(W) /\ Cardinality(W) \in Nat
      BY ConstantFacts, FS_Subset, FS_CardinalityType
    <3>2. writes = Cardinality(W) + UpdateWrites
      BY <2>0 DEF Writing
    <3>3. UpdateWrites \in {0, 1}
      BY DEF UpdateWrites
    <3> HIDE DEF W
    <3>4. writes = 0 /\ Cardinality(W) = 0 /\ UpdateWrites = 0
      BY <2>2, <3>1, <3>2, <3>3 DEF Unsettled
    <3>5. W = {}
      BY <3>1, <3>4, FS_EmptySet
    <3>6. \A r \in Details : ~Marks(r, a)
      BY <3>5 DEF W, Marks, WritePC
    <3>7. upd.pc # "mark"
      BY <3>4 DEF UpdateWrites
    <3>8. pend[a].reason = "none" /\ pend[a].until = 0
      BY <2>0, <2>2 DEF Unsettled, Healthy, NoHealth, Shaped
    <3>9. row[a].until \in Nat /\ acc[a].cooldown \in Nat
      BY <2>0 DEF Shaped, IsRow, IsAccount
    <3>10. HealthOf(a)
      BY <2>0 DEF Healthy
    <3> QED
      BY <3>6, <3>7, <3>8, <3>9, <3>10 DEF HealthOf, Marked, Dead
  <2> QED
    BY <2>0, <2>1, <2>2 DEF HealthIsDurable, DeathIsSaved
<1> QED
  BY <1>1, Invariance, PTL

-----------------------------------------------------------------------------
(* What a step may never do: sessions and deaths.                          *)

\* A step that changes no session and kills no account.
Calm == \A b \in Accounts : /\ acc'[b].auth = acc[b].auth
                            /\ acc'[b].disabled => acc[b].disabled

\* DeathIsDeserved and RenewalIsNeeded, for one step of one process.
Deserved == \A b \in Accounts :
    ~acc[b].disabled /\ acc'[b].disabled => acc[b].auth \in rejected
Needed == upd.pc # "publish" => \A b \in Accounts :
    acc'[b].auth # acc[b].auth => acc[b].auth \in rejected

\* The accounts a step of Detail touches.
LEMMA LeasedAccount ==
    ASSUME IInv, NEW r \in Details, req[r].pc \in LeasePC
    PROVE  /\ req[r].a \in Accounts /\ IsAccount(acc[req[r].a]) /\ DOMAIN acc = Accounts
           /\ CallOK(r)
<1>1. Shaped /\ Calling
  BY DEF IInv
<1>2. req[r].a \in Accounts
  BY <1>1, LeasedIsAccount
<1> QED
  BY <1>1, <1>2 DEF Shaped, Calling

\* The steps of Detail that touch an account but neither its session nor its
\* health.
LEMMA DetailCalm ==
    ASSUME IInv, NEW r \in Details,
           \/ Acquire(r) \/ Renew(r) \/ Login(r) \/ SaveRenewal(r) \/ Settle(r)
           \/ Release(r)
    PROVE  Calm
<1>1. CASE Acquire(r)
  <2>1. PICK i \in Free(req[r].tried) : acc' = [acc EXCEPT ![accounts[i]].busy = @ + 1]
    BY <1>1 DEF Acquire
  <2>2. DOMAIN acc = Accounts /\ \A b \in Accounts : IsAccount(acc[b])
    BY DEF IInv, Shaped
  <2> QED
    BY <2>1, <2>2 DEF Calm, IsAccount
<1>2. CASE Renew(r)
  <2>1. req[r].pc \in LeasePC
    BY <1>2 DEF Renew, LeasePC
  <2>2. acc' = acc \/ acc' = [acc EXCEPT ![req[r].a].gate = TRUE]
    BY <1>2 DEF Renew
  <2> QED
    BY <2>1, <2>2, LeasedAccount DEF Calm, IsAccount
<1>3. ASSUME NEW out, NEW remember, RenewFails(r, out, remember), req[r].pc \in LeasePC
      PROVE  Calm
  <2> DEFINE x == IF remember THEN clock + Later(1, out.cool) ELSE acc[req[r].a].refreshAfter
             y == IF remember THEN out ELSE acc[req[r].a].refreshErr
  <2>1. acc' = [acc EXCEPT ![req[r].a].gate = FALSE, ![req[r].a].refreshAfter = x,
                           ![req[r].a].refreshErr = y]
    <3>1. acc' = [acc EXCEPT ![req[r].a].gate = FALSE,
                  ![req[r].a].refreshAfter = IF remember THEN clock + Later(1, out.cool)
                                                  ELSE @,
                  ![req[r].a].refreshErr = IF remember THEN out ELSE @]
      BY <1>3 DEF RenewFails
    <3> QED
      BY <1>3, <3>1, LeasedAccount DEF IsAccount
  <2> HIDE DEF x, y
  <2> QED
    BY <1>3, <2>1, LeasedAccount DEF Calm, IsAccount
<1>4. CASE Login(r)
  <2>1. req[r].pc \in LeasePC
    BY <1>4 DEF Login, LeasePC
  <2>2. acc' = acc \/ \E out, remember : RenewFails(r, out, remember)
    BY <1>4 DEF Login
  <2> QED
    BY <2>1, <2>2, <1>3 DEF Calm
<1>5. CASE SaveRenewal(r)
  <2>1. req[r].pc \in LeasePC
    BY <1>5 DEF SaveRenewal, LeasePC
  <2>2. acc' = acc \/ \E out, remember : RenewFails(r, out, remember)
    BY <1>5 DEF SaveRenewal
  <2> QED
    BY <2>1, <2>2, <1>3 DEF Calm
<1>6. CASE Settle(r)
  <2>1. req[r].pc \in LeasePC /\ acc' = [acc EXCEPT ![req[r].a].gate = FALSE]
    BY <1>6 DEF Settle, LeasePC
  <2> QED
    BY <2>1, LeasedAccount DEF Calm, IsAccount
<1>7. CASE Release(r)
  <2>1. req[r].pc \in LeasePC /\ acc' = [acc EXCEPT ![req[r].a].busy = @ - 1]
    BY <1>7 DEF Release, LeasePC
  <2> QED
    BY <2>1, LeasedAccount DEF Calm, IsAccount
<1> QED
  BY <1>1, <1>2, <1>4, <1>5, <1>6, <1>7

\* So are the steps of WithMedia.
LEMMA MediaCalm ==
    ASSUME IInv, NEW m \in Media, MediaStep(m)
    PROVE  Calm
<1>0. DOMAIN acc = Accounts /\ \A b \in Accounts : IsAccount(acc[b])
  BY DEF IInv, Shaped
<1>1. CASE MediaAcquire(m)
  <2>1. acc' = [acc EXCEPT ![med[m].a].mediaBusy = @ + 1]
    BY <1>1 DEF MediaAcquire
  <2> QED
    BY <1>0, <2>1 DEF Calm, IsAccount
<1>2. CASE MediaRelease(m)
  <2>1. acc' = [acc EXCEPT ![med[m].a].mediaBusy = @ - 1]
    BY <1>2 DEF MediaRelease
  <2> QED
    BY <1>0, <2>1 DEF Calm, IsAccount
<1>3. CASE MediaWait(m) \/ MediaRefuse(m)
  BY <1>3 DEF MediaWait, MediaRefuse, Calm
<1> QED
  BY <1>1, <1>2, <1>3 DEF MediaStep

\* A renewal replaces the session that was rejected, and kills nothing.
LEMMA PublishIsNeeded ==
    ASSUME IInv, NEW r \in Details, Publish(r)
    PROVE  Deserved /\ Needed
<1> DEFINE a == req[r].a
<1>1. req[r].pc = "publish" /\ req[r].pc \in LeasePC
  BY DEF Publish, LeasePC
<1>2. PICK gone \in BOOLEAN :
        acc' = [acc EXCEPT ![a].auth = req[r].session, ![a].gate = FALSE,
                       ![a].refreshAfter = IF gone THEN @ ELSE clock + 1,
                       ![a].refreshErr = IF gone THEN @ ELSE LoginExpired(0)]
  BY DEF Publish
<1> DEFINE x == IF gone THEN acc[a].refreshAfter ELSE clock + 1
           y == IF gone THEN acc[a].refreshErr ELSE LoginExpired(0)
<1>3. acc' = [acc EXCEPT ![a].auth = req[r].session, ![a].gate = FALSE,
                         ![a].refreshAfter = x, ![a].refreshErr = y]
  BY <1>1, <1>2, LeasedAccount DEF IsAccount
<1> HIDE DEF x, y
<1>4. \A b \in Accounts : /\ acc'[b].disabled = acc[b].disabled
                          /\ b # a => acc'[b] = acc[b]
  BY <1>1, <1>3, LeasedAccount DEF IsAccount
<1>5. acc[a].auth \in rejected
  BY <1>1, LeasedAccount DEF CallOK
<1> QED
  BY <1>4, <1>5 DEF Deserved, Needed

\* A verdict kills the account whose session Instagram rejected, and only while
\* that is the pool's session.
LEMMA JudgeIsDeserved ==
    ASSUME IInv, NEW r \in Details, Judge(r)
    PROVE  Deserved /\ Needed
<1> DEFINE a == req[r].a
           disable == req[r].out.disable /\ StillCurrent(r)
<1>1. req[r].pc = "judge" /\ req[r].pc \in LeasePC
  BY DEF Judge, LeasePC
<1>2. CASE acc' = acc
  BY <1>2 DEF Deserved, Needed
<1>3. CASE acc' # acc
  <2> DEFINE reason == IF acc[a].reason = "none"
                          \/ (~req[r].out.retry /\ acc[a].reason = "session_expired")
                       THEN req[r].out.reason ELSE acc[a].reason
             until  == clock + req[r].out.cool
             longer == req[r].out.cool > 0 /\ until > acc[a].cooldown
             d1 == acc[a].disabled \/ disable
             w1 == IF disable THEN reason ELSE acc[a].reason
             u1 == IF longer THEN until ELSE acc[a].cooldown
             mark == disable \/ longer
  <2>1. acc' = [acc EXCEPT
                  ![a].disabled = @ \/ disable,
                  ![a].reason = IF disable THEN reason ELSE @,
                  ![a].cooldown = IF longer THEN until ELSE @,
                  ![a].gate = disable \/ longer]
    BY <1>3 DEF Judge
  <2>2. acc' = [acc EXCEPT ![a].disabled = d1, ![a].reason = w1,
                           ![a].cooldown = u1, ![a].gate = mark]
    <3> HIDE DEF disable, reason, until, longer
    <3> QED
      BY <1>1, <2>1, LeasedAccount DEF IsAccount
  <2>3. (~acc[a].disabled /\ d1) => acc[a].auth \in rejected
    BY <1>1, LeasedAccount DEF CallOK, StillCurrent
  <2> HIDE DEF d1, w1, u1, mark
  <2>4. \A b \in Accounts : /\ acc'[b].auth = acc[b].auth
                            /\ b # a => acc'[b] = acc[b]
    BY <1>1, <2>2, LeasedAccount DEF IsAccount
  <2>5. acc'[a].disabled = d1
    BY <1>1, <2>2, LeasedAccount DEF IsAccount
  <2> QED
    BY <2>3, <2>4, <2>5 DEF Deserved, Needed
<1> QED
  BY <1>2, <1>3

\* The account an update touches.
LEMMA UpdatedAccount ==
    ASSUME IInv, upd.pc # "idle"
    PROVE  upd.a \in Accounts /\ IsAccount(acc[upd.a]) /\ DOMAIN acc = Accounts
  BY DEF IInv, Shaped, Updated

\* An update changes a session only where it publishes the verified one, and
\* kills nothing.
LEMMA UpdateIsNeeded ==
    ASSUME IInv, UpdateStep
    PROVE  Deserved /\ Needed
<1> DEFINE a == upd.a
<1>1. CASE UpdateGate
  <2>1. upd.pc # "idle" /\ (acc' = acc \/ acc' = [acc EXCEPT ![a].gate = TRUE])
    BY <1>1 DEF UpdateGate
  <2>2. Calm
    BY <2>1, UpdatedAccount DEF Calm, IsAccount
  <2> QED
    BY <2>2 DEF Calm, Deserved, Needed
<1>2. CASE NotVerified
  <2>1. upd.pc # "idle" /\ (acc' = acc \/ \E until : acc' = [acc EXCEPT ![a].cooldown = until])
    BY <1>2 DEF NotVerified
  <2>2. Calm
    BY <2>1, UpdatedAccount DEF Calm, IsAccount
  <2> QED
    BY <2>2 DEF Calm, Deserved, Needed
<1>3. CASE PublishUpdate
  <2> DEFINE l == acc[a].login \/ upd.backup
             f == Failure
  <2>1. upd.pc = "publish"
        /\ acc' = [acc EXCEPT ![a].auth = upd.session,
                  ![a].disabled = FALSE, ![a].reason = "none",
                  ![a].login = l,
                  ![a].refreshAfter = 0, ![a].refreshErr = f]
    <3>1. upd.pc = "publish"
        /\ acc' = [acc EXCEPT ![a].auth = upd.session,
                  ![a].disabled = FALSE, ![a].reason = "none",
                  ![a].login = @ \/ upd.backup,
                  ![a].refreshAfter = 0, ![a].refreshErr = f]
      BY <1>3 DEF PublishUpdate
    <3> HIDE DEF f
    <3> QED
      BY <3>1, UpdatedAccount DEF IsAccount
  <2> HIDE DEF l, f
  <2>2. \A b \in Accounts : acc'[b].disabled => acc[b].disabled
    BY <2>1, UpdatedAccount DEF IsAccount
  <2> QED
    BY <2>1, <2>2 DEF Deserved, Needed
<1>4. CASE UpdateLogin
  <2> DEFINE f == Failure
  <2>1. upd.pc # "idle"
        /\ (acc' = acc \/ acc' = [acc EXCEPT ![a].login = TRUE,
                            ![a].refreshAfter = 0, ![a].refreshErr = f])
    BY <1>4 DEF UpdateLogin
  <2> HIDE DEF f
  <2>2. Calm
    BY <2>1, UpdatedAccount DEF Calm, IsAccount
  <2> QED
    BY <2>2 DEF Calm, Deserved, Needed
<1>5. CASE Drain \/ UpdateFlush \/ Verified \/ MarkCooldown \/ FlushCooldown
           \/ SettleCooldown \/ Replace
  <2>1. acc' = acc
    BY <1>5 DEF Drain, UpdateFlush, Verified, MarkCooldown, FlushCooldown,
                SettleCooldown, Replace, poolVars
  <2> QED
    BY <2>1 DEF Deserved, Needed
<1> QED
  BY <1>1, <1>2, <1>3, <1>4, <1>5 DEF UpdateStep

\* A step of one process.
LEMMA StepIsDeserved ==
    ASSUME IInv, restarts \in Nat, [Next]_vars, Running
    PROVE  Deserved /\ Needed
<1>0. Calm => Deserved /\ Needed
  BY DEF Calm, Deserved, Needed
<1>1. ASSUME NEW r \in Details, DetailStep(r) PROVE Deserved /\ Needed
  <2>1. CASE \/ Acquire(r) \/ Renew(r) \/ Login(r) \/ SaveRenewal(r) \/ Settle(r)
             \/ Release(r)
    BY <1>0, <2>1, DetailCalm
  <2>2. CASE \/ Wait(r) \/ Refuse(r) \/ ReadSession(r) \/ CheckAccount(r)
             \/ (\E out \in lookup : Answer(r, out))
             \/ Mark(r) \/ FlushHealth(r) \/ Persist(r)
    <3>1. acc' = acc
      BY <2>2 DEF Wait, Refuse, ReadSession, CheckAccount, Answer, Mark, FlushHealth,
                  Persist, poolVars
    <3> QED
      BY <3>1 DEF Deserved, Needed
  <2> QED
    BY <1>1, <2>1, <2>2, PublishIsNeeded, JudgeIsDeserved DEF DetailStep
<1>2. ASSUME NEW m \in Media, MediaStep(m) PROVE Deserved /\ Needed
  BY <1>0, <1>2, MediaCalm
<1>3. CASE UpdateStep
  BY <1>3, UpdateIsNeeded
<1>4. CASE Environment
  <2>1. acc' = acc
    BY <1>4 DEF Environment, Detail, CancelWait, CancelRequest, MediaCancel, WithMedia,
                CancelUpdate, Close, CloseStore, Tick, poolVars
  <2> QED
    BY <2>1 DEF Deserved, Needed
<1>5. ASSUME NEW a \in Accounts, NEW c \in Offers, BeginUpdate(a, c)
      PROVE  Deserved /\ Needed
  <2>1. acc' = [acc EXCEPT ![a].updating = TRUE]
    BY <1>5 DEF BeginUpdate
  <2>2. DOMAIN acc = Accounts /\ IsAccount(acc[a])
    BY DEF IInv, Shaped
  <2>3. Calm
    BY <2>1, <2>2 DEF Calm, IsAccount
  <2> QED
    BY <1>0, <2>3
<1>6. CASE FinishUpdate
  <2> DEFINE g == acc[upd.a].gate /\ ~upd.gate
  <2>1. upd.pc # "idle"
        /\ acc' = [acc EXCEPT ![upd.a].updating = FALSE, ![upd.a].gate = g]
    <3>1. upd.pc # "idle" /\ acc' = [acc EXCEPT ![upd.a].updating = FALSE,
                                       ![upd.a].gate = @ /\ ~upd.gate]
      BY <1>6 DEF FinishUpdate
    <3> QED
      BY <3>1, UpdatedAccount DEF IsAccount
  <2> HIDE DEF g
  <2>2. Calm
    BY <2>1, UpdatedAccount DEF Calm, IsAccount
  <2> QED
    BY <1>0, <2>2
<1>7. CASE Restart
  BY <1>7 DEF Restart, Running
<1>8. CASE UNCHANGED vars
  BY <1>8 DEF vars, poolVars, Deserved, Needed
<1> QED
  BY <1>1, <1>2, <1>3, <1>4, <1>5, <1>6, <1>7, <1>8 DEF Next, PoolNext

\* Restarts are counted: a step of one process is not a restart.
RestartsCounted == restarts \in Nat

\* The count of restarts stays a number.
LEMMA RestartsAreCounted == Spec => []RestartsCounted
<1>1. Init => RestartsCounted
  BY DEF Init, RestartsCounted
<1>2. RestartsCounted /\ [Next]_vars => RestartsCounted'
  <2> SUFFICES ASSUME restarts \in Nat, [Next]_vars PROVE restarts' \in Nat
    BY DEF RestartsCounted
  <2>1. ASSUME NEW r \in Details, DetailStep(r) PROVE restarts' = restarts
    BY <2>1 DEF DetailStep, Acquire, Wait, Refuse, ReadSession, CheckAccount, Answer,
         Renew, Login, SaveRenewal, Publish, Judge, Mark, FlushHealth, Settle,
         Persist, Release, env
  <2>2. ASSUME NEW m \in Media, MediaStep(m) PROVE restarts' = restarts
    BY <2>2 DEF MediaStep, MediaAcquire, MediaWait, MediaRefuse, MediaRelease, env
  <2>3. CASE UpdateStep
    BY <2>3 DEF UpdateStep, Drain, UpdateFlush, UpdateGate, Verified, NotVerified,
         MarkCooldown, FlushCooldown, SettleCooldown, Replace, PublishUpdate,
         UpdateLogin, env
  <2>4. CASE Environment
    BY <2>4 DEF Environment, Detail, CancelWait, CancelRequest, MediaCancel, WithMedia,
         CancelUpdate, Close, CloseStore, Tick, env
  <2>5. ASSUME NEW a \in Accounts, NEW c \in Offers, BeginUpdate(a, c)
        PROVE  restarts' = restarts
    BY <2>5 DEF BeginUpdate, env
  <2>6. CASE FinishUpdate
    BY <2>6 DEF FinishUpdate, env
  <2>7. CASE Restart
    BY <2>7 DEF Restart
  <2>8. CASE UNCHANGED vars
    BY <2>8 DEF vars, env
  <2> QED
    BY <2>1, <2>2, <2>3, <2>4, <2>5, <2>6, <2>7, <2>8 DEF Next, PoolNext
<1> QED
  BY <1>1, <1>2, PTL DEF Spec

\* An account dies only for a session Instagram has rejected and that is still
\* the pool's, however late the failure of an older session arrives (Judge, on
\* what lookupRecovering returned).
THEOREM DeathDeserved == Spec => DeathIsDeserved
<1>1. IInv /\ RestartsCounted /\ [Next]_vars =>
        [Running => \A a \in Accounts :
            ~acc[a].disabled /\ acc'[a].disabled => acc[a].auth \in rejected]_vars
  BY StepIsDeserved DEF Deserved, RestartsCounted
<1> QED
  BY <1>1, Invariance, RestartsAreCounted, PTL DEF Spec, DeathIsDeserved

\* A renewal replaces only a session that Instagram has rejected: callers that
\* find it rejected together log in once (renew).
THEOREM RenewalNeeded == Spec => RenewalIsNeeded
<1>1. IInv /\ RestartsCounted /\ [Next]_vars =>
        [Running /\ upd.pc # "publish" => \A a \in Loaded :
            acc'[a].auth # acc[a].auth => acc[a].auth \in rejected]_vars
  <2> SUFFICES ASSUME IInv, restarts \in Nat, [Next]_vars, Running, upd.pc # "publish",
                      NEW a \in Loaded, acc'[a].auth # acc[a].auth
               PROVE  acc[a].auth \in rejected
    BY DEF RestartsCounted
  <2>1. a \in Accounts
    BY DEF IInv, Shaped, Loaded, Stored
  <2> QED
    BY <2>1, StepIsDeserved DEF Needed
<1> QED
  BY <1>1, Invariance, RestartsAreCounted, PTL DEF Spec, RenewalIsNeeded

=============================================================================
