---------------------------- MODULE IdentityStore ----------------------------
(***************************************************************************)
(* Persistence of the identity pool: internal/identity/store.go and the    *)
(* opening and closing of the pool in pool.go.                             *)
(*                                                                         *)
(* RAM is authoritative.  One goroutine per process owns the database      *)
(* connection, and with it the advisory lock that makes the process the    *)
(* owner of the schema; it writes the newest checkpoint of every changed   *)
(* item.  Processes may crash, restart and overlap; server processes       *)
(* (backends) may die, or outlive a connection their client gave up; a     *)
(* commit may be lost, or take effect after its client gave up.            *)
(*                                                                         *)
(* An item is an identity or the health of a proxy: the code keeps a       *)
(* pending pointer for the one and a version for the other, and treats     *)
(* both alike.  A state is the stamp of its checkpoint.                    *)
(***************************************************************************)
EXTENDS Integers, FiniteSets

CONSTANTS
  Procs,        \* processes that may own the pool
  Items,
  MaxBackends,  \* bound on backends alive at once
  MaxTokens,    \* bound on openings
  MaxStamp,     \* bound on checkpoints
  MaxFaults     \* bound on crashes, lost connections and failed writes

ASSUME BoundsAssumption == {MaxBackends, MaxTokens, MaxStamp, MaxFaults} \subseteq Nat

Backends == 1..MaxBackends
Nobody == 0
Nothing == [i \in Items |-> 0]

VARIABLES
  (* PostgreSQL *)
  alive,     \* backends that run
  ending,    \* backends told to end, by their client or pg_terminate_backend
  lock,      \* the backend that holds the advisory lock, or Nobody
  token,     \* scrap_ownership.token
  rows,      \* what the item tables hold
  inflight,  \* inflight[b]: the uncommitted batch backend b received
  epochOf,   \* epochOf[b]: the ownership token of the pool that uses b
  writer,    \* history: the epoch of the last commit to the item tables
  (* each process *)
  phase,     \* "off", "opening", "up", "closing", "stopping"
  pc,        \* where its persistence goroutine is
  conn,      \* p.db
  dial,      \* the connection connect is setting up
  owner,     \* p.owner: the backend that last claimed the lock
  mine,      \* p.ownerToken
  last,      \* the stamp of the newest checkpoint of each item
  done,      \* the stamp of the newest saved checkpoint of each item
  batch,     \* saveBatch: the stamps being written, 0 for an item not in it
  through,   \* saveBatch.through
  saved,     \* p.saved
  failed,    \* processes with p.failure # nil
  unwritable,\* processes with p.unwritable # nil
  unsaved,   \* processes whose Close reported unsaved state
  (* bookkeeping *)
  stamp,     \* the newest stamp
  taken,     \* history: taken[P][i]: the checkpoints of P's present pool
  rival,     \* history: processes that saw another one claim the lock
  orphaned,  \* history: processes that lost the reply to a claim
  faults

serverVars == <<alive, ending, lock, epochOf>>
dataVars == <<token, rows, inflight, writer>>
linkVars == <<conn, dial, owner>>
ramVars == <<mine, last, stamp, taken>>
saveVars == <<done, batch, through, saved>>
historyVars == <<rival, orphaned>>
flagVars == <<failed, unwritable, unsaved, historyVars>>
vars == <<serverVars, dataVars, linkVars, ramVars, saveVars, flagVars, phase, pc, faults>>

Init ==
  /\ alive = {} /\ ending = {} /\ lock = Nobody /\ token = 0
  /\ rows = Nothing /\ writer = 0
  /\ inflight = [b \in Backends |-> Nothing]
  /\ epochOf = [b \in Backends |-> 0]
  /\ phase = [P \in Procs |-> "off"]
  /\ pc = [P \in Procs |-> "idle"]
  /\ conn = [P \in Procs |-> Nobody]
  /\ dial = [P \in Procs |-> Nobody]
  /\ owner = [P \in Procs |-> Nobody]
  /\ mine = [P \in Procs |-> 0]
  /\ last = [P \in Procs |-> Nothing]
  /\ done = [P \in Procs |-> Nothing]
  /\ batch = [P \in Procs |-> Nothing]
  /\ through = [P \in Procs |-> 0]
  /\ saved = [P \in Procs |-> 0]
  /\ failed = {} /\ unwritable = {} /\ unsaved = {} /\ rival = {} /\ orphaned = {}
  /\ stamp = 0
  /\ taken = [P \in Procs |-> [i \in Items |-> {}]]
  /\ faults = 0

Dirty(P) == {i \in Items : last[P][i] > done[P][i]}
Serving(P) == phase[P] \in {"up", "closing"}
Syncing(P) == phase[P] \in {"up", "closing", "stopping"} /\ P \notin failed
At(P, here) == pc[P] = here /\ Syncing(P)
Goto(P, to) == pc' = [pc EXCEPT ![P] = to]
Fault == faults < MaxFaults /\ faults' = faults + 1
Connections == {conn[P] : P \in Procs} \cup {dial[P] : P \in Procs}

\* A new backend: a process remembers the pid and start time of its owner and
\* holds the sockets of its connections, so no backend that a process may still
\* ask about, or still has a connection to, is mistaken for it.
Unused == Backends \ (alive \cup Connections \cup {owner[P] : P \in Procs})
Fresh(b) == b \in Unused /\ \A c \in Unused : b <= c

-----------------------------------------------------------------------------
(* PostgreSQL *)

\* A backend ends: the lock is free and its open transaction is gone.
EndBackend(b) ==
  /\ alive' = alive \ {b} /\ ending' = ending \ {b}
  /\ lock' = IF lock = b THEN Nobody ELSE lock
  /\ inflight' = [inflight EXCEPT ![b] = Nothing]
  /\ epochOf' = [epochOf EXCEPT ![b] = 0]

\* A backend that was told to end, or whose client is gone, ends; any other may
\* die with its server.
BackendEnds(b) ==
  /\ b \in alive
  /\ IF b \in ending \/ b \notin Connections THEN UNCHANGED faults ELSE Fault
  /\ EndBackend(b)
  /\ UNCHANGED <<token, rows, writer, linkVars, ramVars, saveVars,
                 flagVars, phase, pc>>

\* A transaction commits: every row of the batch is replaced.
Commit(b) ==
  /\ b \in alive /\ inflight[b] # Nothing
  /\ rows' = [i \in Items |-> IF inflight[b][i] > 0 THEN inflight[b][i] ELSE rows[i]]
  /\ writer' = epochOf[b]
  /\ inflight' = [inflight EXCEPT ![b] = Nothing]
  /\ UNCHANGED <<serverVars, token, linkVars, ramVars, saveVars, flagVars, phase, pc, faults>>

-----------------------------------------------------------------------------
(* Opening a pool: Open and initialize *)

\* Connect and claim; another owner makes Open fail at once.
OpenClaim(P) ==
  /\ phase[P] = "off" /\ token < MaxTokens
  /\ lock = Nobody
  /\ \E b \in Backends :
       /\ Fresh(b)
       /\ alive' = alive \cup {b}
       /\ lock' = b
       /\ dial' = [dial EXCEPT ![P] = b]
       /\ owner' = [owner EXCEPT ![P] = b]
  /\ phase' = [phase EXCEPT ![P] = "opening"]
  /\ rival' = (rival \cup Procs) \ {P} /\ orphaned' = orphaned \ {P}
  /\ unsaved' = unsaved \ {P}
  /\ UNCHANGED <<ending, epochOf, dataVars, conn, ramVars, saveVars, failed, unwritable,
                 pc, faults>>

\* initialize loads every row and commits a new token in the same transaction.
OpenCommit(P) ==
  /\ phase[P] = "opening" /\ dial[P] \in alive
  /\ token' = token + 1
  /\ mine' = [mine EXCEPT ![P] = token + 1]
  /\ epochOf' = [epochOf EXCEPT ![dial[P]] = token + 1]
  /\ last' = [last EXCEPT ![P] = rows]
  /\ done' = [done EXCEPT ![P] = rows]
  /\ conn' = [conn EXCEPT ![P] = dial[P]]
  /\ dial' = [dial EXCEPT ![P] = Nobody]
  /\ phase' = [phase EXCEPT ![P] = "up"]
  /\ UNCHANGED <<alive, ending, lock, rows, inflight, writer, owner, batch, through, saved,
                 taken, stamp, flagVars, pc, faults>>

\* The process ends: its pool and all that was in RAM are gone.
Gone(P) ==
  /\ phase' = [phase EXCEPT ![P] = "off"]
  /\ conn' = [conn EXCEPT ![P] = Nobody]
  /\ dial' = [dial EXCEPT ![P] = Nobody]
  /\ owner' = [owner EXCEPT ![P] = Nobody]
  /\ mine' = [mine EXCEPT ![P] = 0]
  /\ last' = [last EXCEPT ![P] = Nothing]
  /\ done' = [done EXCEPT ![P] = Nothing]
  /\ batch' = [batch EXCEPT ![P] = Nothing]
  /\ through' = [through EXCEPT ![P] = 0]
  /\ saved' = [saved EXCEPT ![P] = 0]
  /\ taken' = [taken EXCEPT ![P] = [i \in Items |-> {}]]
  /\ failed' = failed \ {P} /\ unwritable' = unwritable \ {P}
  /\ Goto(P, "idle")

\* Open fails: its backend died, or the reply to its commit was lost after the
\* new token was stored.
OpenFails(P) ==
  /\ phase[P] = "opening"
  /\ \/ dial[P] \notin alive /\ UNCHANGED <<token, faults>>
     \/ dial[P] \in alive /\ Fault /\ token' = token + 1
  /\ Gone(P)
  /\ UNCHANGED <<serverVars, rows, inflight, writer, stamp, unsaved, historyVars>>

\* A crash loses RAM; what the server does with the connection is up to it.
Crash(P) ==
  /\ phase[P] # "off"
  /\ Fault
  /\ Gone(P)
  /\ UNCHANGED <<serverVars, dataVars, stamp, unsaved, historyVars>>

-----------------------------------------------------------------------------
(* RAM *)

\* checkpointLocked and failedLocked: an operation ended.  Leases are out until
\* Close's wait returns, also after the pool failed.
Checkpoint(P, i) ==
  /\ Serving(P)
  /\ stamp < MaxStamp
  /\ stamp' = stamp + 1
  /\ last' = [last EXCEPT ![P][i] = stamp + 1]
  /\ taken' = [taken EXCEPT ![P][i] = @ \cup {stamp + 1}]
  /\ UNCHANGED <<serverVars, dataVars, linkVars, mine, saveVars, flagVars, phase, pc, faults>>

-----------------------------------------------------------------------------
(* sync: reconnecting *)

\* The client lets go of backend b; a goodbye that arrives makes it end.
LetGo(b) == ending' \in {ending, ending \cup ({b} \cap alive)}

\* An error that is not fatal: connect closes its connection and persist tries
\* again later.
DialFails(P) ==
  /\ dial' = [dial EXCEPT ![P] = Nobody]
  /\ LetGo(dial[P])
  /\ Goto(P, "idle")

\* errOwnershipLost is fatal: persist fails the pool, saveBeforeClose gives up.
OwnershipLost(P) ==
  /\ dial' = [dial EXCEPT ![P] = Nobody]
  /\ LetGo(dial[P])
  /\ IF phase[P] = "stopping"
     THEN Goto(P, "lost") /\ UNCHANGED failed
     ELSE Goto(P, "idle") /\ failed' = failed \cup {P}

Dial(P) ==
  /\ At(P, "idle") /\ conn[P] = Nobody
  /\ phase[P] = "stopping" => Dirty(P) # {}
  /\ \E b \in Backends :
       /\ Fresh(b)
       /\ alive' = alive \cup {b}
       /\ epochOf' = [epochOf EXCEPT ![b] = mine[P]]
       /\ dial' = [dial EXCEPT ![P] = b]
  /\ Goto(P, "claim1")
  /\ UNCHANGED <<ending, lock, dataVars, conn, owner, ramVars, saveVars, flagVars, phase, faults>>

\* claim: pg_try_advisory_lock on the new connection.
Claim(P) ==
  /\ At(P, "claim1") \/ At(P, "claim2")
  /\ dial[P] \in alive
  /\ IF lock = Nobody
     THEN /\ lock' = dial[P]
          /\ owner' = [owner EXCEPT ![P] = dial[P]]
          /\ rival' = rival \cup (Procs \ {P})
          /\ Goto(P, "token")
     ELSE /\ Goto(P, IF pc[P] = "claim1" THEN "lookup1" ELSE "lookup2")
          /\ UNCHANGED <<lock, owner, rival>>
  /\ UNCHANGED <<alive, ending, epochOf, dataVars, conn, dial, ramVars, saveVars,
                 failed, unwritable, unsaved, orphaned, phase, faults>>

\* The server took the lock for this connection and the reply never arrived.
ClaimLost(P) ==
  /\ At(P, "claim1") \/ At(P, "claim2")
  /\ dial[P] \in alive /\ lock = Nobody
  /\ Fault
  /\ lock' = dial[P]
  /\ rival' = rival \cup (Procs \ {P}) /\ orphaned' = orphaned \cup {P}
  /\ DialFails(P)
  /\ UNCHANGED <<alive, epochOf, dataVars, conn, owner, ramVars, saveVars, failed, unwritable,
                 unsaved, phase>>

\* A statement of connect fails: the connection breaks, or the server refuses it.
\* persist pauses admission after a refusal that is permanent.
DialBreaks(P) ==
  /\ pc[P] \in {"claim1", "lookup1", "claim2", "lookup2", "token"} /\ Syncing(P)
  /\ IF dial[P] \in alive THEN Fault ELSE UNCHANGED faults
  /\ DialFails(P)
  /\ \/ UNCHANGED unwritable
     \/ /\ dial[P] \in alive /\ phase[P] # "stopping"
        /\ unwritable' = unwritable \cup {P}
  /\ UNCHANGED <<alive, lock, epochOf, dataVars, conn, owner, ramVars, saveVars,
                 failed, unsaved, historyVars, phase>>

\* retake: end the backend of this process's previous connection, if it runs.
MutantLookup(P) ==
  /\ At(P, "lookup1") \/ At(P, "lookup2")
  /\ dial[P] \in alive
  /\ DialFails(P)
  /\ UNCHANGED <<failed, alive, lock, epochOf, dataVars, conn, owner, ramVars, saveVars,
                 unwritable, unsaved, historyVars, phase, faults>>
MutantLookupOnce(P) ==
  /\ At(P, "lookup1") \/ At(P, "lookup2")
  /\ dial[P] \in alive
  /\ \/ /\ owner[P] \in alive
        /\ ending' = ending \cup {owner[P], dial[P]}
        /\ dial' = [dial EXCEPT ![P] = Nobody]
        /\ Goto(P, "idle")
        /\ UNCHANGED failed
     \/ owner[P] \notin alive /\ OwnershipLost(P)
  /\ UNCHANGED <<alive, lock, epochOf, dataVars, conn, owner, ramVars, saveVars,
                 unwritable, unsaved, historyVars, phase, faults>>
Lookup(P) ==
  /\ At(P, "lookup1") \/ At(P, "lookup2")
  /\ dial[P] \in alive
  /\ \/ /\ owner[P] \in alive                  \* errPreviousOwner
        /\ \/ ending' = ending \cup {owner[P], dial[P]} /\ UNCHANGED faults
           \/ ending' = ending \cup {owner[P]} /\ Fault    \* the goodbye is lost
        /\ dial' = [dial EXCEPT ![P] = Nobody]
        /\ Goto(P, "idle")
        /\ UNCHANGED failed
     \/ /\ owner[P] \notin alive /\ pc[P] = "lookup1"
        /\ Goto(P, "claim2")
        /\ UNCHANGED <<ending, dial, failed, faults>>
     \/ /\ owner[P] \notin alive /\ pc[P] = "lookup2"
        /\ OwnershipLost(P) /\ UNCHANGED faults
  /\ UNCHANGED <<alive, lock, epochOf, dataVars, conn, owner, ramVars, saveVars,
                 unwritable, unsaved, historyVars, phase>>

\* connect: a pool that loaded the rows since then has changed the token.
MutantCheckToken(P) ==
  /\ At(P, "token") /\ dial[P] \in alive
  /\ conn' = [conn EXCEPT ![P] = dial[P]]
  /\ dial' = [dial EXCEPT ![P] = Nobody]
  /\ Goto(P, "idle")
  /\ UNCHANGED <<ending, failed>>
  /\ UNCHANGED <<alive, lock, epochOf, dataVars, owner, ramVars, saveVars,
                 unwritable, unsaved, historyVars, phase, faults>>
CheckToken(P) ==
  /\ At(P, "token") /\ dial[P] \in alive
  /\ IF token = mine[P]
     THEN /\ conn' = [conn EXCEPT ![P] = dial[P]]
          /\ dial' = [dial EXCEPT ![P] = Nobody]
          /\ Goto(P, "idle")
          /\ UNCHANGED <<ending, failed>>
     ELSE OwnershipLost(P) /\ UNCHANGED conn
  /\ UNCHANGED <<alive, lock, epochOf, dataVars, owner, ramVars, saveVars,
                 unwritable, unsaved, historyVars, phase, faults>>

-----------------------------------------------------------------------------
(* sync: saving *)

\* sync on an open connection: collectLocked, and what write sends for it.
Collect(P) ==
  /\ At(P, "idle") /\ conn[P] # Nobody
  /\ batch' = [batch EXCEPT ![P] = [i \in Items |-> IF i \in Dirty(P) THEN last[P][i] ELSE 0]]
  /\ through' = [through EXCEPT ![P] = stamp]
  /\ IF Dirty(P) # {} /\ conn[P] \in alive
     THEN inflight' = [inflight EXCEPT ![conn[P]] = batch'[P]]
     ELSE UNCHANGED inflight
  /\ Goto(P, "wait")
  /\ UNCHANGED <<serverVars, token, rows, writer, linkVars, ramVars, done, saved, flagVars,
                 phase, faults>>

\* savedLocked after a confirmed commit, or after a probe with nothing to save:
\* a checkpoint taken during the write stays dirty.
MutantSaved(P) ==
  /\ done' = [done EXCEPT ![P] = [i \in Items |-> IF batch[P][i] > 0 THEN last[P][i] ELSE done[P][i]]]
  /\ saved' = [saved EXCEPT ![P] = through[P]]
SavedLocked(P) ==
  /\ done' = [done EXCEPT ![P] = [i \in Items |-> IF batch[P][i] > 0 THEN batch[P][i] ELSE done[P][i]]]
  /\ saved' = [saved EXCEPT ![P] = IF through[P] > @ THEN through[P] ELSE @]

\* The reply to the commit arrives.  With nothing to save there is a ping only
\* when the timer fired, so a dead connection may go unnoticed.
MutantConfirmed(P) ==
  /\ At(P, "wait")
  /\ batch[P] # Nothing => conn[P] \in alive /\ inflight[conn[P]] = Nothing
  /\ SavedLocked(P)
  /\ batch' = [batch EXCEPT ![P] = Nothing]
  /\ through' = [through EXCEPT ![P] = 0]
  /\ Goto(P, IF phase[P] = "stopping" THEN "saved" ELSE "idle")
  /\ UNCHANGED <<serverVars, dataVars, linkVars, ramVars, flagVars, phase, faults>>
Confirmed(P) ==
  /\ At(P, "wait")
  /\ batch[P] # Nothing => conn[P] \in alive /\ inflight[conn[P]] = Nothing
  /\ SavedLocked(P)
  /\ unwritable' = IF phase[P] = "stopping" THEN unwritable ELSE unwritable \ {P}
  /\ batch' = [batch EXCEPT ![P] = Nothing]
  /\ through' = [through EXCEPT ![P] = 0]
  /\ Goto(P, IF phase[P] = "stopping" THEN "saved" ELSE "idle")
  /\ UNCHANGED <<serverVars, dataVars, linkVars, ramVars, failed, unsaved, historyVars, phase, faults>>

\* The write fails and the connection survives: the statement was refused or
\* cancelled and its transaction rolled back, or it committed and the reply came
\* too late.  A permanent error pauses admission.
WriteFails(P) ==
  /\ At(P, "wait") /\ batch[P] # Nothing
  /\ conn[P] \in alive
  /\ Fault
  /\ inflight' = [inflight EXCEPT ![conn[P]] = Nothing]
  /\ \/ UNCHANGED unwritable
     \/ phase[P] # "stopping" /\ unwritable' = unwritable \cup {P}
  /\ batch' = [batch EXCEPT ![P] = Nothing]
  /\ through' = [through EXCEPT ![P] = 0]
  /\ Goto(P, "idle")
  /\ UNCHANGED <<serverVars, token, rows, writer, linkVars, ramVars, done, saved,
                 failed, unsaved, historyVars, phase>>

\* The connection is lost: dropIfClosed and disconnect.  A backend that is still
\* alive keeps the lock, and may yet commit what it received.
ConnectionLost(P) ==
  /\ At(P, "wait")
  /\ IF conn[P] \in alive THEN Fault ELSE UNCHANGED faults
  /\ conn' = [conn EXCEPT ![P] = Nobody]
  /\ batch' = [batch EXCEPT ![P] = Nothing]
  /\ through' = [through EXCEPT ![P] = 0]
  /\ Goto(P, "idle")
  /\ UNCHANGED <<serverVars, dataVars, dial, owner, ramVars, done, saved, flagVars, phase>>

-----------------------------------------------------------------------------
(* Close *)

Close(P) ==
  /\ phase[P] = "up"
  /\ phase' = [phase EXCEPT ![P] = "closing"]
  /\ UNCHANGED <<serverVars, dataVars, linkVars, ramVars, saveVars, flagVars, pc, faults>>

\* workers.Wait returned, and persist sees persistStop: saveBeforeClose starts.
Stop(P) ==
  /\ phase[P] = "closing" /\ pc[P] = "idle"
  /\ phase' = [phase EXCEPT ![P] = "stopping"]
  /\ UNCHANGED <<serverVars, dataVars, linkVars, ramVars, saveVars, flagVars, pc, faults>>

\* saveBeforeClose returns: the pool failed before, nothing is left to save, or
\* it reports unsaved state because ownership is lost or the deadline passed.
MutantNothingLeft(P) == (conn[P] = Nobody /\ pc[P] = "idle") \/ pc[P] = "saved"
NothingLeft(P) == (conn[P] = Nobody /\ pc[P] = "idle" /\ Dirty(P) = {}) \/ pc[P] = "saved"
Closed(P) ==
  /\ phase[P] = "stopping"
  /\ \/ (P \in failed \/ NothingLeft(P)) /\ UNCHANGED unsaved
     \/ /\ P \notin failed /\ ~NothingLeft(P)
        /\ pc[P] \in {"idle", "lost"}
        /\ unsaved' = unsaved \cup {P}
  /\ LetGo(conn[P])
  /\ Gone(P)
  /\ UNCHANGED <<alive, lock, epochOf, dataVars, stamp, historyVars, faults>>

-----------------------------------------------------------------------------

Server == \E b \in Backends : BackendEnds(b) \/ Commit(b)

Opening(P) == OpenClaim(P) \/ OpenCommit(P) \/ OpenFails(P)
Sync(P) ==
  \/ Dial(P) \/ Claim(P) \/ ClaimLost(P) \/ DialBreaks(P) \/ Lookup(P) \/ CheckToken(P)
  \/ Collect(P) \/ Confirmed(P) \/ WriteFails(P) \/ ConnectionLost(P)
Closing(P) == Close(P) \/ Stop(P) \/ Closed(P)

Next ==
  \/ Server
  \/ \E P \in Procs : Opening(P) \/ Crash(P) \/ Sync(P) \/ Closing(P)
  \/ \E P \in Procs, i \in Items : Checkpoint(P, i)

\* The persistence goroutine runs: its timer fires every few seconds, and every
\* database call it makes has a deadline.  A connected backend works, and one
\* that was told to end does.  An abandoned backend may live for ever.
Fairness ==
  /\ \A P \in Procs : WF_vars(Sync(P))
  /\ \A b \in Backends : /\ WF_vars(Commit(b))
                          /\ WF_vars(b \in ending /\ BackendEnds(b))

Spec == Init /\ [][Next]_vars
FairSpec == Spec /\ Fairness

-----------------------------------------------------------------------------
(* Properties *)

TypeOK ==
  /\ alive \subseteq Backends /\ ending \subseteq alive
  /\ lock \in alive \cup {Nobody}
  /\ token \in Nat /\ writer \in Nat /\ stamp \in Nat /\ faults \in Nat
  /\ rows \in [Items -> Nat]
  /\ inflight \in [Backends -> [Items -> Nat]]
  /\ epochOf \in [Backends -> Nat]
  /\ phase \in [Procs -> {"off", "opening", "up", "closing", "stopping"}]
  /\ pc \in [Procs -> {"idle", "claim1", "lookup1", "claim2", "lookup2", "token", "wait",
                       "saved", "lost"}]
  /\ conn \in [Procs -> Backends \cup {Nobody}]
  /\ dial \in [Procs -> Backends \cup {Nobody}]
  /\ owner \in [Procs -> Backends \cup {Nobody}]
  /\ mine \in [Procs -> Nat]
  /\ last \in [Procs -> [Items -> Nat]] /\ done \in [Procs -> [Items -> Nat]]
  /\ batch \in [Procs -> [Items -> Nat]]
  /\ through \in [Procs -> Nat] /\ saved \in [Procs -> Nat]
  /\ failed \subseteq Procs /\ unwritable \subseteq Procs
  /\ unsaved \subseteq Procs /\ {rival, orphaned} \subseteq SUBSET Procs
  /\ taken \in [Procs -> [Items -> SUBSET Nat]]

\* A pool that works on a live connection owns the schema: it holds the lock and
\* no pool has loaded the rows since.  So no two pools save at the same time.
ConnectedIsOwner ==
  \A P \in Procs : conn[P] \in alive => lock = conn[P] /\ token = mine[P]

\* A late commit of a connection its client gave up, or of a process that is
\* gone, never overwrites what a later owner loaded or saved.
Owned == INSTANCE OwnedRows WITH epoch <- token
ImplementsOwnedRows == Owned!Spec

\* What the pool believes saved is in PostgreSQL: the items it no longer holds
\* dirty, and every checkpoint flush waited for.
SavedIsDurable ==
  \A P \in Procs, i \in Items : phase[P] \in {"up", "closing", "stopping"} =>
     /\ done[P][i] <= rows[i]
     /\ \A s \in taken[P][i] : s <= saved[P] => s <= rows[i]

\* A Close that reports no error left nothing behind, unless the pool had lost
\* its identities to another process.
CloseStep ==
  \A P \in Procs :
     (phase[P] = "stopping" /\ phase'[P] = "off" /\ UNCHANGED faults
      /\ P \notin failed \cup unsaved')
       => \A i \in Items : last[P][i] <= rows[i]
CloseMeansSaved == [][CloseStep]_vars

\* "Any other holder is a different process, so this pool must stop": a pool
\* gives up only because another process has claimed the schema.
FailedMeansRival == failed \subseteq rival

\* A pool gives up only because another process has claimed the schema, or
\* because the reply to a claim of its own was lost: an exit of the previous
\* backend between the claim and its lookup is never taken for a rival.
FailedIsExplained == failed \subseteq rival \cup orphaned

\* As long as the pool serves, each checkpoint reaches PostgreSQL and a permanent
\* save error is forgotten, whatever connections were lost before.
EventuallySaved ==
  \A P \in Procs : (phase[P] = "up" /\ Dirty(P) # {})
                     ~> (phase[P] # "up" \/ P \in failed \/ Dirty(P) = {})
EventuallyWritable ==
  \A P \in Procs : (phase[P] = "up" /\ P \in unwritable)
                     ~> (phase[P] # "up" \/ P \in failed \/ P \notin unwritable)
=============================================================================
