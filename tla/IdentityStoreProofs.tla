------------------------- MODULE IdentityStoreProofs -------------------------
(***************************************************************************)
(* Proofs about IdentityStore, for every set of processes and items and    *)
(* every bound: who owns the rows, that PostgreSQL holds what a pool       *)
(* believes saved, why a pool gives up, and the refinement of OwnedRows.   *)
(***************************************************************************)
EXTENDS IdentityStore, TLAPS

Live(P) == phase[P] \in {"up", "closing", "stopping"}
Dialling == {"claim1", "lookup1", "claim2", "lookup2", "token"}

\* Which connections a process has at each point of its life, and which of them
\* was the last to claim the lock.
Links ==
  \A P \in Procs :
    /\ phase[P] = "off" => conn[P] = Nobody /\ dial[P] = Nobody /\ owner[P] = Nobody
    /\ phase[P] = "opening" => conn[P] = Nobody /\ dial[P] # Nobody /\ owner[P] = dial[P]
    /\ ~Live(P) => pc[P] = "idle" /\ P \notin failed
    /\ Live(P) => (pc[P] \in Dialling <=> dial[P] # Nobody)
    /\ pc[P] \in Dialling => conn[P] = Nobody
    /\ pc[P] = "wait" => conn[P] # Nobody
    /\ pc[P] = "saved" => phase[P] = "stopping"
    /\ pc[P] = "token" => owner[P] = dial[P]
    /\ conn[P] # Nobody => owner[P] = conn[P]
    /\ P \in failed => pc[P] = "idle"

\* No backend serves two processes, dead or alive.
Distinct ==
  \A P, Q \in Procs : P # Q =>
    /\ owner[P] # Nobody => owner[P] # owner[Q] /\ owner[P] # dial[Q]
    /\ dial[P] # Nobody => dial[P] # dial[Q]

\* A connection that is in use holds the lock, and so does a backend with an
\* uncommitted batch, abandoned or not: its epoch is the present one.
Ownership ==
  /\ \A P \in Procs : conn[P] \in alive =>
       lock = conn[P] /\ token = mine[P] /\ epochOf[conn[P]] = mine[P]
  /\ \A P \in Procs : dial[P] \in alive =>
       /\ inflight[dial[P]] = Nothing
       /\ pc[P] = "token" \/ phase[P] = "opening" => lock = dial[P]
       /\ Live(P) => epochOf[dial[P]] = mine[P]
  /\ \A b \in Backends : inflight[b] # Nothing => lock = b /\ epochOf[b] = token

\* Every pool has a token of its own.
Epochs ==
  /\ \A P \in Procs : mine[P] <= token
  /\ \A P, Q \in Procs : P # Q /\ Live(P) /\ Live(Q) => mine[P] # mine[Q]

\* Stamps grow: from the rows to an uncommitted batch to the owner's RAM.
Growing ==
  /\ \A i \in Items : rows[i] <= stamp
  /\ \A P \in Procs, i \in Items : last[P][i] <= stamp
  /\ \A b \in Backends, i \in Items : inflight[b][i] <= stamp
  /\ \A b \in Backends, i \in Items : inflight[b][i] > 0 => rows[i] <= inflight[b][i]
  /\ \A P \in Procs, i \in Items : Live(P) /\ mine[P] = token =>
       /\ rows[i] <= last[P][i]
       /\ \A b \in Backends : inflight[b][i] <= last[P][i]

\* What a pool's bookkeeping says of its checkpoints.
Bookkeeping ==
  \A P \in Procs :
    /\ through[P] <= stamp /\ saved[P] <= stamp
    /\ pc[P] # "wait" /\ conn[P] \in alive => inflight[conn[P]] = Nothing
    /\ pc[P] = "wait" /\ conn[P] \in alive /\ inflight[conn[P]] # Nothing =>
         inflight[conn[P]] = batch[P]
    /\ pc[P] = "wait" /\ conn[P] \in alive /\ inflight[conn[P]] = Nothing =>
         \A i \in Items : batch[P][i] <= rows[i]
    /\ \A i \in Items :
         /\ Live(P) => done[P][i] <= rows[i]
         /\ ~Live(P) => taken[P][i] = {}
         /\ \A s \in taken[P][i] : s <= last[P][i]
         /\ \A s \in taken[P][i] : s <= saved[P] => s <= rows[i]
         /\ pc[P] = "wait" => \A s \in taken[P][i] :
              s <= through[P] => s <= batch[P][i] \/ s <= done[P][i]
         /\ pc[P] = "wait" /\ phase[P] = "stopping" =>
              IF batch[P][i] > 0 THEN last[P][i] <= batch[P][i] ELSE last[P][i] <= done[P][i]
         /\ pc[P] = "saved" => last[P][i] <= done[P][i]

\* What a process that gives up, or is about to, has seen.
Suspicion ==
  \A P \in Procs :
    /\ phase[P] = "opening" /\ dial[P] \in alive => Procs \ {P} \subseteq rival
    /\ Live(P) /\ token # mine[P] => P \in rival
    /\ phase[P] # "off" /\ lock # Nobody /\ lock # owner[P] => P \in rival \cup orphaned
    /\ pc[P] \in {"claim2", "lookup2"} => owner[P] \notin alive
    /\ pc[P] = "lookup2" => P \in rival \cup orphaned
    /\ P \in failed => P \in rival \cup orphaned

-----------------------------------------------------------------------------
(* Types *)

\* Nobody is no backend, and an empty batch is one.
LEMMA ConstantFacts == /\ Nobody \notin Backends
                       /\ Nothing \in [Items -> Nat]
                       /\ \A i \in Items : Nothing[i] = 0
  BY BoundsAssumption DEF Nobody, Backends, Nothing

\* The pool starts with typed state.
LEMMA TypeInit == Init => TypeOK
  BY ConstantFacts DEF Init, TypeOK

\* Every step keeps the types.
LEMMA TypeStep == TypeOK /\ [Next]_vars => TypeOK'
<1> SUFFICES ASSUME TypeOK, [Next]_vars PROVE TypeOK'
  OBVIOUS
<1> USE ConstantFacts DEF TypeOK, serverVars, dataVars, linkVars, ramVars, saveVars, flagVars, historyVars
<1>1. ASSUME NEW b \in Backends, BackendEnds(b) PROVE TypeOK'
  BY <1>1 DEF BackendEnds, EndBackend, Fault
<1>2. ASSUME NEW b \in Backends, Commit(b) PROVE TypeOK'
  BY <1>2 DEF Commit
<1>3. ASSUME NEW P \in Procs, OpenClaim(P) PROVE TypeOK'
  BY <1>3 DEF OpenClaim, Fresh, Unused, Connections
<1>4. ASSUME NEW P \in Procs, OpenCommit(P) PROVE TypeOK'
  BY <1>4 DEF OpenCommit
<1>5. ASSUME NEW P \in Procs, OpenFails(P) PROVE TypeOK'
  BY <1>5 DEF OpenFails, Gone, Goto, Fault
<1>6. ASSUME NEW P \in Procs, Crash(P) PROVE TypeOK'
  BY <1>6 DEF Crash, Gone, Goto, Fault
<1>7. ASSUME NEW P \in Procs, Dial(P) PROVE TypeOK'
  BY <1>7 DEF Dial, At, Syncing, Goto, Fresh, Unused, Connections
<1>8. ASSUME NEW P \in Procs, Claim(P) PROVE TypeOK'
  <2>1. \E to \in {"token", "lookup1", "lookup2"} : pc' = [pc EXCEPT ![P] = to]
    BY <1>8 DEF Claim, Goto
  <2>2. lock' \in alive' \cup {Nobody} /\ owner' \in [Procs -> Backends \cup {Nobody}]
        /\ rival' \subseteq Procs
    BY <1>8 DEF Claim
  <2>3. pc' \in [Procs -> {"idle", "claim1", "lookup1", "claim2", "lookup2", "token", "wait",
                           "saved", "lost"}]
    BY <2>1
  <2> QED
    BY <1>8, <2>2, <2>3 DEF Claim
<1>9. ASSUME NEW P \in Procs, ClaimLost(P) PROVE TypeOK'
  BY <1>9 DEF ClaimLost, At, Syncing, Goto, DialFails, LetGo, Fault
<1>10. ASSUME NEW P \in Procs, DialBreaks(P) PROVE TypeOK'
  BY <1>10 DEF DialBreaks, Syncing, Goto, DialFails, LetGo, Fault
<1>11. ASSUME NEW P \in Procs, Lookup(P) PROVE TypeOK'
  <2>1. ending' \subseteq alive
    <3>1. CASE owner[P] \in alive
      BY <1>11, <3>1 DEF Lookup
    <3>2. CASE owner[P] \notin alive
      BY <1>11, <3>2 DEF Lookup, OwnershipLost, LetGo
    <3> QED
      BY <3>1, <3>2
  <2>2. dial' = dial \/ dial' = [dial EXCEPT ![P] = Nobody]
    BY <1>11 DEF Lookup, OwnershipLost
  <2>3. failed' = failed \/ failed' = failed \cup {P}
    BY <1>11 DEF Lookup, OwnershipLost
  <2>4. \E to \in {"idle", "claim2", "lost"} : pc' = [pc EXCEPT ![P] = to]
    BY <1>11 DEF Lookup, OwnershipLost, Goto
  <2>5. pc' \in [Procs -> {"idle", "claim1", "lookup1", "claim2", "lookup2", "token", "wait",
                           "saved", "lost"}]
    BY <2>4
  <2>6. UNCHANGED <<alive, lock, epochOf, dataVars, conn, owner, ramVars, saveVars,
                 unwritable, unsaved, historyVars, phase>>
    BY <1>11 DEF Lookup
  <2>7. faults' \in Nat
    BY <1>11 DEF Lookup, Fault
  <2> QED
    BY <2>1, <2>2, <2>3, <2>5, <2>6, <2>7
<1>12. ASSUME NEW P \in Procs, CheckToken(P) PROVE TypeOK'
  <2>1. CASE token = mine[P]
    BY <1>12, <2>1 DEF CheckToken, At, Syncing, Goto
  <2>2. CASE token # mine[P]
    <3>1. ending' \subseteq alive
      BY <1>12, <2>2 DEF CheckToken, OwnershipLost, LetGo
    <3>2. dial' = [dial EXCEPT ![P] = Nobody]
      BY <1>12, <2>2 DEF CheckToken, OwnershipLost
    <3>3. failed' = failed \/ failed' = failed \cup {P}
      BY <1>12, <2>2 DEF CheckToken, OwnershipLost
    <3>4. pc' = [pc EXCEPT ![P] = "idle"] \/ pc' = [pc EXCEPT ![P] = "lost"]
      BY <1>12, <2>2 DEF CheckToken, OwnershipLost, Goto
    <3> QED
      BY <1>12, <2>2, <3>1, <3>2, <3>3, <3>4 DEF CheckToken
  <2> QED
    BY <2>1, <2>2
<1>13. ASSUME NEW P \in Procs, Collect(P) PROVE TypeOK'
  <2>1. batch' \in [Procs -> [Items -> Nat]] /\ through' \in [Procs -> Nat]
    BY <1>13 DEF Collect
  <2>2. inflight' \in [Backends -> [Items -> Nat]]
    BY <1>13, <2>1 DEF Collect
  <2> QED
    BY <1>13, <2>1, <2>2 DEF Collect, Goto
<1>14. ASSUME NEW P \in Procs, Confirmed(P) PROVE TypeOK'
  BY <1>14 DEF Confirmed, At, Syncing, Goto, SavedLocked
<1>15. ASSUME NEW P \in Procs, WriteFails(P) PROVE TypeOK'
  BY <1>15 DEF WriteFails, At, Syncing, Goto, Fault
<1>16. ASSUME NEW P \in Procs, ConnectionLost(P) PROVE TypeOK'
  BY <1>16 DEF ConnectionLost, At, Syncing, Goto, Fault
<1>17. ASSUME NEW P \in Procs, Close(P) PROVE TypeOK'
  BY <1>17 DEF Close
<1>18. ASSUME NEW P \in Procs, Stop(P) PROVE TypeOK'
  BY <1>18 DEF Stop
<1>19. ASSUME NEW P \in Procs, Closed(P) PROVE TypeOK'
  BY <1>19 DEF Closed, NothingLeft, Dirty, LetGo, Gone, Goto
<1>20. ASSUME NEW P \in Procs, NEW i \in Items, Checkpoint(P, i) PROVE TypeOK'
  BY <1>20 DEF Checkpoint, Serving
<1>21. CASE UNCHANGED vars
  BY <1>21 DEF vars
<1> QED
  BY <1>1, <1>2, <1>3, <1>4, <1>5, <1>6, <1>7, <1>8, <1>9, <1>10, <1>11, <1>12, <1>13, <1>14, <1>15, <1>16, <1>17, <1>18, <1>19, <1>20, <1>21 DEF Next, Server, Opening, Sync, Closing

-----------------------------------------------------------------------------
(* Connections *)

\* A pool that is off has no connection.
LEMMA LinksInit == Init => Links
  BY DEF Init, Links, Live, Dialling

\* Every step keeps the shape of a process's connections.
LEMMA LinksStep == TypeOK /\ Links /\ [Next]_vars => Links'
<1> SUFFICES ASSUME TypeOK, Links, [Next]_vars PROVE Links'
  OBVIOUS
<1> USE ConstantFacts DEF TypeOK, Links, Live, Dialling, serverVars, dataVars, linkVars, ramVars, saveVars, flagVars, historyVars
<1>1. ASSUME NEW b \in Backends, BackendEnds(b) PROVE Links'
  BY <1>1 DEF BackendEnds, EndBackend, Fault
<1>2. ASSUME NEW b \in Backends, Commit(b) PROVE Links'
  BY <1>2 DEF Commit
<1>3. ASSUME NEW P \in Procs, OpenClaim(P) PROVE Links'
  BY <1>3 DEF OpenClaim, Fresh, Unused, Connections
<1>4. ASSUME NEW P \in Procs, OpenCommit(P) PROVE Links'
  BY <1>4 DEF OpenCommit
<1>5. ASSUME NEW P \in Procs, OpenFails(P) PROVE Links'
  BY <1>5 DEF OpenFails, Gone, Goto, Fault
<1>6. ASSUME NEW P \in Procs, Crash(P) PROVE Links'
  BY <1>6 DEF Crash, Gone, Goto, Fault
<1>7. ASSUME NEW P \in Procs, Dial(P) PROVE Links'
  BY <1>7 DEF Dial, At, Syncing, Goto, Fresh, Unused, Connections
<1>8. ASSUME NEW P \in Procs, Claim(P) PROVE Links'
  BY <1>8 DEF Claim, At, Syncing, Goto
<1>9. ASSUME NEW P \in Procs, ClaimLost(P) PROVE Links'
  BY <1>9 DEF ClaimLost, At, Syncing, Goto, DialFails, LetGo, Fault
<1>10. ASSUME NEW P \in Procs, DialBreaks(P) PROVE Links'
  BY <1>10 DEF DialBreaks, Syncing, Goto, DialFails, LetGo, Fault
<1>11. ASSUME NEW P \in Procs, Lookup(P) PROVE Links'
  BY <1>11 DEF Lookup, At, Syncing, Goto, OwnershipLost, LetGo
<1>12. ASSUME NEW P \in Procs, CheckToken(P) PROVE Links'
  BY <1>12 DEF CheckToken, At, Syncing, Goto, OwnershipLost, LetGo
<1>13. ASSUME NEW P \in Procs, Collect(P) PROVE Links'
  BY <1>13 DEF Collect, At, Syncing, Goto, Dirty
<1>14. ASSUME NEW P \in Procs, Confirmed(P) PROVE Links'
  BY <1>14 DEF Confirmed, At, Syncing, Goto, SavedLocked
<1>15. ASSUME NEW P \in Procs, WriteFails(P) PROVE Links'
  BY <1>15 DEF WriteFails, At, Syncing, Goto, Fault
<1>16. ASSUME NEW P \in Procs, ConnectionLost(P) PROVE Links'
  BY <1>16 DEF ConnectionLost, At, Syncing, Goto, Fault
<1>17. ASSUME NEW P \in Procs, Close(P) PROVE Links'
  BY <1>17 DEF Close
<1>18. ASSUME NEW P \in Procs, Stop(P) PROVE Links'
  BY <1>18 DEF Stop
<1>19. ASSUME NEW P \in Procs, Closed(P) PROVE Links'
  BY <1>19 DEF Closed, NothingLeft, Dirty, LetGo, Gone, Goto
<1>20. ASSUME NEW P \in Procs, NEW i \in Items, Checkpoint(P, i) PROVE Links'
  BY <1>20 DEF Checkpoint, Serving
<1>21. CASE UNCHANGED vars
  BY <1>21 DEF vars
<1> QED
  BY <1>1, <1>2, <1>3, <1>4, <1>5, <1>6, <1>7, <1>8, <1>9, <1>10, <1>11, <1>12, <1>13, <1>14, <1>15, <1>16, <1>17, <1>18, <1>19, <1>20, <1>21 DEF Next, Server, Opening, Sync, Closing

\* At first nobody has a backend.
LEMMA DistinctInit == Init => Distinct
  BY DEF Init, Distinct

\* A new backend is one that no process knows.
LEMMA DistinctStep == TypeOK /\ Links /\ Distinct /\ [Next]_vars => Distinct'
<1> SUFFICES ASSUME TypeOK, Links, Distinct, [Next]_vars PROVE Distinct'
  OBVIOUS
<1> USE ConstantFacts DEF TypeOK, Links, Live, Dialling, Distinct, serverVars, dataVars, linkVars, ramVars, saveVars, flagVars, historyVars
<1>1. ASSUME NEW b \in Backends, BackendEnds(b) PROVE Distinct'
  BY <1>1 DEF BackendEnds, EndBackend, Fault
<1>2. ASSUME NEW b \in Backends, Commit(b) PROVE Distinct'
  BY <1>2 DEF Commit
<1>3. ASSUME NEW P \in Procs, OpenClaim(P) PROVE Distinct'
  BY <1>3 DEF OpenClaim, Fresh, Unused, Connections
<1>4. ASSUME NEW P \in Procs, OpenCommit(P) PROVE Distinct'
  BY <1>4 DEF OpenCommit
<1>5. ASSUME NEW P \in Procs, OpenFails(P) PROVE Distinct'
  BY <1>5 DEF OpenFails, Gone, Goto, Fault
<1>6. ASSUME NEW P \in Procs, Crash(P) PROVE Distinct'
  BY <1>6 DEF Crash, Gone, Goto, Fault
<1>7. ASSUME NEW P \in Procs, Dial(P) PROVE Distinct'
  BY <1>7 DEF Dial, At, Syncing, Goto, Fresh, Unused, Connections
<1>8. ASSUME NEW P \in Procs, Claim(P) PROVE Distinct'
  <2>1. UNCHANGED <<dial, conn>>
    BY <1>8 DEF Claim
  <2>2. owner' = owner \/ owner' = [owner EXCEPT ![P] = dial[P]]
    BY <1>8 DEF Claim
  <2>3. dial[P] # Nobody
    BY <1>8 DEF Claim
  <2> QED
    BY <2>1, <2>2, <2>3
<1>9. ASSUME NEW P \in Procs, ClaimLost(P) PROVE Distinct'
  BY <1>9 DEF ClaimLost, At, Syncing, Goto, DialFails, LetGo, Fault
<1>10. ASSUME NEW P \in Procs, DialBreaks(P) PROVE Distinct'
  BY <1>10 DEF DialBreaks, Syncing, Goto, DialFails, LetGo, Fault
<1>11. ASSUME NEW P \in Procs, Lookup(P) PROVE Distinct'
  BY <1>11 DEF Lookup, At, Syncing, Goto, OwnershipLost, LetGo
<1>12. ASSUME NEW P \in Procs, CheckToken(P) PROVE Distinct'
  <2>1. dial' = [dial EXCEPT ![P] = Nobody] /\ UNCHANGED owner
    BY <1>12 DEF CheckToken, OwnershipLost
  <2> QED
    BY <2>1
<1>13. ASSUME NEW P \in Procs, Collect(P) PROVE Distinct'
  BY <1>13 DEF Collect, At, Syncing, Goto, Dirty
<1>14. ASSUME NEW P \in Procs, Confirmed(P) PROVE Distinct'
  BY <1>14 DEF Confirmed, At, Syncing, Goto, SavedLocked
<1>15. ASSUME NEW P \in Procs, WriteFails(P) PROVE Distinct'
  BY <1>15 DEF WriteFails, At, Syncing, Goto, Fault
<1>16. ASSUME NEW P \in Procs, ConnectionLost(P) PROVE Distinct'
  BY <1>16 DEF ConnectionLost, At, Syncing, Goto, Fault
<1>17. ASSUME NEW P \in Procs, Close(P) PROVE Distinct'
  BY <1>17 DEF Close
<1>18. ASSUME NEW P \in Procs, Stop(P) PROVE Distinct'
  BY <1>18 DEF Stop
<1>19. ASSUME NEW P \in Procs, Closed(P) PROVE Distinct'
  BY <1>19 DEF Closed, NothingLeft, Dirty, LetGo, Gone, Goto
<1>20. ASSUME NEW P \in Procs, NEW i \in Items, Checkpoint(P, i) PROVE Distinct'
  BY <1>20 DEF Checkpoint, Serving
<1>21. CASE UNCHANGED vars
  BY <1>21 DEF vars
<1> QED
  BY <1>1, <1>2, <1>3, <1>4, <1>5, <1>6, <1>7, <1>8, <1>9, <1>10, <1>11, <1>12, <1>13, <1>14, <1>15, <1>16, <1>17, <1>18, <1>19, <1>20, <1>21 DEF Next, Server, Opening, Sync, Closing

-----------------------------------------------------------------------------
(* Who owns the rows *)

\* At first there is no backend.
LEMMA OwnershipInit == Init => Ownership
  BY ConstantFacts DEF Init, Ownership

\* Whoever takes the lock finds no uncommitted batch, and a new token is stored
\* only by the backend that holds it.
LEMMA OwnershipStep == TypeOK /\ Links /\ Distinct /\ Ownership /\ [Next]_vars => Ownership'
<1> SUFFICES ASSUME TypeOK, Links, Distinct, Ownership, [Next]_vars PROVE Ownership'
  OBVIOUS
<1> USE ConstantFacts DEF TypeOK, Links, Live, Dialling, Distinct, Ownership, serverVars, dataVars, linkVars, ramVars, saveVars, flagVars, historyVars
<1>1. ASSUME NEW b \in Backends, BackendEnds(b) PROVE Ownership'
  BY <1>1 DEF BackendEnds, EndBackend, Fault
<1>2. ASSUME NEW b \in Backends, Commit(b) PROVE Ownership'
  BY <1>2 DEF Commit
<1>3. ASSUME NEW P \in Procs, OpenClaim(P) PROVE Ownership'
  BY <1>3 DEF OpenClaim, Fresh, Unused, Connections
<1>4. ASSUME NEW P \in Procs, OpenCommit(P) PROVE Ownership'
  BY <1>4 DEF OpenCommit
<1>5. ASSUME NEW P \in Procs, OpenFails(P) PROVE Ownership'
  BY <1>5 DEF OpenFails, Gone, Goto, Fault
<1>6. ASSUME NEW P \in Procs, Crash(P) PROVE Ownership'
  BY <1>6 DEF Crash, Gone, Goto, Fault
<1>7. ASSUME NEW P \in Procs, Dial(P) PROVE Ownership'
  BY <1>7 DEF Dial, At, Syncing, Goto, Fresh, Unused, Connections
<1>8. ASSUME NEW P \in Procs, Claim(P) PROVE Ownership'
  BY <1>8 DEF Claim, At, Syncing, Goto
<1>9. ASSUME NEW P \in Procs, ClaimLost(P) PROVE Ownership'
  BY <1>9 DEF ClaimLost, At, Syncing, Goto, DialFails, LetGo, Fault
<1>10. ASSUME NEW P \in Procs, DialBreaks(P) PROVE Ownership'
  BY <1>10 DEF DialBreaks, Syncing, Goto, DialFails, LetGo, Fault
<1>11. ASSUME NEW P \in Procs, Lookup(P) PROVE Ownership'
  <2>1. UNCHANGED <<alive, lock, epochOf, token, inflight, conn, mine, phase>>
    BY <1>11 DEF Lookup
  <2>2. CASE dial' = [dial EXCEPT ![P] = Nobody]
    <3>1. \A Q \in Procs : Q # P => pc'[Q] = pc[Q]
      BY <1>11 DEF Lookup, OwnershipLost, Goto
    <3> QED
      BY <2>1, <2>2, <3>1
  <2>3. CASE dial' = dial /\ pc' = [pc EXCEPT ![P] = "claim2"]
    BY <1>11, <2>1, <2>3 DEF Lookup, At, Syncing
  <2> QED
    BY <1>11, <2>2, <2>3 DEF Lookup, OwnershipLost, Goto
<1>12. ASSUME NEW P \in Procs, CheckToken(P) PROVE Ownership'
  <2>1. UNCHANGED <<alive, lock, epochOf, token, inflight, mine, phase>>
    BY <1>12 DEF CheckToken
  <2>2. dial' = [dial EXCEPT ![P] = Nobody]
        /\ \A Q \in Procs : Q # P => pc'[Q] = pc[Q]
    BY <1>12 DEF CheckToken, OwnershipLost, Goto
  <2>3. CASE token = mine[P]
    <3>1. dial[P] \in alive /\ lock = dial[P] /\ epochOf[dial[P]] = mine[P]
      BY <1>12 DEF CheckToken, At, Syncing
    <3>2. conn' = [conn EXCEPT ![P] = dial[P]]
      BY <1>12, <2>3 DEF CheckToken
    <3>3. \A Q \in Procs : conn'[Q] \in alive' =>
             lock' = conn'[Q] /\ token' = mine'[Q] /\ epochOf'[conn'[Q]] = mine'[Q]
      BY <2>1, <2>3, <3>1, <3>2
    <3> QED
      BY <2>1, <2>2, <3>3
  <2>4. CASE token # mine[P]
    <3>1. UNCHANGED conn
      BY <1>12, <2>4 DEF CheckToken
    <3> QED
      BY <2>1, <2>2, <3>1
  <2> QED
    BY <2>3, <2>4
<1>13. ASSUME NEW P \in Procs, Collect(P) PROVE Ownership'
  BY <1>13 DEF Collect, At, Syncing, Goto, Dirty
<1>14. ASSUME NEW P \in Procs, Confirmed(P) PROVE Ownership'
  BY <1>14 DEF Confirmed, At, Syncing, Goto, SavedLocked
<1>15. ASSUME NEW P \in Procs, WriteFails(P) PROVE Ownership'
  BY <1>15 DEF WriteFails, At, Syncing, Goto, Fault
<1>16. ASSUME NEW P \in Procs, ConnectionLost(P) PROVE Ownership'
  BY <1>16 DEF ConnectionLost, At, Syncing, Goto, Fault
<1>17. ASSUME NEW P \in Procs, Close(P) PROVE Ownership'
  BY <1>17 DEF Close
<1>18. ASSUME NEW P \in Procs, Stop(P) PROVE Ownership'
  BY <1>18 DEF Stop
<1>19. ASSUME NEW P \in Procs, Closed(P) PROVE Ownership'
  BY <1>19 DEF Closed, NothingLeft, Dirty, LetGo, Gone, Goto
<1>20. ASSUME NEW P \in Procs, NEW i \in Items, Checkpoint(P, i) PROVE Ownership'
  BY <1>20 DEF Checkpoint, Serving
<1>21. CASE UNCHANGED vars
  BY <1>21 DEF vars
<1> QED
  BY <1>1, <1>2, <1>3, <1>4, <1>5, <1>6, <1>7, <1>8, <1>9, <1>10, <1>11, <1>12, <1>13, <1>14, <1>15, <1>16, <1>17, <1>18, <1>19, <1>20, <1>21 DEF Next, Server, Opening, Sync, Closing

\* The first token is 0.
LEMMA EpochsInit == Init => Epochs
  BY DEF Init, Epochs, Live

\* A pool gets a token that no pool had before.
LEMMA EpochsStep == TypeOK /\ Epochs /\ [Next]_vars => Epochs'
<1> SUFFICES ASSUME TypeOK, Epochs, [Next]_vars PROVE Epochs'
  OBVIOUS
<1> USE ConstantFacts DEF TypeOK, Live, Epochs, serverVars, dataVars, linkVars, ramVars, saveVars, flagVars, historyVars
<1>1. ASSUME NEW b \in Backends, BackendEnds(b) PROVE Epochs'
  BY <1>1 DEF BackendEnds, EndBackend, Fault
<1>2. ASSUME NEW b \in Backends, Commit(b) PROVE Epochs'
  BY <1>2 DEF Commit
<1>3. ASSUME NEW P \in Procs, OpenClaim(P) PROVE Epochs'
  BY <1>3 DEF OpenClaim, Fresh, Unused, Connections
<1>4. ASSUME NEW P \in Procs, OpenCommit(P) PROVE Epochs'
  BY <1>4 DEF OpenCommit
<1>5. ASSUME NEW P \in Procs, OpenFails(P) PROVE Epochs'
  BY <1>5 DEF OpenFails, Gone, Goto, Fault
<1>6. ASSUME NEW P \in Procs, Crash(P) PROVE Epochs'
  BY <1>6 DEF Crash, Gone, Goto, Fault
<1>7. ASSUME NEW P \in Procs, Dial(P) PROVE Epochs'
  BY <1>7 DEF Dial, At, Syncing, Goto, Fresh, Unused, Connections
<1>8. ASSUME NEW P \in Procs, Claim(P) PROVE Epochs'
  BY <1>8 DEF Claim, At, Syncing, Goto
<1>9. ASSUME NEW P \in Procs, ClaimLost(P) PROVE Epochs'
  BY <1>9 DEF ClaimLost, At, Syncing, Goto, DialFails, LetGo, Fault
<1>10. ASSUME NEW P \in Procs, DialBreaks(P) PROVE Epochs'
  BY <1>10 DEF DialBreaks, Syncing, Goto, DialFails, LetGo, Fault
<1>11. ASSUME NEW P \in Procs, Lookup(P) PROVE Epochs'
  BY <1>11 DEF Lookup, At, Syncing, Goto, OwnershipLost, LetGo
<1>12. ASSUME NEW P \in Procs, CheckToken(P) PROVE Epochs'
  BY <1>12 DEF CheckToken, At, Syncing, Goto, OwnershipLost, LetGo
<1>13. ASSUME NEW P \in Procs, Collect(P) PROVE Epochs'
  BY <1>13 DEF Collect, At, Syncing, Goto, Dirty
<1>14. ASSUME NEW P \in Procs, Confirmed(P) PROVE Epochs'
  BY <1>14 DEF Confirmed, At, Syncing, Goto, SavedLocked
<1>15. ASSUME NEW P \in Procs, WriteFails(P) PROVE Epochs'
  BY <1>15 DEF WriteFails, At, Syncing, Goto, Fault
<1>16. ASSUME NEW P \in Procs, ConnectionLost(P) PROVE Epochs'
  BY <1>16 DEF ConnectionLost, At, Syncing, Goto, Fault
<1>17. ASSUME NEW P \in Procs, Close(P) PROVE Epochs'
  BY <1>17 DEF Close
<1>18. ASSUME NEW P \in Procs, Stop(P) PROVE Epochs'
  BY <1>18 DEF Stop
<1>19. ASSUME NEW P \in Procs, Closed(P) PROVE Epochs'
  BY <1>19 DEF Closed, NothingLeft, Dirty, LetGo, Gone, Goto
<1>20. ASSUME NEW P \in Procs, NEW i \in Items, Checkpoint(P, i) PROVE Epochs'
  BY <1>20 DEF Checkpoint, Serving
<1>21. CASE UNCHANGED vars
  BY <1>21 DEF vars
<1> QED
  BY <1>1, <1>2, <1>3, <1>4, <1>5, <1>6, <1>7, <1>8, <1>9, <1>10, <1>11, <1>12, <1>13, <1>14, <1>15, <1>16, <1>17, <1>18, <1>19, <1>20, <1>21 DEF Next, Server, Opening, Sync, Closing

-----------------------------------------------------------------------------
(* What is saved *)

\* At first every stamp is 0.
LEMMA GrowingInit == Init => Growing
  BY ConstantFacts DEF Init, Growing, Live

\* The owner read the rows after the last commit of every other owner.
LEMMA GrowingStep == TypeOK /\ Links /\ Distinct /\ Ownership /\ Epochs /\ Growing /\ [Next]_vars => Growing'
<1> SUFFICES ASSUME TypeOK, Links, Distinct, Ownership, Epochs, Growing, [Next]_vars PROVE Growing'
  OBVIOUS
<1> USE ConstantFacts DEF TypeOK, Links, Live, Dialling, Distinct, Ownership, Epochs, Growing, serverVars, dataVars, linkVars, ramVars, saveVars, flagVars, historyVars
<1>1. ASSUME NEW b \in Backends, BackendEnds(b) PROVE Growing'
  BY <1>1 DEF BackendEnds, EndBackend, Fault
<1>2. ASSUME NEW b \in Backends, Commit(b) PROVE Growing'
  BY <1>2 DEF Commit
<1>3. ASSUME NEW P \in Procs, OpenClaim(P) PROVE Growing'
  BY <1>3 DEF OpenClaim, Fresh, Unused, Connections
<1>4. ASSUME NEW P \in Procs, OpenCommit(P) PROVE Growing'
  <2>1. \A b \in Backends : inflight[b] = Nothing
    BY <1>4 DEF OpenCommit
  <2>2. \A b \in Backends, i \in Items : inflight[b][i] = 0
    BY <2>1
  <2>3. /\ UNCHANGED <<rows, inflight, stamp>>
        /\ token' = token + 1
        /\ mine' = [mine EXCEPT ![P] = token + 1]
        /\ last' = [last EXCEPT ![P] = rows]
        /\ phase' = [phase EXCEPT ![P] = "up"]
    BY <1>4 DEF OpenCommit
  <2>4. \A Q \in Procs, i \in Items : last'[Q][i] <= stamp'
    BY <2>3
  <2>5. \A Q \in Procs : mine'[Q] = token' => Q = P
    BY <2>3
  <2>6. \A i \in Items : rows'[i] <= last'[P][i]
                        /\ \A b \in Backends : inflight'[b][i] <= last'[P][i]
    BY <2>2, <2>3
  <2> QED
    BY <2>2, <2>3, <2>4, <2>5, <2>6
<1>5. ASSUME NEW P \in Procs, OpenFails(P) PROVE Growing'
  BY <1>5 DEF OpenFails, Gone, Goto, Fault
<1>6. ASSUME NEW P \in Procs, Crash(P) PROVE Growing'
  BY <1>6 DEF Crash, Gone, Goto, Fault
<1>7. ASSUME NEW P \in Procs, Dial(P) PROVE Growing'
  BY <1>7 DEF Dial, At, Syncing, Goto, Fresh, Unused, Connections
<1>8. ASSUME NEW P \in Procs, Claim(P) PROVE Growing'
  BY <1>8 DEF Claim, At, Syncing, Goto
<1>9. ASSUME NEW P \in Procs, ClaimLost(P) PROVE Growing'
  BY <1>9 DEF ClaimLost, At, Syncing, Goto, DialFails, LetGo, Fault
<1>10. ASSUME NEW P \in Procs, DialBreaks(P) PROVE Growing'
  BY <1>10 DEF DialBreaks, Syncing, Goto, DialFails, LetGo, Fault
<1>11. ASSUME NEW P \in Procs, Lookup(P) PROVE Growing'
  BY <1>11 DEF Lookup, At, Syncing, Goto, OwnershipLost, LetGo
<1>12. ASSUME NEW P \in Procs, CheckToken(P) PROVE Growing'
  BY <1>12 DEF CheckToken, At, Syncing, Goto, OwnershipLost, LetGo
<1>13. ASSUME NEW P \in Procs, Collect(P) PROVE Growing'
  <2>1. UNCHANGED <<rows, last, stamp, mine, token, phase>>
    BY <1>13 DEF Collect
  <2>2. CASE UNCHANGED inflight
    BY <2>1, <2>2
  <2>3. CASE conn[P] \in alive /\ inflight' = [inflight EXCEPT ![conn[P]] = batch'[P]]
    <3> DEFINE B == [j \in Items |-> IF j \in Dirty(P) THEN last[P][j] ELSE 0]
    <3>1. /\ inflight' = [inflight EXCEPT ![conn[P]] = B]
          /\ B \in [Items -> Nat]
      BY <1>13, <2>3 DEF Collect
    <3>2. Live(P) /\ mine[P] = token /\ conn[P] \in Backends
      BY <1>13, <2>3 DEF Collect, At, Syncing
    <3>3. \A j \in Items : B[j] <= last[P][j] /\ (B[j] > 0 => B[j] = last[P][j])
      BY <3>1
    <3>4. \A b \in Backends : inflight'[b] = inflight[b] \/ inflight'[b] = B
      BY <3>1
    <3> HIDE DEF B
    <3>5. \A Q \in Procs : Live(Q) /\ mine[Q] = token => Q = P
      BY <3>2
    <3>6. ASSUME NEW b \in Backends, NEW j \in Items
          PROVE  /\ inflight'[b][j] <= stamp /\ inflight'[b][j] <= last[P][j]
                 /\ inflight'[b][j] > 0 => rows[j] <= inflight'[b][j]
      <4>1. CASE inflight'[b] = inflight[b]
        BY <3>2, <4>1
      <4>2. CASE inflight'[b] = B
        BY <3>1, <3>2, <3>3, <4>2
      <4> QED
        BY <3>4, <4>1, <4>2
    <3> QED
      BY <2>1, <3>5, <3>6
  <2> QED
    BY <1>13, <2>2, <2>3 DEF Collect
<1>14. ASSUME NEW P \in Procs, Confirmed(P) PROVE Growing'
  BY <1>14 DEF Confirmed, At, Syncing, Goto, SavedLocked
<1>15. ASSUME NEW P \in Procs, WriteFails(P) PROVE Growing'
  BY <1>15 DEF WriteFails, At, Syncing, Goto, Fault
<1>16. ASSUME NEW P \in Procs, ConnectionLost(P) PROVE Growing'
  BY <1>16 DEF ConnectionLost, At, Syncing, Goto, Fault
<1>17. ASSUME NEW P \in Procs, Close(P) PROVE Growing'
  BY <1>17 DEF Close
<1>18. ASSUME NEW P \in Procs, Stop(P) PROVE Growing'
  BY <1>18 DEF Stop
<1>19. ASSUME NEW P \in Procs, Closed(P) PROVE Growing'
  BY <1>19 DEF Closed, NothingLeft, Dirty, LetGo, Gone, Goto
<1>20. ASSUME NEW P \in Procs, NEW i \in Items, Checkpoint(P, i) PROVE Growing'
  BY <1>20 DEF Checkpoint, Serving
<1>21. CASE UNCHANGED vars
  BY <1>21 DEF vars
<1> QED
  BY <1>1, <1>2, <1>3, <1>4, <1>5, <1>6, <1>7, <1>8, <1>9, <1>10, <1>11, <1>12, <1>13, <1>14, <1>15, <1>16, <1>17, <1>18, <1>19, <1>20, <1>21 DEF Next, Server, Opening, Sync, Closing

\* At first there are no checkpoints.
LEMMA BookkeepingInit == Init => Bookkeeping
  BY ConstantFacts DEF Init, Bookkeeping, Live

\* A batch in flight holds the newest checkpoint of every item it covers.
LEMMA BookkeepingStep == TypeOK /\ Links /\ Distinct /\ Ownership /\ Growing /\ Bookkeeping /\ [Next]_vars => Bookkeeping'
<1> SUFFICES ASSUME TypeOK, Links, Distinct, Ownership, Growing, Bookkeeping, [Next]_vars PROVE Bookkeeping'
  OBVIOUS
<1> USE ConstantFacts DEF TypeOK, Links, Live, Dialling, Distinct, Ownership, Growing, Bookkeeping, serverVars, dataVars, linkVars, ramVars, saveVars, flagVars, historyVars
<1>1. ASSUME NEW b \in Backends, BackendEnds(b) PROVE Bookkeeping'
  BY <1>1 DEF BackendEnds, EndBackend, Fault
<1>2. ASSUME NEW b \in Backends, Commit(b) PROVE Bookkeeping'
  BY <1>2 DEF Commit
<1>3. ASSUME NEW P \in Procs, OpenClaim(P) PROVE Bookkeeping'
  BY <1>3 DEF OpenClaim, Fresh, Unused, Connections
<1>4. ASSUME NEW P \in Procs, OpenCommit(P) PROVE Bookkeeping'
  BY <1>4 DEF OpenCommit
<1>5. ASSUME NEW P \in Procs, OpenFails(P) PROVE Bookkeeping'
  BY <1>5 DEF OpenFails, Gone, Goto, Fault
<1>6. ASSUME NEW P \in Procs, Crash(P) PROVE Bookkeeping'
  BY <1>6 DEF Crash, Gone, Goto, Fault
<1>7. ASSUME NEW P \in Procs, Dial(P) PROVE Bookkeeping'
  BY <1>7 DEF Dial, At, Syncing, Goto, Fresh, Unused, Connections
<1>8. ASSUME NEW P \in Procs, Claim(P) PROVE Bookkeeping'
  BY <1>8 DEF Claim, At, Syncing, Goto
<1>9. ASSUME NEW P \in Procs, ClaimLost(P) PROVE Bookkeeping'
  BY <1>9 DEF ClaimLost, At, Syncing, Goto, DialFails, LetGo, Fault
<1>10. ASSUME NEW P \in Procs, DialBreaks(P) PROVE Bookkeeping'
  BY <1>10 DEF DialBreaks, Syncing, Goto, DialFails, LetGo, Fault
<1>11. ASSUME NEW P \in Procs, Lookup(P) PROVE Bookkeeping'
  BY <1>11 DEF Lookup, At, Syncing, Goto, OwnershipLost, LetGo
<1>12. ASSUME NEW P \in Procs, CheckToken(P) PROVE Bookkeeping'
  BY <1>12 DEF CheckToken, At, Syncing, Goto, OwnershipLost, LetGo
<1>13. ASSUME NEW P \in Procs, Collect(P) PROVE Bookkeeping'
  <2>1. /\ UNCHANGED <<rows, last, stamp, phase, done, saved, taken, conn, alive>>
        /\ pc' = [pc EXCEPT ![P] = "wait"]
        /\ pc[P] = "idle" /\ Live(P) /\ conn[P] # Nobody
        /\ through' = [through EXCEPT ![P] = stamp]
    BY <1>13 DEF Collect, At, Syncing, Goto
  <2>2. /\ \A Q \in Procs : Q # P => batch'[Q] = batch[Q]
        /\ batch'[P] \in [Items -> Nat]
        /\ \A i \in Items : batch'[P][i] = IF last[P][i] > done[P][i] THEN last[P][i] ELSE 0
    BY <1>13 DEF Collect, Dirty
  <2>3. ASSUME NEW Q \in Procs, pc'[Q] = "wait", conn'[Q] \in alive'
        PROVE  /\ inflight'[conn[Q]] # Nothing => inflight'[conn[Q]] = batch'[Q]
               /\ inflight'[conn[Q]] = Nothing => \A i \in Items : batch'[Q][i] <= rows[i]
    <3>1. CASE Q = P /\ Dirty(P) # {}
      <4>1. inflight'[conn[P]] = batch'[P]
        BY <1>13, <2>3, <3>1 DEF Collect
      <4>2. batch'[P] # Nothing
        BY <2>2, <3>1 DEF Dirty
      <4> QED
        BY <3>1, <4>1, <4>2
    <3>2. CASE Q = P /\ Dirty(P) = {}
      <4>1. inflight'[conn[P]] = Nothing
        BY <1>13, <2>1, <2>3, <3>2 DEF Collect
      <4>2. \A i \in Items : batch'[P][i] = 0
        BY <2>2, <3>2 DEF Dirty
      <4> QED
        BY <3>2, <4>1, <4>2
    <3>3. CASE Q # P
      <4>1. conn[Q] # conn[P] /\ inflight'[conn[Q]] = inflight[conn[Q]]
        BY <1>13, <2>1, <2>3, <3>3 DEF Collect
      <4> QED
        BY <2>1, <2>2, <2>3, <3>3, <4>1
    <3> QED
      BY <3>1, <3>2, <3>3
  <2>4. \A Q \in Procs : pc'[Q] # "wait" /\ conn'[Q] \in alive' => inflight'[conn'[Q]] = Nothing
    <3> SUFFICES ASSUME NEW Q \in Procs, pc'[Q] # "wait", conn'[Q] \in alive'
                 PROVE  inflight'[conn[Q]] = Nothing
      BY <2>1
    <3>1. Q # P /\ conn[Q] # conn[P] /\ conn[Q] # Nobody
      BY <2>1
    <3>2. inflight'[conn[Q]] = inflight[conn[Q]]
      BY <1>13, <3>1 DEF Collect
    <3> QED
      BY <2>1, <3>1, <3>2
  <2>5. ASSUME NEW Q \in Procs, NEW j \in Items, pc'[Q] = "wait"
        PROVE  /\ \A s \in taken[Q][j] : s <= through'[Q] => s <= batch'[Q][j] \/ s <= done[Q][j]
               /\ phase[Q] = "stopping" =>
                    IF batch'[Q][j] > 0 THEN last[Q][j] <= batch'[Q][j] ELSE last[Q][j] <= done[Q][j]
    <3>1. CASE Q = P
      <4>1. \A s \in taken[P][j] : s \in Nat /\ s <= last[P][j]
        OBVIOUS
      <4> QED
        BY <2>2, <3>1, <4>1
    <3>2. CASE Q # P
      BY <2>1, <2>2, <2>5, <3>2
    <3> QED
      BY <3>1, <3>2
  <2>6. \A Q \in Procs : through'[Q] <= stamp'
    BY <2>1
  <2>7. Links' 
    BY <1>13, LinksStep
  <2> QED
    BY <2>1, <2>3, <2>4, <2>5, <2>6, <2>7
<1>14. ASSUME NEW P \in Procs, Confirmed(P) PROVE Bookkeeping'
  <2>1. /\ UNCHANGED <<rows, last, stamp, phase, taken, conn, alive, inflight>>
        /\ pc[P] = "wait" /\ Live(P)
        /\ batch' = [batch EXCEPT ![P] = Nothing]
        /\ through' = [through EXCEPT ![P] = 0]
        /\ pc' = [pc EXCEPT ![P] = IF phase[P] = "stopping" THEN "saved" ELSE "idle"]
    BY <1>14 DEF Confirmed, At, Syncing, Goto
  <2>2. /\ \A Q \in Procs : Q # P => done'[Q] = done[Q] /\ saved'[Q] = saved[Q]
        /\ \A j \in Items : done'[P][j] = IF batch[P][j] > 0 THEN batch[P][j] ELSE done[P][j]
        /\ saved'[P] = IF through[P] > saved[P] THEN through[P] ELSE saved[P]
    BY <1>14 DEF Confirmed, SavedLocked
  <2>3. \A j \in Items : batch[P][j] <= rows[j]
    <3>1. CASE batch[P] = Nothing
      BY <3>1
    <3>2. CASE batch[P] # Nothing
      BY <1>14, <2>1, <3>2 DEF Confirmed
    <3> QED
      BY <3>1, <3>2
  <2>4. conn[P] \in alive => inflight[conn[P]] = Nothing
    BY <1>14, <2>1 DEF Confirmed
  <2>5. \A j \in Items : done[P][j] <= rows[j] /\ done'[P][j] <= rows[j]
    BY <2>1, <2>2, <2>3
  <2>6. \A j \in Items : \A s \in taken[P][j] : s <= saved'[P] => s <= rows[j]
    <3> SUFFICES ASSUME NEW j \in Items, NEW s \in taken[P][j], s <= saved'[P] PROVE s <= rows[j]
      OBVIOUS
    <3>1. s \in Nat /\ (s <= saved[P] => s <= rows[j])
      OBVIOUS
    <3>2. s <= through[P] => s <= batch[P][j] \/ s <= done[P][j]
      BY <2>1
    <3>3. s <= saved[P] \/ s <= through[P]
      BY <2>2
    <3>4. {batch[P][j], done[P][j], rows[j]} \subseteq Nat
      OBVIOUS
    <3> QED
      BY <2>3, <2>5, <3>1, <3>2, <3>3, <3>4
  <2>7. phase[P] = "stopping" => \A j \in Items : last[P][j] <= done'[P][j]
    BY <2>1, <2>2
  <2>8. through'[P] = 0 /\ pc'[P] \in {"saved", "idle"} /\ (pc'[P] = "saved" => phase[P] = "stopping")
    BY <2>1
  <2>9. saved'[P] <= stamp
    BY <2>2
  <2> QED
    BY <2>1, <2>2, <2>4, <2>5, <2>6, <2>7, <2>8, <2>9
<1>15. ASSUME NEW P \in Procs, WriteFails(P) PROVE Bookkeeping'
  BY <1>15 DEF WriteFails, At, Syncing, Goto, Fault
<1>16. ASSUME NEW P \in Procs, ConnectionLost(P) PROVE Bookkeeping'
  BY <1>16 DEF ConnectionLost, At, Syncing, Goto, Fault
<1>17. ASSUME NEW P \in Procs, Close(P) PROVE Bookkeeping'
  BY <1>17 DEF Close
<1>18. ASSUME NEW P \in Procs, Stop(P) PROVE Bookkeeping'
  BY <1>18 DEF Stop
<1>19. ASSUME NEW P \in Procs, Closed(P) PROVE Bookkeeping'
  BY <1>19 DEF Closed, NothingLeft, Dirty, LetGo, Gone, Goto
<1>20. ASSUME NEW P \in Procs, NEW i \in Items, Checkpoint(P, i) PROVE Bookkeeping'
  BY <1>20 DEF Checkpoint, Serving
<1>21. CASE UNCHANGED vars
  BY <1>21 DEF vars
<1> QED
  BY <1>1, <1>2, <1>3, <1>4, <1>5, <1>6, <1>7, <1>8, <1>9, <1>10, <1>11, <1>12, <1>13, <1>14, <1>15, <1>16, <1>17, <1>18, <1>19, <1>20, <1>21 DEF Next, Server, Opening, Sync, Closing

-----------------------------------------------------------------------------
(* Why a pool gives up *)

\* At first nobody suspects anybody.
LEMMA SuspicionInit == Init => Suspicion
  BY DEF Init, Suspicion, Live

\* A foreign holder of the lock, or a changed token, is another process's doing
\* or that of a claim whose reply was lost.
LEMMA SuspicionStep == TypeOK /\ Links /\ Distinct /\ Ownership /\ Suspicion /\ [Next]_vars => Suspicion'
<1> SUFFICES ASSUME TypeOK, Links, Distinct, Ownership, Suspicion, [Next]_vars PROVE Suspicion'
  OBVIOUS
<1> USE ConstantFacts DEF TypeOK, Links, Live, Dialling, Distinct, Ownership, Suspicion, serverVars, dataVars, linkVars, ramVars, saveVars, flagVars, historyVars
<1>1. ASSUME NEW b \in Backends, BackendEnds(b) PROVE Suspicion'
  BY <1>1 DEF BackendEnds, EndBackend, Fault
<1>2. ASSUME NEW b \in Backends, Commit(b) PROVE Suspicion'
  BY <1>2 DEF Commit
<1>3. ASSUME NEW P \in Procs, OpenClaim(P) PROVE Suspicion'
  BY <1>3 DEF OpenClaim, Fresh, Unused, Connections
<1>4. ASSUME NEW P \in Procs, OpenCommit(P) PROVE Suspicion'
  BY <1>4 DEF OpenCommit
<1>5. ASSUME NEW P \in Procs, OpenFails(P) PROVE Suspicion'
  BY <1>5 DEF OpenFails, Gone, Goto, Fault
<1>6. ASSUME NEW P \in Procs, Crash(P) PROVE Suspicion'
  BY <1>6 DEF Crash, Gone, Goto, Fault
<1>7. ASSUME NEW P \in Procs, Dial(P) PROVE Suspicion'
  BY <1>7 DEF Dial, At, Syncing, Goto, Fresh, Unused, Connections
<1>8. ASSUME NEW P \in Procs, Claim(P) PROVE Suspicion'
  BY <1>8 DEF Claim, At, Syncing, Goto
<1>9. ASSUME NEW P \in Procs, ClaimLost(P) PROVE Suspicion'
  BY <1>9 DEF ClaimLost, At, Syncing, Goto, DialFails, LetGo, Fault
<1>10. ASSUME NEW P \in Procs, DialBreaks(P) PROVE Suspicion'
  BY <1>10 DEF DialBreaks, Syncing, Goto, DialFails, LetGo, Fault
<1>11. ASSUME NEW P \in Procs, Lookup(P) PROVE Suspicion'
  BY <1>11 DEF Lookup, At, Syncing, Goto, OwnershipLost, LetGo
<1>12. ASSUME NEW P \in Procs, CheckToken(P) PROVE Suspicion'
  BY <1>12 DEF CheckToken, At, Syncing, Goto, OwnershipLost, LetGo
<1>13. ASSUME NEW P \in Procs, Collect(P) PROVE Suspicion'
  BY <1>13 DEF Collect, At, Syncing, Goto, Dirty
<1>14. ASSUME NEW P \in Procs, Confirmed(P) PROVE Suspicion'
  BY <1>14 DEF Confirmed, At, Syncing, Goto, SavedLocked
<1>15. ASSUME NEW P \in Procs, WriteFails(P) PROVE Suspicion'
  BY <1>15 DEF WriteFails, At, Syncing, Goto, Fault
<1>16. ASSUME NEW P \in Procs, ConnectionLost(P) PROVE Suspicion'
  BY <1>16 DEF ConnectionLost, At, Syncing, Goto, Fault
<1>17. ASSUME NEW P \in Procs, Close(P) PROVE Suspicion'
  BY <1>17 DEF Close
<1>18. ASSUME NEW P \in Procs, Stop(P) PROVE Suspicion'
  BY <1>18 DEF Stop
<1>19. ASSUME NEW P \in Procs, Closed(P) PROVE Suspicion'
  BY <1>19 DEF Closed, NothingLeft, Dirty, LetGo, Gone, Goto
<1>20. ASSUME NEW P \in Procs, NEW i \in Items, Checkpoint(P, i) PROVE Suspicion'
  BY <1>20 DEF Checkpoint, Serving
<1>21. CASE UNCHANGED vars
  BY <1>21 DEF vars
<1> QED
  BY <1>1, <1>2, <1>3, <1>4, <1>5, <1>6, <1>7, <1>8, <1>9, <1>10, <1>11, <1>12, <1>13, <1>14, <1>15, <1>16, <1>17, <1>18, <1>19, <1>20, <1>21 DEF Next, Server, Opening, Sync, Closing

-----------------------------------------------------------------------------
(* Theorems *)

IInv == TypeOK /\ Links /\ Distinct /\ Ownership /\ Epochs /\ Growing /\ Bookkeeping /\ Suspicion

\* The parts together are inductive.
THEOREM Invariance == Spec => []IInv
<1>1. Init => IInv
  BY TypeInit, LinksInit, DistinctInit, OwnershipInit, EpochsInit, GrowingInit, BookkeepingInit,
     SuspicionInit DEF IInv
<1>2. IInv /\ [Next]_vars => IInv'
  BY TypeStep, LinksStep, DistinctStep, OwnershipStep, EpochsStep, GrowingStep, BookkeepingStep,
     SuspicionStep DEF IInv
<1> QED
  BY <1>1, <1>2, PTL DEF Spec

\* Persistence keeps its types, for any number of processes, items and backends.
THEOREM StoreTyped == Spec => []TypeOK
<1>1. IInv => TypeOK
  BY DEF IInv
<1> QED
  BY <1>1, Invariance, PTL

\* A pool on a live connection holds the advisory lock and the newest token, so
\* no two pools save at the same time (connect and initialize of store.go).
THEOREM OwnerIsConnected == Spec => []ConnectedIsOwner
<1>1. IInv => ConnectedIsOwner
  BY DEF IInv, Ownership, ConnectedIsOwner
<1> QED
  BY <1>1, Invariance, PTL

\* What savedLocked marked as saved is in PostgreSQL, and so is every checkpoint
\* a flush waited for, whatever connections and replies were lost.
THEOREM SavedStaysDurable == Spec => []SavedIsDurable
<1>1. IInv => SavedIsDurable
  BY DEF IInv, Bookkeeping, SavedIsDurable, Live
<1> QED
  BY <1>1, Invariance, PTL

\* errOwnershipLost has a cause: another process claimed the schema, or the
\* reply to a claim of this process was lost.
THEOREM FailureHasACause == Spec => []FailedIsExplained
<1>1. IInv => FailedIsExplained
  BY DEF IInv, TypeOK, Suspicion, FailedIsExplained
<1> QED
  BY <1>1, Invariance, PTL

\* One step of Close: whatever it leaves behind it reports.
LEMMA CloseReports == IInv /\ [Next]_vars => CloseStep
<1> SUFFICES ASSUME IInv, [Next]_vars, NEW P \in Procs, phase[P] = "stopping", phase'[P] = "off",
                    UNCHANGED faults, P \notin failed \cup unsaved', NEW i \in Items
             PROVE  last[P][i] <= rows[i]
  BY DEF CloseStep
<1> USE DEF IInv, TypeOK
<1>1. last[P][i] \in Nat /\ done[P][i] \in Nat /\ rows[i] \in Nat /\ done[P][i] <= rows[i]
  BY DEF Bookkeeping, Live
<1>2. CASE Closed(P)
  <2>1. NothingLeft(P)
    BY <1>2 DEF Closed
  <2>2. last[P][i] <= done[P][i]
    BY <1>1, <2>1 DEF NothingLeft, Dirty, Bookkeeping
  <2> QED
    BY <1>1, <2>2
<1>3. ASSUME ~Closed(P) PROVE FALSE
  <2> USE DEF serverVars, dataVars, linkVars, ramVars, saveVars, flagVars, historyVars
  <2>1. phase' # phase
    OBVIOUS
  <2>2. ASSUME NEW b \in Backends, BackendEnds(b) \/ Commit(b) PROVE FALSE
    BY <2>1, <2>2 DEF BackendEnds, Commit
  <2>3. ASSUME NEW Q \in Procs, NEW j \in Items, Checkpoint(Q, j) PROVE FALSE
    BY <2>1, <2>3 DEF Checkpoint
  <2>4. ASSUME NEW Q \in Procs, Sync(Q) PROVE FALSE
    BY <2>1, <2>4 DEF Sync, Dial, Claim, ClaimLost, DialBreaks, Lookup, CheckToken, Collect,
                      Confirmed, WriteFails, ConnectionLost
  <2>5. ASSUME NEW Q \in Procs, Opening(Q) PROVE FALSE
    BY <2>5 DEF Opening, OpenClaim, OpenCommit, OpenFails, Gone
  <2>6. ASSUME NEW Q \in Procs, Crash(Q) PROVE FALSE
    BY <2>6 DEF Crash, Fault
  <2>7. ASSUME NEW Q \in Procs, Closing(Q) PROVE FALSE
    BY <1>3, <2>7 DEF Closing, Close, Stop, Closed, Gone
  <2> QED
    BY <2>1, <2>2, <2>3, <2>4, <2>5, <2>6, <2>7 DEF Next, Server, vars
<1> QED
  BY <1>2, <1>3

\* A Close without an error left nothing unsaved, unless the pool had failed
\* before (saveBeforeClose and Close).
THEOREM CloseSaves == Spec => CloseMeansSaved
  BY Invariance, CloseReports, PTL DEF Spec, CloseMeansSaved

\* Every step of the store is a takeover of the rows, a write by their owner
\* that takes no row back, or no change of them.
LEMMA StepOfOwnedRows == IInv /\ [Next]_vars => [Owned!Next]_<<rows, token, writer>>
<1> SUFFICES ASSUME IInv, [Next]_vars PROVE [Owned!Next]_<<rows, token, writer>>
  OBVIOUS
<1> USE ConstantFacts DEF IInv, TypeOK, serverVars, dataVars, linkVars, ramVars, saveVars, flagVars,
                          historyVars
<1>1. ASSUME NEW b \in Backends, Commit(b) PROVE Owned!Write
  <2>1. rows' = [i \in Items |-> IF inflight[b][i] > 0 THEN inflight[b][i] ELSE rows[i]]
    BY <1>1 DEF Commit
  <2>2. writer' = token /\ token' = token
    BY <1>1 DEF Commit, Ownership
  <2>3. \A i \in Items : rows[i] <= rows'[i]
    BY <2>1 DEF Growing
  <2>4. rows' \in [Items -> Nat]
    BY <2>1
  <2> QED
    BY <2>2, <2>3, <2>4 DEF Owned!Write
<1>2. ASSUME NEW P \in Procs, OpenCommit(P) PROVE Owned!TakeOver
  BY <1>2 DEF OpenCommit, Owned!TakeOver
<1>3. ASSUME NEW P \in Procs, OpenFails(P)
      PROVE  Owned!TakeOver \/ UNCHANGED <<rows, token, writer>>
  BY <1>3 DEF OpenFails, Owned!TakeOver
<1>4. ASSUME NEW b \in Backends, BackendEnds(b) PROVE UNCHANGED <<rows, token, writer>>
  BY <1>4 DEF BackendEnds
<1>5. ASSUME NEW P \in Procs, OpenClaim(P) \/ Crash(P) \/ Closing(P)
      PROVE  UNCHANGED <<rows, token, writer>>
  BY <1>5 DEF OpenClaim, Crash, Closing, Close, Stop, Closed
<1>6. ASSUME NEW P \in Procs, Sync(P) PROVE UNCHANGED <<rows, token, writer>>
  BY <1>6 DEF Sync, Dial, Claim, ClaimLost, DialBreaks, Lookup, CheckToken, Collect,
              Confirmed, WriteFails, ConnectionLost
<1>7. ASSUME NEW P \in Procs, NEW i \in Items, Checkpoint(P, i)
      PROVE  UNCHANGED <<rows, token, writer>>
  BY <1>7 DEF Checkpoint
<1>8. CASE UNCHANGED vars
  BY <1>8 DEF vars
<1>9. CASE Next
  <2>1. ASSUME NEW P \in Procs, Opening(P)
        PROVE  Owned!TakeOver \/ UNCHANGED <<rows, token, writer>>
    <3>1. CASE OpenClaim(P)
      BY <1>5, <3>1
    <3>2. CASE OpenCommit(P)
      BY <1>2, <3>2
    <3>3. CASE OpenFails(P)
      BY <1>3, <3>3
    <3> QED
      BY <2>1, <3>1, <3>2, <3>3 DEF Opening
  <2> HIDE DEF IInv
  <2> QED
    BY <1>1, <1>4, <1>5, <1>6, <1>7, <1>9, <2>1 DEF Next, Server, Owned!Next
<1> QED
  BY <1>8, <1>9

\* Persistence implements OwnedRows: a late commit of an abandoned connection
\* never overwrites what a later owner loaded or saved.
THEOREM StoreImplementsOwnedRows == Spec => ImplementsOwnedRows
<1>1. Init => Owned!Init
  BY DEF Init, Owned!Init, Nothing
<1> QED
  BY <1>1, Invariance, StepOfOwnedRows, PTL DEF Spec, ImplementsOwnedRows, Owned!Spec
=============================================================================
