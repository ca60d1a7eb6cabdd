------------------------------ MODULE OwnedRows ------------------------------
(***************************************************************************)
(* What PostgreSQL promises to a pool that persists its identities there:  *)
(* rows belong to one owner at a time.  A new owner takes the rows as they *)
(* are; from then on only that owner changes them, and a row never returns *)
(* to an older state.  IdentityStore implements this.                      *)
(***************************************************************************)
EXTENDS Naturals

CONSTANT Items            \* identities and proxies

VARIABLES
  rows,    \* the stamp of the state each row holds
  epoch,   \* the ownership token, as the number of takeovers
  writer   \* the epoch of the pool that made the last change

Init == rows = [i \in Items |-> 0] /\ epoch = 0 /\ writer = 0

TakeOver == epoch' = epoch + 1 /\ UNCHANGED <<rows, writer>>

Write ==
  /\ rows' \in [Items -> Nat]
  /\ \A i \in Items : rows[i] <= rows'[i]
  /\ writer' = epoch
  /\ UNCHANGED epoch

Next == TakeOver \/ Write
Spec == Init /\ [][Next]_<<rows, epoch, writer>>
=============================================================================
