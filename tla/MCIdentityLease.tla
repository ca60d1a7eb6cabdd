--------------------------- MODULE MCIdentityLease ---------------------------
(* A small instance of IdentityLease for TLC: two slots that share a route. *)
EXTENDS IdentityLease, TLC

SharedRoute == <<"route", "route">>

\* Nothing, identities that were never used, and identities with assignments and
\* failures, of their own and of the route.
Rows(rows, counts, cold, failed, coldRoutes) ==
  [entries |-> rows, assignments |-> counts, cooling |-> cold,
   routeFailed |-> failed, routeCooling |-> coldRoutes]
SmallStored ==
  {Rows({}, <<0, 0>>, {}, {}, {}),
   Rows({1}, <<0, 0>>, {}, {}, {}),
   Rows({1, 2}, <<0, 0>>, {}, {}, {}),
   Rows({1}, <<1, 0>>, {}, {"route"}, {}),
   Rows({1, 2}, <<1, 0>>, {1}, {"route"}, {"route"})}

Symmetry == Permutations(Requests)
=============================================================================
