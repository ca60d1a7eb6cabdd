-------------------------- MODULE MCInstagramPool --------------------------
(* InstagramPool on small instances.                                       *)
EXTENDS InstagramPool, TLC
CONSTANTS a1, a2
One  == <<a1>>
Few  == {[cookies |-> "same", backup |-> TRUE]}
All  == CredentialKinds
Sym  == Permutations(Details) \cup Permutations(Media)
Both == <<a1, a2>>
=============================================================================
