------------------------- MODULE MCInstagramImport -------------------------
(* InstagramImport on a small instance.                                    *)
EXTENDS InstagramImport
CONSTANTS a1, a2
One == <<a1>>
Entry(u, named, cookies) ==
    [user |-> u, named |-> named, cookies |-> cookies, backup |-> TRUE]
Small == {<<Entry(a1, TRUE, "new"), Entry(a2, TRUE, "none")>>,
          <<Entry(a2, TRUE, "none"), Entry(a1, FALSE, "none")>>}
=============================================================================
