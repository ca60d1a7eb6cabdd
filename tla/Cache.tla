-------------------------------- MODULE Cache --------------------------------
(***************************************************************************)
(* core.Cache, the bounded map with an expiry per entry that every response*)
(* cache is made of.  A cache is the sequence of its entries, most recently*)
(* used first.  An entry holds the time it has left instead of the instant *)
(* it expires at, so that the passing of time ages it; the code's heap is  *)
(* the index that finds the entries with nothing left.                     *)
(***************************************************************************)
EXTENDS Naturals, FiniteSets, Sequences, SequencesExt

Entry(key, value, left) == [key |-> key, value |-> value, left |-> left]

\* The entries at some positions, in their order.
Keep(cache, kept) ==
  [n \in 1..Cardinality(kept) |->
     cache[CHOOSE i \in kept : Cardinality({j \in kept : j <= i}) = n]]

remove(cache, key) == Keep(cache, {i \in DOMAIN cache : cache[i].key # key})

\* The entries under key that Get may return: at most one.
Live(cache, key) == {e \in ToSet(cache) : e.key = key /\ e.left > 0}

Hit(cache, key) == Live(cache, key) # {}
Value(cache, key) == (CHOOSE e \in Live(cache, key) : TRUE).value

\* What Get leaves behind: a hit is used most recently, an expired entry goes.
Get(cache, key) ==
  Keep(cache, {i \in DOMAIN cache : cache[i] \in Live(cache, key)}) \o remove(cache, key)

\* SetUntil drops what has expired, and makes room by dropping the entry used
\* least recently.
SetUntil(cache, key, value, left, capacity) ==
  LET rest == remove(Keep(cache, {i \in DOMAIN cache : cache[i].left > 0}), key) IN
  IF left = 0
  THEN rest
  ELSE <<Entry(key, value, left)>>
         \o SubSeq(rest, 1, IF Len(rest) < capacity THEN Len(rest) ELSE capacity - 1)

\* One unit of time.
Less(t) == IF t = 0 THEN 0 ELSE t - 1
=============================================================================
