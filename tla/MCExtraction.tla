---------------------------- MODULE MCExtraction ----------------------------
(* A small instance of Extraction for TLC: calls that share flights (up to
   three on one key), a cached post's music, calls that compete for slots, and
   links to resolve. *)
EXTENDS Extraction, TLC

Video == [l \in Links |-> IF l = "shared" THEN "v1" ELSE "v2"]

Ask(kind, key, refresh) == [kind |-> kind, key |-> key, refresh |-> refresh]

Mixed ==
  { <<Ask("post", "direct", FALSE), Ask("post", "direct", TRUE)>>,
    <<Ask("music", "v1", FALSE), Ask("music", "v1", FALSE), Ask("music", "v1", TRUE)>>,
    <<Ask("post", "direct", FALSE), Ask("music", "v1", FALSE), Ask("music", "v2", FALSE)>>,
    <<Ask("resolve", "shared", FALSE), Ask("resolve", "other", FALSE),
      Ask("resolve", "direct", FALSE)>>,
    <<Ask("post", "shared", FALSE), Ask("resolve", "shared", TRUE)>>,
    <<Ask("instagram", "photo", FALSE), Ask("instagram", "photo", TRUE),
      Ask("instagram", "video", TRUE)>> }
=============================================================================
