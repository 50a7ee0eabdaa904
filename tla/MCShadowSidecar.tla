---------------------------- MODULE MCShadowSidecar ----------------------------
(* One market with two outcomes. Intent "a" comes in two sizes and against    *)
(* another market, "c" with a token named twice, "d" as an IOC that is post-  *)
(* only.                                                                      *)
EXTENDS ShadowSidecar

Tokens == <<[id |-> "t1", outcome |-> "up"], [id |-> "t2", outcome |-> "down"]>>
Doubled == <<[id |-> "t1", outcome |-> "up"], [id |-> "t1", outcome |-> "down"]>>
Make(id, qty, market, tokens, tif, postOnly) ==
  [intent |-> [id |-> id, market |-> "m", outcome |-> "up", qty |-> qty, tif |-> tif],
   market |-> market, tokens |-> tokens, postOnly |-> postOnly]

A1 == Make("a", 1, "m", Tokens, "GTC", TRUE)
A2 == Make("a", 2, "m", Tokens, "IOC", FALSE)
B  == Make("b", 1, "m", Tokens, "FOK", FALSE)
Elsewhere == Make("a", 1, "n", Tokens, "GTC", TRUE)
Ambiguous == Make("c", 1, "m", Doubled, "GTC", TRUE)
Unmapped  == Make("d", 1, "m", Tokens, "IOC", TRUE)

MCBatches == {<<A1, B>>, <<B, A2>>, <<A1, A2>>, <<Ambiguous, A1, Unmapped>>, <<Elsewhere>>}
MCCandidates == {[request |-> A1, risk |-> 1], [request |-> B, risk |-> 2]}
================================================================================
