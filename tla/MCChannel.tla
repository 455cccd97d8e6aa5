----------------------------- MODULE MCChannel -----------------------------
(* Model-checking instance of Channel: one VU, one topic, a Phoenix       *)
(* server that may reject the join, push, stop the channel and drop.      *)
EXTENDS Channel

MCTopic == "rtc:iamgoi"
\* "4" and "12": a ref below the seed and one past the refs this VU issues.
MCStrayRefs == {ToDecimal(4), ToDecimal(12)}
=============================================================================
