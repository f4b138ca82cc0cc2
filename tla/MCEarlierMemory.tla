-------------------------- MODULE MCEarlierMemory --------------------------
(* Option settings for EarlierMemory: two and three rows, both methods, the *)
(* three ways of choosing the repeats, calibration of latency for one row.  *)
EXTENDS EarlierMemory

Setting(s, e, d, l, m) == [start |-> s, end |-> e, delta |-> d, latency |-> l, mode |-> m]

EarlierSettings ==
  {Setting(1, 3, 1, FALSE, m) : m \in Modes} \cup
  {Setting(1, 4, 2, TRUE, m) : m \in {"set", "adaptive"}} \cup
  {Setting(1, 1, 1, TRUE, "auto")}
=============================================================================
