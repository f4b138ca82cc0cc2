------------------------- MODULE MCBenchmarkMemory -------------------------
(* Instances of BenchmarkMemory for TLC: the option settings of the runs.   *)
EXTENDS BenchmarkMemory

Setting(s, e, d, l, m) == [start |-> s, end |-> e, delta |-> d, latency |-> l, mode |-> m]

\* start <= end, the last block short of end by less than a step, one row and
\* three rows; both methods; the three ways of choosing the repeats. Latency with
\* calibration has many more states, because of its ignored failures: one row.
Ascending ==
  {Setting(s[1], s[2], s[3], l, m) :
     s \in {<<1, 3, 1>>, <<1, 4, 2>>, <<2, 2, 1>>}, l \in BOOLEAN, m \in Modes}
LatencyAuto == {Setting(1, 1, 1, TRUE, "auto")}
Sessions == {b \in Ascending : ~(b.latency /\ b.mode = "auto")} \cup LatencyAuto

\* start > end: the other branch of the loop length.
Descending == {Setting(3, 1, 1, FALSE, "set")}
=============================================================================
