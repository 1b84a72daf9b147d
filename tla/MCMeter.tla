------------------------------- MODULE MCMeter -------------------------------
(***************************************************************************)
(* Small instances of Meter: a second of two ticks, pulse rates that tell  *)
(* voltage, current and load apart, and the median compared with its       *)
(* definition on every triple of small counts.                             *)
(***************************************************************************)
EXTENDS Meter, FiniteSets

\* The value with at most one sample below it and at most one above.
IsMedian(m, s) ==
    /\ m \in {s[i] : i \in 1..3}
    /\ Cardinality({i \in 1..3 : s[i] < m}) <= 1
    /\ Cardinality({i \in 1..3 : s[i] > m}) <= 1

ASSUME MedianIsMedian ==
    \A s \in [1..3 -> 0..4] : IsMedian(Median(s[1], s[2], s[3]), s)
=============================================================================
