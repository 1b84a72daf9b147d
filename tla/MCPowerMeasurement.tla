------------------------- MODULE MCPowerMeasurement -------------------------
(***************************************************************************)
(* Small instances of PowerMeasurement.  One quantity whose readings cross *)
(* its deadband in both directions stands for the three, which the code    *)
(* treats alike, and is also the power that is integrated.                 *)
(***************************************************************************)
EXTENDS PowerMeasurement

Quantities == {"ActivePower"}
ReadingsOf(values) == [Quantities -> values]
DeadbandOf(n) == [q \in Quantities |-> n]

\* A trickle that no interval counts, a small load and a large one.
SmallReadings == ReadingsOf({0, 1, 6})
SmallDeadband == DeadbandOf(2)

\* A steady load of one watt, in mW; and of two kilowatts, in W.
OneWatt == ReadingsOf({1000})
TwoKilowatts == ReadingsOf({2000})
=============================================================================
