---------------------------- MODULE EnergyCounter ----------------------------
(***************************************************************************)
(* What the plug's energy meter promises, whatever the deadbands, clocks   *)
(* and intervals of power_measurement.cpp: a total that only grows while   *)
(* the supply lasts, a durable copy that trails it by a bounded amount,    *)
(* and announcements that carry the total of the moment.                   *)
(***************************************************************************)
EXTENDS Integers

CONSTANTS
    Rate,       \* energy in the unit of Loss per unit of the total
    Loss,       \* what may be counted and not durable
    MayForget   \* may a boot find the durable copy unreadable?

VARIABLES
    total,      \* energy counted, in the unit announced
    durable,    \* the copy that survives a power cut
    told,       \* what the last announcement carried
    refused     \* the durable copy could not be written when it was due

vars == <<total, durable, told, refused>>

Init == total = 0 /\ durable = 0 /\ told = 0 /\ refused = FALSE

\* Energy is counted, and the new total perhaps saved and perhaps announced.
\* Unless a save was refused, what is not durable stays within the bound.
Count ==
    /\ total' \in Nat /\ total' >= total
    /\ durable' \in {durable, total'}
    /\ told' \in {told, total'}
    /\ refused' \in BOOLEAN
    /\ ~refused' => Rate * (total' - durable') <= Loss

\* The supply is cut: counting resumes from the durable copy.
Cut ==
    /\ total' = durable /\ refused' = FALSE
    /\ UNCHANGED <<durable, told>>

\* A boot cannot read the durable copy and counts from zero.
Forget ==
    /\ MayForget
    /\ total' = 0
    /\ UNCHANGED <<durable, told, refused>>

Next == Count \/ Cut \/ Forget

Spec == Init /\ [][Next]_vars
=============================================================================
