----------------------- MODULE PowerMeasurementProofs -----------------------
(***************************************************************************)
(* Theorems about PowerMeasurement, for every set of readings, deadbands,  *)
(* poll gaps, intervals and thresholds, and any number of power cuts.      *)
(***************************************************************************)
EXTENDS PowerMeasurement, TLAPS

\* Since the last Put the plug can have counted no more than its rating draws.
PersistInv ==
    /\ sLastPersistedEnergyMwh <= sCumulativeEnergyMwh
    /\ sLastPersistedEnergyMwh <= kvs
    /\ sLastPersistMs <= sLastSampleMs
    /\ MwMsPerMwh * (sCumulativeEnergyMwh - sLastPersistedEnergyMwh)
           <= MaxPower * (sLastSampleMs - sLastPersistMs)
    /\ ~putFailed =>
           MwMsPerMwh * (sCumulativeEnergyMwh - sLastPersistedEnergyMwh) <= LossBound

\* Where the app task is while polls run.
Polling == {"idle", "set", "report", "energy"}

\* While the store works, RAM knows what it holds and what was told of it.
StoreInv ==
    /\ putFailed => kvsFailed
    /\ ~kvsFailed =>
           /\ step \in Polling => sLastPersistedEnergyMwh = kvs
           /\ MwMsPerMwh * (maxTold - kvs) <= LossBound

ResidueInv ==
    /\ residue >= 0
    /\ residue <= samples * (2 * (MwMsPerMwh - 1)) + sLastSampleMs

\* The reading and what was told of it are each within a deadband of what was
\* marked, except between Set() and ReportIfMoved().
SubscriberInv ==
    sHaveReported =>
        /\ step # "report" =>
               \A q \in Quantity : Distance(delegate[q], sReported[q]) < Deadband[q]
        /\ \A q \in Quantity \ dirty :
               \/ Distance(told[q], sReported[q]) < Deadband[q]
               \/ step \in {"set", "report"} /\ told[q] = incoming[q]

\* Values in transit and stored are measured ones, and once Set() is over the
\* delegate holds its arguments.
MeasuredInv ==
    /\ \A q \in Quantity :
           incoming[q] \in Measured(q) /\ delegate[q] \in Measured(q) /\ told[q] \in Measured(q)
    /\ step = "report" => delegate = incoming

Inv == TypeOK /\ PersistInv /\ StoreInv /\ ResidueInv /\ SubscriberInv /\ MeasuredInv

-----------------------------------------------------------------------------
(***************************************************************************)
(* Arithmetic of one interval.                                             *)
(***************************************************************************)

LEMMA DivBound ==
    ASSUME NEW a \in Nat, NEW k \in Nat \ {0}
    PROVE  a \div k \in Nat /\ k * (a \div k) <= a /\ a <= k * (a \div k) + k - 1
OBVIOUS

LEMMA Monotone ==
    ASSUME NEW a \in Nat, NEW b \in Nat, NEW c \in Nat, a <= b
    PROVE  a * c <= b * c /\ a * c \in Nat
OBVIOUS

\* Halving the sum loses at most half a unit of power, dividing by k less than
\* one unit of energy.
LEMMA IntervalArithmetic ==
    ASSUME NEW s \in Nat, NEW e \in Nat, NEW k \in Nat \ {0},
           NEW top \in Nat, s <= 2 * top
    PROVE  LET a == s \div 2
               i == (a * e) \div k
           IN  /\ i \in Nat
               /\ k * i <= top * e
               /\ 0 <= s * e - 2 * k * i
               /\ s * e - 2 * k * i <= 2 * (k - 1) + e
<1> DEFINE a == s \div 2
           i == (a * e) \div k
<1>1. a \in Nat /\ 2 * a <= s /\ s <= 2 * a + 1
    OBVIOUS
<1>2. a * e \in Nat /\ 2 * (a * e) <= s * e /\ s * e <= 2 * (a * e) + e
    <2>1. a * e \in Nat
        BY <1>1
    <2>2. (2 * a) * e <= s * e /\ s * e <= (2 * a + 1) * e
        BY <1>1, Monotone
    <2>3. (2 * a) * e = 2 * (a * e) /\ (2 * a + 1) * e = 2 * (a * e) + e
        BY <1>1
    <2> QED
        BY <2>1, <2>2, <2>3
<1>3. i \in Nat /\ k * i <= a * e /\ a * e <= k * i + k - 1
    BY <1>2, DivBound
<1>4. a * e <= top * e
    BY <1>1, Monotone
<1>5. k * i \in Nat /\ 2 * k * i = 2 * (k * i)
    BY <1>3
<1> HIDE DEF a, i
<1>6. k * i <= top * e
    <2>1. top * e \in Nat
        OBVIOUS
    <2> QED
        BY <1>2, <1>3, <1>4, <1>5, <2>1
<1>7. 0 <= s * e - 2 * k * i /\ s * e - 2 * k * i <= 2 * (k - 1) + e
    <2>1. s * e \in Nat
        OBVIOUS
    <2> QED
        BY <1>2, <1>3, <1>5, <2>1
<1> QED
    BY <1>3, <1>6, <1>7 DEF a, i

\* The same of the model's operators.
LEMMA IntervalBound ==
    ASSUME TypeOK, NEW e \in Nat
    PROVE  /\ IntervalEnergy(e) \in Nat
           /\ MwMsPerMwh * IntervalEnergy(e) <= MaxPower * e
           /\ 0 <= TwiceDrawn(e) - 2 * MwMsPerMwh * IntervalEnergy(e)
           /\ TwiceDrawn(e) - 2 * MwMsPerMwh * IntervalEnergy(e)
                  <= 2 * (MwMsPerMwh - 1) + e
           /\ TwiceDrawn(e) \in Nat
<1> DEFINE s == sLastActivePowerMw + delegate[Power]
<1>1. s \in Nat /\ s <= 2 * MaxPower
    BY MeasurementAssumption DEF TypeOK
<1>2. TwiceDrawn(e) = s * e /\ IntervalEnergy(e) = ((s \div 2) * e) \div MwMsPerMwh
    BY DEF TwiceDrawn, IntervalEnergy
<1>3. MwMsPerMwh \in Nat \ {0} /\ MaxPower \in Nat
    BY MeasurementAssumption
<1> HIDE DEF s
<1>4. s * e \in Nat
    BY <1>1
<1> QED
    BY <1>1, <1>2, <1>3, <1>4, IntervalArithmetic

LEMMA LossBoundType ==
    /\ LossBound \in Nat
    /\ MwMsPerMwh * PersistThreshold <= LossBound
    /\ MaxPower * PersistMinInterval <= LossBound
<1>1. MwMsPerMwh * PersistThreshold \in Nat /\ MaxPower * PersistMinInterval \in Nat
    BY MeasurementAssumption
<1> QED
    BY <1>1 DEF LossBound, Larger

-----------------------------------------------------------------------------
(***************************************************************************)
(* One interval of the integrator, from a state of the invariant.          *)
(***************************************************************************)

\* Abbreviations for the interval IntegrateEnergy closes and its new total.
Elapsed == uptime - sLastSampleMs
Total == sCumulativeEnergyMwh + IntervalEnergy(Elapsed)

LEMMA TotalBound ==
    ASSUME Inv
    PROVE  /\ Elapsed \in Nat /\ Total \in Nat
           /\ sLastPersistedEnergyMwh <= sCumulativeEnergyMwh
           /\ sCumulativeEnergyMwh <= Total
           /\ MwMsPerMwh * (Total - sLastPersistedEnergyMwh)
                  <= MaxPower * (uptime - sLastPersistMs)
           /\ uptime - sLastPersistMs \in Nat
<1>1. Elapsed \in Nat
    BY DEF Inv, TypeOK, Elapsed
<1>2. /\ IntervalEnergy(Elapsed) \in Nat
      /\ MwMsPerMwh * IntervalEnergy(Elapsed) <= MaxPower * Elapsed
    BY <1>1, IntervalBound DEF Inv
<1> DEFINE delta == sCumulativeEnergyMwh - sLastPersistedEnergyMwh
           before == sLastSampleMs - sLastPersistMs
<1>3. /\ delta \in Nat /\ before \in Nat
      /\ MwMsPerMwh * delta <= MaxPower * before
      /\ MwMsPerMwh \in Nat /\ MaxPower \in Nat
    BY MeasurementAssumption DEF Inv, TypeOK, PersistInv
<1>4. /\ Total - sLastPersistedEnergyMwh = delta + IntervalEnergy(Elapsed)
      /\ uptime - sLastPersistMs = before + Elapsed
    BY <1>2 DEF Inv, TypeOK, Total, Elapsed
<1> HIDE DEF delta, before
<1>5. /\ MwMsPerMwh * (delta + IntervalEnergy(Elapsed))
             = MwMsPerMwh * delta + MwMsPerMwh * IntervalEnergy(Elapsed)
      /\ MaxPower * (before + Elapsed) = MaxPower * before + MaxPower * Elapsed
    BY <1>1, <1>2, <1>3
<1>6. /\ MwMsPerMwh * delta \in Nat /\ MwMsPerMwh * IntervalEnergy(Elapsed) \in Nat
      /\ MaxPower * before \in Nat /\ MaxPower * Elapsed \in Nat
    BY <1>1, <1>2, <1>3
<1>7. MwMsPerMwh * delta + MwMsPerMwh * IntervalEnergy(Elapsed)
          <= MaxPower * before + MaxPower * Elapsed
    BY <1>2, <1>3, <1>6
<1>8. MwMsPerMwh * (Total - sLastPersistedEnergyMwh) <= MaxPower * (uptime - sLastPersistMs)
    BY <1>4, <1>5, <1>7
<1>9. uptime - sLastPersistMs \in Nat
    BY <1>1, <1>3, <1>4
<1> QED
    BY <1>1, <1>2, <1>8, <1>9 DEF Inv, TypeOK, PersistInv, Total

\* A total that is not due to be persisted is within the loss bound.
LEMMA NotDue ==
    ASSUME Inv, ~PersistDue(Total)
    PROVE  MwMsPerMwh * (Total - sLastPersistedEnergyMwh) <= LossBound
<1> DEFINE delta == Total - sLastPersistedEnergyMwh
           since == uptime - sLastPersistMs
<1>1. delta \in Nat /\ since \in Nat /\ MwMsPerMwh * delta <= MaxPower * since
    BY TotalBound DEF Inv, TypeOK
<1>2. delta < PersistThreshold \/ since < PersistMinInterval \/ delta = 0
    BY <1>1, MeasurementAssumption DEF PersistDue
<1> HIDE DEF delta, since
<1> USE MeasurementAssumption, LossBoundType
<1>3. CASE delta = 0
    BY <1>3 DEF delta
<1>4. CASE delta < PersistThreshold
    <2>1. MwMsPerMwh * delta <= MwMsPerMwh * PersistThreshold
        BY <1>1, <1>4, Monotone
    <2> QED
        BY <1>1, <2>1 DEF delta
<1>5. CASE since < PersistMinInterval
    <2>1. MaxPower * since <= MaxPower * PersistMinInterval
        BY <1>1, <1>5, Monotone
    <2> QED
        BY <1>1, <2>1 DEF delta
<1> QED
    BY <1>2, <1>3, <1>4, <1>5

-----------------------------------------------------------------------------
(***************************************************************************)
(* Type correctness.                                                       *)
(***************************************************************************)

\* A Boolean variable that is assigned a truth value stays Boolean.
Flags == <<fabrics, sHaveReported, sHaveLastSample, kvsFailed, putFailed>>
FlagsOK ==
    /\ fabrics \in BOOLEAN /\ sHaveReported \in BOOLEAN /\ sHaveLastSample \in BOOLEAN
    /\ kvsFailed \in BOOLEAN /\ putFailed \in BOOLEAN

LEMMA FlagsStep == ASSUME FlagsOK, [Next]_vars PROVE FlagsOK'
<1>1. CASE PowerMeasurementInit
    BY Zenon, <1>1 DEF FlagsOK, PowerMeasurementInit, LoadCumulativeEnergy, subscription
<1>2. CASE PowerMeasurementUpdate
    BY Zenon, <1>2 DEF FlagsOK, PowerMeasurementUpdate, integrator
<1>9. CASE Set
    BY Zenon, <1>9 DEF FlagsOK, Set, integrator
<1>3. CASE ReportIfMoved
    BY Zenon, <1>3 DEF FlagsOK, ReportIfMoved, integrator
<1>4. CASE IntegrateEnergy
    <2>1. /\ fabrics' = fabrics /\ sHaveReported' = sHaveReported /\ sHaveLastSample' = TRUE
        BY <1>4 DEF IntegrateEnergy, subscription
    <2>2. kvsFailed' \in BOOLEAN /\ putFailed' \in BOOLEAN
        BY Zenon, <1>4 DEF FlagsOK, IntegrateEnergy, PersistCumulativeEnergyIfDue
    <2> QED
        BY Zenon, <2>1, <2>2 DEF FlagsOK
<1>5. CASE ReportAttribute
    BY Zenon, <1>5 DEF FlagsOK, ReportAttribute, integrator
<1>6. CASE ChangeFabrics
    BY Zenon, <1>6 DEF FlagsOK, ChangeFabrics, subscription, integrator
<1>7. CASE PowerCut
    BY Zenon, <1>7 DEF FlagsOK, PowerCut, RamReset
<1>8. CASE UNCHANGED vars
    BY Zenon, <1>8 DEF FlagsOK, vars, subscription, integrator
<1> QED
    BY <1>1, <1>2, <1>3, <1>4, <1>5, <1>6, <1>7, <1>8, <1>9 DEF Next

\* What IntegrateEnergy does to the total, the residue and the store.
LEMMA IntegrateCases ==
    ASSUME Inv, IntegrateEnergy
    PROVE  \/ /\ sHaveLastSample
              /\ sCumulativeEnergyMwh' = Total
              /\ residue' = residue + TwiceDrawn(Elapsed)
                               - 2 * MwMsPerMwh * IntervalEnergy(Elapsed)
              /\ samples' = samples + 1
              /\ PersistCumulativeEnergyIfDue(Total)
              /\ Announce(Total)
           \/ UNCHANGED <<sCumulativeEnergyMwh, residue, samples, persistence, kvsFailed,
                          putFailed, announcements>>
BY DEF IntegrateEnergy, Total, Elapsed

\* What becomes of the store: the new total is put, or it was not due, or
\* the Put failed, or there was no interval to integrate.
LEMMA PersistCases ==
    ASSUME Inv, IntegrateEnergy
    PROVE  \/ /\ sHaveLastSample /\ sCumulativeEnergyMwh' = Total
              /\ kvs' = Total /\ sLastPersistedEnergyMwh' = Total /\ sLastPersistMs' = uptime
              /\ kvsFailed' = kvsFailed
           \/ /\ sHaveLastSample /\ sCumulativeEnergyMwh' = Total
              /\ UNCHANGED <<sLastPersistedEnergyMwh, sLastPersistMs, kvs>>
              /\ UNCHANGED kvsFailed /\ UNCHANGED putFailed /\ ~PersistDue(Total)
           \/ /\ sHaveLastSample /\ sCumulativeEnergyMwh' = Total
              /\ UNCHANGED <<sLastPersistedEnergyMwh, sLastPersistMs, kvs>>
              /\ kvsFailed' /\ putFailed'
           \/ UNCHANGED <<sCumulativeEnergyMwh, sLastPersistedEnergyMwh, sLastPersistMs, kvs,
                          kvsFailed, putFailed, lastTold, maxTold>>
BY IntegrateCases DEF PersistCumulativeEnergyIfDue, persistence, announcements

(***************************************************************************)
(* What a report can carry: readings fit in a word, so that a half-written *)
(* value is the old one or the new one.                                    *)
(***************************************************************************)

LEMMA OneWord ==
    ASSUME NEW w \in Nat \ {0}, NEW a \in Nat, a < w
    PROVE  a \div w = 0 /\ a % w = a
<1>1. a \div w \in Nat /\ w * (a \div w) <= a
    BY DivBound
<1>2. ASSUME a \div w >= 1 PROVE FALSE
    <2>1. 1 * w <= (a \div w) * w
        BY <1>1, <1>2, Monotone
    <2> QED
        BY <1>1, <2>1
<1>3. a \div w = 0
    BY <1>1, <1>2
<1>4. a = w * (a \div w) + (a % w)
    OBVIOUS
<1> QED
    BY <1>3, <1>4

LEMMA MeasuredFits ==
    ASSUME NEW q \in Quantity, NEW v \in Measured(q)
    PROVE  v \in Nat /\ v < Word
BY MeasurementAssumption DEF Measured

LEMMA SeenValues ==
    ASSUME NEW q \in Quantity, NEW old \in Measured(q), NEW new \in Measured(q)
    PROVE  Seen(old, new) = {old, new}
<1>1. /\ old \div Word = 0 /\ old % Word = old
      /\ new \div Word = 0 /\ new % Word = new
    BY OneWord, MeasuredFits, MeasurementAssumption
<1>2. old \in Nat /\ new \in Nat /\ Word \in Nat
    BY MeasuredFits, MeasurementAssumption
<1>3. Seen(old, new) = {Word * 0 + old, Word * 0 + new}
    BY <1>1 DEF Seen
<1> QED
    BY <1>2, <1>3

\* A report sends the value that is or, while Set() runs, is about to be.
LEMMA ReportCases ==
    ASSUME Inv, ReportAttribute
    PROVE  \E q \in dirty :
              /\ \/ told' = [told EXCEPT ![q] = delegate[q]]
                 \/ step = "set" /\ told' = [told EXCEPT ![q] = incoming[q]]
              /\ dirty' = dirty \ {q}
              /\ q \in Quantity
<1>1. PICK q \in dirty :
         /\ \E value \in Seen(delegate[q], IF step = "set" THEN incoming[q] ELSE delegate[q]) :
               told' = [told EXCEPT ![q] = value]
         /\ dirty' = dirty \ {q}
    BY DEF ReportAttribute
<1>2. q \in Quantity /\ delegate[q] \in Measured(q) /\ incoming[q] \in Measured(q)
    BY DEF Inv, TypeOK, MeasuredInv
<1>3. PICK value \in Seen(delegate[q], IF step = "set" THEN incoming[q] ELSE delegate[q]) :
         told' = [told EXCEPT ![q] = value]
    BY <1>1
<1>4. CASE step = "set"
    <2>1. Seen(delegate[q], incoming[q]) = {delegate[q], incoming[q]}
        BY <1>2, SeenValues
    <2>2. value = delegate[q] \/ value = incoming[q]
        BY <1>3, <1>4, <2>1
    <2> QED
        BY <1>1, <1>2, <1>3, <1>4, <2>2
<1>5. CASE step # "set"
    <2>1. Seen(delegate[q], delegate[q]) = {delegate[q]}
        BY <1>2, SeenValues
    <2>2. value = delegate[q]
        BY <1>3, <1>5, <2>1
    <2> QED
        BY <1>1, <1>2, <1>3, <2>2
<1> QED
    BY <1>4, <1>5

LEMMA TypeStep == ASSUME Inv, [Next]_vars PROVE TypeOK'
<1> USE MeasurementAssumption DEF Inv, TypeOK
<1>0. FlagsOK'
    BY FlagsStep DEF FlagsOK
<1>1. CASE PowerMeasurementInit
    BY <1>0, <1>1 DEF FlagsOK, PowerMeasurementInit, LoadCumulativeEnergy, subscription,
        announcements
<1>2. CASE PowerMeasurementUpdate
    <2>1. PICK gap \in Gap : uptime' = uptime + gap
        BY <1>2 DEF PowerMeasurementUpdate
    <2>2. uptime' \in 0..MaxUptime /\ uptime <= uptime'
        BY <1>2, <2>1 DEF PowerMeasurementUpdate
    <2>3. incoming' \in [Quantity -> Nat] /\ incoming'[Power] \in 0..MaxPower
        BY <1>2 DEF PowerMeasurementUpdate
    <2> QED
        BY <1>0, <1>2, <2>2, <2>3 DEF FlagsOK, PowerMeasurementUpdate, integrator, persistence,
            announcements
<1>9. CASE Set
    BY <1>0, <1>9 DEF FlagsOK, Set, integrator, persistence, announcements
<1>3. CASE ReportIfMoved
    <2>1. sReported' \in [Quantity -> Nat] /\ dirty' \subseteq Quantity
        BY <1>3 DEF ReportIfMoved, Moved
    <2> QED
        BY <1>0, <1>3, <2>1 DEF FlagsOK, ReportIfMoved, integrator, persistence, announcements
<1>4. CASE IntegrateEnergy
    <2>1. Total \in Nat /\ Elapsed \in Nat
        BY TotalBound
    <2>2. TwiceDrawn(Elapsed) \in Nat /\ IntervalEnergy(Elapsed) \in Nat
        BY <2>1, IntervalBound
    <2>3. sCumulativeEnergyMwh' \in Nat /\ samples' \in Nat /\ residue' \in Int
        <3>1. 2 * MwMsPerMwh * IntervalEnergy(Elapsed) \in Int
            BY <2>2
        <3> QED
            BY <1>4, <2>1, <2>2, <3>1, IntegrateCases
    <2>4. sLastPersistedEnergyMwh' \in Nat /\ sLastPersistMs' \in 0..uptime /\ kvs' \in Nat
        BY <1>4, <2>1, PersistCases
    <2>5. lastTold' \in Nat /\ maxTold' \in Nat /\ sLastReportMs' \in 0..uptime
        BY <1>4, <2>1, IntegrateCases DEF Announce, Larger, announcements
    <2>6. /\ sLastActivePowerMw' \in 0..MaxPower /\ sLastSampleMs' = uptime /\ step' = "idle"
          /\ UNCHANGED <<uptime, boots, subscription>>
        BY <1>4 DEF IntegrateEnergy
    <2> QED
        BY <1>0, <2>3, <2>4, <2>5, <2>6 DEF FlagsOK, subscription
<1>5. CASE ReportAttribute
    <2>1. told' \in [Quantity -> Nat] /\ dirty' \subseteq Quantity
        BY <1>5, ReportCases
    <2> QED
        BY <1>0, <1>5, <2>1 DEF FlagsOK, ReportAttribute, app, integrator, persistence,
            announcements
<1>6. CASE ChangeFabrics
    BY <1>0, <1>6 DEF FlagsOK, ChangeFabrics, app, subscription, integrator, persistence,
        announcements
<1>7. CASE PowerCut
    BY <1>0, <1>7 DEF FlagsOK, PowerCut, RamReset, Zeros
<1>8. CASE UNCHANGED vars
    BY <1>0, <1>8 DEF FlagsOK, vars, app, subscription, integrator, persistence, announcements
<1> QED
    BY <1>1, <1>2, <1>3, <1>4, <1>5, <1>6, <1>7, <1>8, <1>9 DEF Next

-----------------------------------------------------------------------------
(***************************************************************************)
(* The four strengthenings.                                                *)
(***************************************************************************)

LEMMA ResidueStep == ASSUME Inv, [Next]_vars PROVE ResidueInv'
<1> USE MeasurementAssumption DEF Inv, TypeOK, ResidueInv
<1>1. CASE IntegrateEnergy
    <2> DEFINE k == 2 * (MwMsPerMwh - 1)
               lost == TwiceDrawn(Elapsed) - 2 * MwMsPerMwh * IntervalEnergy(Elapsed)
    <2>1. Elapsed \in Nat /\ IntervalEnergy(Elapsed) \in Nat /\ TwiceDrawn(Elapsed) \in Nat
          /\ 0 <= lost /\ lost <= k + Elapsed
        BY TotalBound, IntervalBound
    <2>2. sLastSampleMs' = uptime /\ Elapsed = uptime - sLastSampleMs
        BY <1>1 DEF IntegrateEnergy, Elapsed
    <2>3. k \in Nat /\ lost \in Int
        <3>1. 2 * MwMsPerMwh * IntervalEnergy(Elapsed) \in Int
            BY <2>1
        <3> QED
            BY <2>1, <3>1
    <2>4. CASE residue' = residue + lost /\ samples' = samples + 1
        <3>1. (samples + 1) * k = samples * k + k /\ samples * k \in Nat
            BY <2>3
        <3> HIDE DEF k, lost
        <3>2. residue' <= samples' * k + sLastSampleMs'
            BY <2>1, <2>2, <2>3, <2>4, <3>1 DEF k
        <3>3. residue' >= 0
            BY <2>1, <2>3, <2>4
        <3> QED
            BY <3>2, <3>3 DEF k
    <2>5. CASE UNCHANGED <<residue, samples>>
        <3>1. samples * k \in Nat
            BY <2>3
        <3> QED
            BY <2>2, <2>5, <3>1
    <2>6. residue + TwiceDrawn(Elapsed) - 2 * MwMsPerMwh * IntervalEnergy(Elapsed) = residue + lost
        <3>1. 2 * MwMsPerMwh * IntervalEnergy(Elapsed) \in Int
            BY <2>1
        <3> QED
            BY <2>1, <3>1
    <2> HIDE DEF lost, k
    <2> QED
        BY <1>1, <2>4, <2>5, <2>6, IntegrateCases
<1>2. CASE PowerCut
    BY <1>2 DEF PowerCut, RamReset
<1>3. CASE UNCHANGED <<residue, samples, sLastSampleMs>>
    BY <1>3
<1> QED
    BY <1>1, <1>2, <1>3 DEF Next, PowerMeasurementInit, PowerMeasurementUpdate, Set,
        ReportIfMoved, ReportAttribute, ChangeFabrics, vars, integrator

LEMMA PersistStep == ASSUME Inv, [Next]_vars PROVE PersistInv'
<1> USE MeasurementAssumption, LossBoundType DEF Inv, TypeOK, PersistInv
<1>1. CASE PowerMeasurementInit
    <2>1. /\ sCumulativeEnergyMwh' = sLastPersistedEnergyMwh'
          /\ sLastPersistedEnergyMwh' \in {0, kvs}
          /\ UNCHANGED <<kvs, sLastSampleMs, sLastPersistMs>>
          \/ UNCHANGED <<sCumulativeEnergyMwh, sLastPersistedEnergyMwh, kvs, sLastSampleMs,
                         sLastPersistMs>>
        BY <1>1 DEF PowerMeasurementInit, LoadCumulativeEnergy
    <2>2. putFailed' = putFailed
        BY <1>1 DEF PowerMeasurementInit
    <2>3. MaxPower * (sLastSampleMs - sLastPersistMs) \in Nat
        BY DEF PersistInv
    <2> QED
        BY <2>1, <2>2, <2>3
<1>2. CASE IntegrateEnergy
    <2>1. sLastSampleMs' = uptime
        BY <1>2 DEF IntegrateEnergy
    <2>2. sLastPersistMs <= uptime
        OBVIOUS
    <2>3. CASE /\ sCumulativeEnergyMwh' = Total /\ kvs' = Total
               /\ sLastPersistedEnergyMwh' = Total /\ sLastPersistMs' = uptime
        BY <2>1, <2>3, TotalBound
    <2>4. CASE /\ sHaveLastSample /\ sCumulativeEnergyMwh' = Total
               /\ UNCHANGED <<sLastPersistedEnergyMwh, sLastPersistMs, kvs>>
               /\ UNCHANGED kvsFailed /\ UNCHANGED putFailed /\ ~PersistDue(Total)
        BY <2>1, <2>2, <2>4, TotalBound, NotDue
    <2>5. CASE /\ sHaveLastSample /\ sCumulativeEnergyMwh' = Total
               /\ UNCHANGED <<sLastPersistedEnergyMwh, sLastPersistMs, kvs>>
               /\ kvsFailed' /\ putFailed'
        BY <2>1, <2>2, <2>5, TotalBound
    <2>6. CASE UNCHANGED <<sCumulativeEnergyMwh, sLastPersistedEnergyMwh, sLastPersistMs, kvs,
                           kvsFailed, putFailed, lastTold, maxTold>>
        <3>1. MaxPower * (sLastSampleMs - sLastPersistMs) <= MaxPower * (uptime - sLastPersistMs)
            <4>1. /\ sLastSampleMs - sLastPersistMs \in Nat /\ uptime - sLastPersistMs \in Nat
                  /\ sLastSampleMs - sLastPersistMs <= uptime - sLastPersistMs
                OBVIOUS
            <4> QED
                BY <4>1, Monotone
        <3>2. /\ MwMsPerMwh * (sCumulativeEnergyMwh - sLastPersistedEnergyMwh) \in Int
              /\ MaxPower * (sLastSampleMs - sLastPersistMs) \in Int
              /\ MaxPower * (uptime - sLastPersistMs) \in Int
            OBVIOUS
        <3> QED
            BY <2>1, <2>2, <2>6, <3>1, <3>2
    <2> QED
        BY Zenon, <1>2, <2>3, <2>4, <2>5, <2>6, PersistCases
<1>3. CASE PowerCut
    <2>1. /\ sCumulativeEnergyMwh' = 0 /\ sLastPersistedEnergyMwh' = 0
          /\ sLastSampleMs' = 0 /\ sLastPersistMs' = 0 /\ kvs' = kvs
        BY <1>3 DEF PowerCut, RamReset
    <2> QED
        BY <2>1
<1>4. CASE UNCHANGED <<sCumulativeEnergyMwh, sLastPersistedEnergyMwh, sLastPersistMs, kvs,
                       sLastSampleMs, putFailed>>
    BY <1>4
<1> QED
    BY <1>1, <1>2, <1>3, <1>4 DEF Next, PowerMeasurementUpdate, Set, ReportIfMoved,
        ReportAttribute, ChangeFabrics, vars, integrator, persistence

LEMMA StoreStep == ASSUME Inv, [Next]_vars PROVE StoreInv'
<1> USE MeasurementAssumption, LossBoundType DEF Inv, TypeOK, StoreInv, Polling
<1>1. CASE PowerMeasurementInit
    BY Zenon, <1>1 DEF PowerMeasurementInit, LoadCumulativeEnergy, announcements
<1>2. CASE IntegrateEnergy
    <2>1. step' = "idle" /\ step = "energy"
        BY <1>2 DEF IntegrateEnergy
    <2>2. putFailed' => kvsFailed'
        BY <1>2, IntegrateCases DEF PersistCumulativeEnergyIfDue
    <2>3. ~kvsFailed' => sLastPersistedEnergyMwh' = kvs'
        BY <1>2, <2>1, PersistCases
    <2>4. ASSUME ~kvsFailed' PROVE MwMsPerMwh * (maxTold' - kvs') <= LossBound
        <3>1. ~kvsFailed /\ sLastPersistedEnergyMwh = kvs
            BY <1>2, <2>1, <2>4, PersistCases
        <3>2. /\ MwMsPerMwh * (maxTold - kvs) <= LossBound
              /\ kvs <= sCumulativeEnergyMwh /\ sCumulativeEnergyMwh <= Total
              /\ Total \in Nat
            BY <3>1, TotalBound
        <3>3. CASE kvs' = Total /\ maxTold' \in {maxTold, Total}
            <4>1. CASE maxTold' = Total
                BY <3>2, <3>3, <4>1
            <4>2. CASE maxTold' = maxTold
                <5>1. /\ MwMsPerMwh * (maxTold - Total) \in Int
                      /\ MwMsPerMwh * (maxTold - kvs) \in Int
                    BY <3>2
                <5>2. MwMsPerMwh * (maxTold - kvs)
                          = MwMsPerMwh * (maxTold - Total) + MwMsPerMwh * (Total - kvs)
                    BY <3>2
                <5>3. MwMsPerMwh * (Total - kvs) \in Nat
                    BY <3>2
                <5> QED
                    BY <3>2, <3>3, <4>2, <5>1, <5>2, <5>3
            <4> QED
                BY <3>3, <4>1, <4>2
        <3>4. CASE kvs' = kvs /\ maxTold' \in {maxTold, Total} /\ ~PersistDue(Total)
            BY <3>1, <3>2, <3>4, NotDue
        <3>5. CASE UNCHANGED <<kvs, maxTold>>
            BY <3>2, <3>5
        <3>6. maxTold' \in {maxTold, Total}
            BY <1>2, IntegrateCases DEF Announce, Larger, announcements
        <3> QED
            BY <1>2, <2>4, <3>3, <3>4, <3>5, <3>6, PersistCases
    <2> QED
        BY Zenon, <2>2, <2>3, <2>4
<1>3. CASE PowerCut
    <2>1. putFailed' = FALSE /\ step' = "boot"
        BY <1>3 DEF PowerCut, RamReset
    <2>2. UNCHANGED <<kvsFailed, maxTold, kvs>>
        BY <1>3 DEF PowerCut
    <2> QED
        BY <2>1, <2>2
<1>4. CASE \/ PowerMeasurementUpdate \/ Set \/ ReportIfMoved \/ ReportAttribute
            \/ ChangeFabrics \/ UNCHANGED vars
    <2>1. UNCHANGED <<putFailed, kvsFailed, sLastPersistedEnergyMwh, kvs, maxTold>>
        BY <1>4 DEF PowerMeasurementUpdate, Set, ReportIfMoved, ReportAttribute, ChangeFabrics,
            vars, persistence, announcements
    <2>2. step' \in Polling => step \in Polling
        BY <1>4 DEF Polling, PowerMeasurementUpdate, Set, ReportIfMoved, ReportAttribute,
            ChangeFabrics, vars, app
    <2> QED
        BY <2>1, <2>2
<1> QED
    BY <1>1, <1>2, <1>3, <1>4 DEF Next

LEMMA DistanceFacts ==
    ASSUME NEW a \in Nat, NEW b \in Nat
    PROVE  Distance(a, b) \in Nat /\ Distance(a, a) = 0
BY DEF Distance

LEMMA SubscriberStep == ASSUME Inv, [Next]_vars PROVE SubscriberInv'
<1> USE MeasurementAssumption DEF Inv, TypeOK, SubscriberInv
<1>1. CASE Set
    BY <1>1 DEF Set
<1>6. CASE PowerMeasurementUpdate
    BY <1>6 DEF PowerMeasurementUpdate
<1>2. CASE ReportIfMoved
    <2> DEFINE marked == IF sHaveReported THEN Moved ELSE Quantity
    <2>1. /\ sReported' = [q \in Quantity |->
                              IF q \in marked THEN delegate[q] ELSE sReported[q]]
          /\ dirty' = dirty \cup marked
          /\ step = "report" /\ step' = "energy"
          /\ UNCHANGED <<delegate, told>>
        BY <1>2 DEF ReportIfMoved
    <2>2. ASSUME NEW q \in Quantity PROVE Distance(delegate'[q], sReported'[q]) < Deadband[q]
        <3>1. delegate[q] \in Nat /\ sReported[q] \in Nat /\ Deadband[q] \in Nat \ {0}
            OBVIOUS
        <3>2. CASE q \in marked
            BY <2>1, <3>1, <3>2, DistanceFacts
        <3>3. CASE q \notin marked
            BY <2>1, <3>1, <3>3, DistanceFacts DEF Moved
        <3> QED
            BY <3>2, <3>3
    <2>3. ASSUME NEW q \in Quantity \ dirty' PROVE Distance(told'[q], sReported'[q]) < Deadband[q]
        <3>1. q \notin dirty /\ q \notin marked /\ sHaveReported
            BY <2>1, <2>3
        <3>2. sReported'[q] = sReported[q] /\ told'[q] = told[q] /\ delegate'[q] = delegate[q]
            BY <2>1, <3>1
        <3>3. Distance(delegate[q], sReported[q]) < Deadband[q]
            BY <2>2, <3>2
        <3>4. incoming = delegate
            BY <2>1 DEF MeasuredInv
        <3> QED
            BY <3>1, <3>2, <3>3, <3>4
    <2> QED
        BY <2>1, <2>2, <2>3
<1>3. CASE ReportAttribute
    <2>1. PICK q \in dirty :
             /\ \/ told' = [told EXCEPT ![q] = delegate[q]]
                \/ step = "set" /\ told' = [told EXCEPT ![q] = incoming[q]]
             /\ dirty' = dirty \ {q}
             /\ q \in Quantity
        BY <1>3, ReportCases
    <2>2. UNCHANGED <<step, incoming, delegate, sHaveReported, sReported>>
        BY <1>3 DEF ReportAttribute, app
    <2>3. ASSUME NEW p \in Quantity \ dirty', sHaveReported
          PROVE  \/ Distance(told'[p], sReported[p]) < Deadband[p]
                 \/ step \in {"set", "report"} /\ told'[p] = incoming[p]
        <3>1. CASE p # q
            BY <2>1, <2>3, <3>1
        <3>2. CASE p = q
            <4>1. \/ told'[p] = delegate[p]
                  \/ step = "set" /\ told'[p] = incoming[p]
                BY <2>1, <3>2
            <4>2. step = "report" => delegate = incoming
                BY DEF MeasuredInv
            <4> QED
                BY <2>3, <4>1, <4>2
        <3> QED
            BY <3>1, <3>2
    <2> QED
        BY <2>2, <2>3
<1>4. CASE PowerMeasurementInit \/ IntegrateEnergy \/ ChangeFabrics \/ UNCHANGED vars
    <2>1. UNCHANGED subscription
        BY <1>4 DEF PowerMeasurementInit, IntegrateEnergy, ChangeFabrics, vars
    <2>2. \/ step' \notin {"set", "report"} /\ step \notin {"set", "report"}
          \/ step' = step
        BY <1>4 DEF PowerMeasurementInit, IntegrateEnergy, ChangeFabrics, vars, app
    <2> QED
        BY <2>1, <2>2 DEF subscription
<1>5. CASE PowerCut
    BY <1>5 DEF PowerCut, RamReset
<1> QED
    BY <1>1, <1>2, <1>3, <1>4, <1>5, <1>6 DEF Next

LEMMA MeasuredStep == ASSUME Inv, [Next]_vars PROVE MeasuredInv'
<1> USE MeasurementAssumption DEF Inv, TypeOK, MeasuredInv
<1>1. CASE PowerMeasurementUpdate
    <2>1. UNCHANGED <<delegate, told>> /\ step' = "set" /\ incoming' \in Reading
        BY <1>1 DEF PowerMeasurementUpdate
    <2> QED
        BY <2>1 DEF Measured
<1>2. CASE Set
    BY <1>2 DEF Set, Measured
<1>3. CASE ReportAttribute
    <2>1. UNCHANGED <<step, incoming, delegate>>
        BY <1>3 DEF ReportAttribute, app
    <2>2. ASSUME NEW q \in Quantity PROVE told'[q] \in Measured(q)
        BY <1>3, ReportCases
    <2> QED
        BY <2>1, <2>2 DEF Measured
<1>4. CASE PowerCut
    <2>1. incoming' = Zeros /\ delegate' = Zeros /\ told' = told /\ step' = "boot"
        BY <1>4 DEF PowerCut, RamReset
    <2> QED
        BY <2>1 DEF Measured, Zeros
<1>5. CASE \/ PowerMeasurementInit \/ ReportIfMoved \/ IntegrateEnergy \/ ChangeFabrics
            \/ UNCHANGED vars
    <2>1. UNCHANGED <<incoming, delegate, told>>
        BY <1>5 DEF PowerMeasurementInit, ReportIfMoved, IntegrateEnergy, ChangeFabrics, vars,
            subscription
    <2>2. step' # "report" \/ step' = step
        BY <1>5 DEF PowerMeasurementInit, ReportIfMoved, IntegrateEnergy, ChangeFabrics, vars, app
    <2> QED
        BY <2>1, <2>2 DEF Measured
<1> QED
    BY <1>1, <1>2, <1>3, <1>4, <1>5 DEF Next

-----------------------------------------------------------------------------
LEMMA InitInv == Init => Inv
<1> SUFFICES ASSUME Init PROVE Inv
    OBVIOUS
<1> USE MeasurementAssumption, LossBoundType DEF Init, Zeros
<1>1. FlagsOK
    BY Zenon DEF FlagsOK
<1>2. TypeOK
    BY <1>1 DEF TypeOK, FlagsOK
<1>3. PersistInv
    BY DEF PersistInv
<1>4. StoreInv
    BY DEF StoreInv, Polling
<1>5. ResidueInv
    BY DEF ResidueInv
<1>6. SubscriberInv
    BY DEF SubscriberInv
<1>7. MeasuredInv
    BY DEF MeasuredInv, Measured
<1> QED
    BY <1>2, <1>3, <1>4, <1>5, <1>6, <1>7 DEF Inv

\* The strengthened invariant holds in every state of every behaviour.
THEOREM Invariance == Spec => []Inv
<1>1. Inv /\ [Next]_vars => Inv'
    BY TypeStep, PersistStep, StoreStep, ResidueStep, SubscriberStep, MeasuredStep DEF Inv
<1> QED
    BY InitInv, <1>1, PTL DEF Spec

-----------------------------------------------------------------------------
\* Types; among them, no time RAM remembers is ahead of the clock of this boot.
THEOREM TypeCorrect == Spec => []TypeOK
BY Invariance, PTL DEF Inv

\* Once a moved reading has been marked and sent, the subscriber is less than
\* two deadbands away from it, whatever the readings and the deadbands:
\* power_measurement.cpp:264-273, 358-366.
THEOREM SubscriberCorrect == Spec => []SubscriberNear
<1>1. Inv => SubscriberNear
    <2> SUFFICES ASSUME Inv, sHaveReported, step \notin {"set", "report"},
                        NEW q \in Quantity \ dirty
                 PROVE  Distance(told[q], delegate[q]) < 2 * Deadband[q]
        BY DEF SubscriberNear
    <2>1. /\ told[q] \in Nat /\ delegate[q] \in Nat /\ sReported[q] \in Nat
          /\ Deadband[q] \in Nat
        BY MeasurementAssumption DEF Inv, TypeOK
    <2>2. /\ Distance(told[q], sReported[q]) < Deadband[q]
          /\ Distance(delegate[q], sReported[q]) < Deadband[q]
        BY DEF Inv, SubscriberInv
    <2> QED
        BY <2>1, <2>2 DEF Distance
<1> QED
    BY Invariance, <1>1, PTL

\* No torn value is ever told, whatever is measured, as long as a reading fits
\* in a word: power_measurement.cpp:130-145.
THEOREM ToldCorrectly == Spec => []ToldMeasured
<1>1. Inv => ToldMeasured
    BY DEF Inv, MeasuredInv, ToldMeasured
<1> QED
    BY Invariance, <1>1, PTL

\* Counted energy never exceeds what was drawn, and falls short of it by less
\* than a milliwatt-hour an interval: power_measurement.cpp:374-380.
THEOREM EnergyCorrect == Spec => []EnergyAccounted
<1>1. Inv => EnergyAccounted
    <2> SUFFICES ASSUME Inv PROVE EnergyAccounted
        OBVIOUS
    <2>1. samples * (2 * (MwMsPerMwh - 1)) \in Nat
        BY MeasurementAssumption DEF Inv, TypeOK
    <2> QED
        BY <2>1 DEF Inv, TypeOK, ResidueInv, EnergyAccounted
<1> QED
    BY Invariance, <1>1, PTL

\* What of the counted energy is not in the store.
LEMMA StoredBound ==
    ASSUME Inv, ~putFailed
    PROVE  MwMsPerMwh * (sCumulativeEnergyMwh - kvs) <= LossBound
<1> DEFINE k == MwMsPerMwh
           c == sCumulativeEnergyMwh
           p == sLastPersistedEnergyMwh
<1>1. k \in Nat /\ c \in Nat /\ p \in Nat /\ kvs \in Nat /\ p <= kvs /\ kvs - p \in Nat
    BY MeasurementAssumption DEF Inv, TypeOK, PersistInv
<1>2. k * (c - p) <= LossBound
    BY DEF Inv, PersistInv
<1> HIDE DEF k, c, p
<1>3. k * (c - kvs) + k * (kvs - p) = k * (c - p) /\ k * (kvs - p) \in Nat
      /\ k * (c - kvs) \in Int
    BY <1>1
<1>4. k * (c - kvs) <= LossBound
    BY <1>2, <1>3, LossBoundType
<1> QED
    BY <1>4 DEF k, c

\* What a power cut loses of the counted energy is bounded:
\* power_measurement.cpp:183-186, 209-233.
THEOREM LossCorrect == Spec => []LossBounded
<1>1. Inv => LossBounded
    BY StoredBound DEF LossBounded
<1> QED
    BY Invariance, <1>1, PTL

\* No Put has failed before polling begins; one that failed since is owed.
RetryInv == RefusedStaysDue /\ (step \notin Polling => ~putFailed)

LEMMA LaterSince ==
    ASSUME NEW a \in Nat, NEW b \in Nat, NEW c \in Nat, a <= b
    PROVE  a - c \in Int /\ b - c \in Int /\ a - c <= b - c
OBVIOUS

LEMMA RetryStep == ASSUME Inv, RetryInv, [Next]_vars PROVE RetryInv'
<1> USE MeasurementAssumption DEF RetryInv, RefusedStaysDue, Polling
<1>1. CASE PowerMeasurementInit
    BY <1>1 DEF PowerMeasurementInit
<1>2. CASE PowerMeasurementUpdate
    <2>1. /\ UNCHANGED <<sCumulativeEnergyMwh, sLastPersistedEnergyMwh, sLastPersistMs, putFailed>>
          /\ step = "idle" /\ step' = "set"
        BY <1>2 DEF PowerMeasurementUpdate, integrator, persistence
    <2>2. uptime \in Nat /\ uptime' \in Nat /\ uptime <= uptime'
        BY <1>2 DEF PowerMeasurementUpdate, Inv, TypeOK
    <2>3. /\ sCumulativeEnergyMwh \in Nat /\ sLastPersistedEnergyMwh \in Nat
          /\ sLastPersistMs \in Nat
        BY DEF Inv, TypeOK
    <2>4. ASSUME PersistDue(sCumulativeEnergyMwh) PROVE PersistDue(sCumulativeEnergyMwh)'
        <3> DEFINE delta == sCumulativeEnergyMwh - sLastPersistedEnergyMwh
                   since == uptime - sLastPersistMs
                   later == uptime' - sLastPersistMs
        <3>1. /\ delta > 0
              /\ \/ delta >= PersistThreshold /\ since >= PersistMinInterval
                 \/ since >= PersistMaxInterval
            BY <2>4 DEF PersistDue
        <3>2. since \in Int /\ later \in Int /\ since <= later
            BY <2>2, <2>3, LaterSince
        <3>3. \/ delta >= PersistThreshold /\ later >= PersistMinInterval
              \/ later >= PersistMaxInterval
            <4> HIDE DEF delta, since, later
            <4> QED
                BY <3>1, <3>2
        <3> QED
            BY <2>1, <3>1, <3>3 DEF PersistDue
    <2> QED
        BY <2>1, <2>4
<1>3. CASE IntegrateEnergy
    <2>1. step' = "idle" /\ uptime' = uptime
        BY <1>3 DEF IntegrateEnergy
    <2>2. CASE sHaveLastSample
        <3>1. sCumulativeEnergyMwh' = Total /\ PersistCumulativeEnergyIfDue(Total)
            BY <1>3, <2>2 DEF IntegrateEnergy, Total, Elapsed
        <3>2. CASE ~PersistDue(Total) /\ UNCHANGED <<persistence, putFailed>>
            <4>1. sCumulativeEnergyMwh <= Total
                BY TotalBound
            <4>2. /\ sCumulativeEnergyMwh \in Nat /\ sLastPersistedEnergyMwh \in Nat
                  /\ sLastPersistMs \in Nat /\ uptime \in Nat /\ Total \in Nat
                BY TotalBound DEF Inv, TypeOK
            <4>3. PersistDue(sCumulativeEnergyMwh) => PersistDue(Total)
                BY <4>1, <4>2 DEF PersistDue
            <4> QED
                BY <2>1, <3>2, <4>3
        <3>3. CASE ~putFailed'
            BY <2>1, <3>3
        <3>4. CASE PersistDue(Total) /\ UNCHANGED persistence
            <4>1. PersistDue(sCumulativeEnergyMwh)'
                BY <2>1, <3>1, <3>4 DEF PersistDue, persistence
            <4> QED
                BY <2>1, <4>1
        <3>5. putFailed' = FALSE => ~putFailed'
            OBVIOUS
        <3> QED
            BY <3>1, <3>2, <3>3, <3>4, <3>5 DEF PersistCumulativeEnergyIfDue
    <2>3. CASE ~sHaveLastSample
        <3>1. UNCHANGED <<sCumulativeEnergyMwh, persistence, putFailed>>
            BY <1>3, <2>3 DEF IntegrateEnergy
        <3>2. PersistDue(sCumulativeEnergyMwh)' <=> PersistDue(sCumulativeEnergyMwh)
            BY <2>1, <3>1 DEF PersistDue, persistence
        <3> QED
            BY <2>1, <3>1, <3>2
    <2> QED
        BY <2>2, <2>3
<1>4. CASE PowerCut
    BY <1>4 DEF PowerCut, RamReset
<1>5. CASE Set \/ ReportIfMoved \/ ReportAttribute \/ ChangeFabrics \/ UNCHANGED vars
    <2>1. UNCHANGED <<sCumulativeEnergyMwh, sLastPersistedEnergyMwh, sLastPersistMs, putFailed,
                      uptime>>
        BY <1>5 DEF Set, ReportIfMoved, ReportAttribute, ChangeFabrics, vars, app, integrator,
                    persistence
    <2>2. step' \in Polling <=> step \in Polling
        BY <1>5 DEF Set, ReportIfMoved, ReportAttribute, ChangeFabrics, vars, app
    <2> QED
        BY <2>1, <2>2 DEF PersistDue
<1> QED
    BY <1>1, <1>2, <1>3, <1>4, <1>5 DEF Next

\* A refused Put is tried again with every sample until one succeeds, for all
\* thresholds and intervals, and however long the store refuses.
THEOREM RefusedIsRetried == Spec => []RefusedStaysDue
<1>1. Init => RetryInv
    BY DEF Init, RetryInv, RefusedStaysDue
<1>2. Inv /\ RetryInv /\ [Next]_vars => RetryInv'
    BY RetryStep
<1>3. RetryInv => RefusedStaysDue
    BY DEF RetryInv
<1> QED
    BY Invariance, <1>1, <1>2, <1>3, PTL DEF Spec

\* The stored total stays within the same bound of everything controllers have
\* been told, over any number of power cuts: power_measurement.cpp:195-233.
THEOREM ToldCorrect == Spec => []ToldBounded
<1>1. Inv => ToldBounded
    BY DEF Inv, StoreInv, ToldBounded
<1> QED
    BY Invariance, <1>1, PTL

\* The stored total never shrinks while the store works:
\* power_measurement.cpp:195-233, 311-347.
THEOREM StoreCorrect == Spec => StoreNeverShrinks
<1>1. Inv /\ [Next]_vars => [kvsFailed \/ kvs' >= kvs]_vars
    <2> SUFFICES ASSUME Inv, [Next]_vars PROVE kvsFailed \/ kvs' >= kvs
        OBVIOUS
    <2>1. CASE IntegrateEnergy
        <3>1. step = "energy"
            BY <2>1 DEF IntegrateEnergy
        <3> QED
            BY <2>1, <3>1, PersistCases, TotalBound DEF Inv, TypeOK, StoreInv, Polling
    <2>2. CASE UNCHANGED kvs
        BY <2>2 DEF Inv, TypeOK
    <2> QED
        BY <2>1, <2>2 DEF Next, PowerMeasurementInit, PowerMeasurementUpdate, Set,
            ReportIfMoved, ReportAttribute, ChangeFabrics, PowerCut, vars, persistence
<1> QED
    BY Invariance, <1>1, PTL DEF Spec, StoreNeverShrinks

-----------------------------------------------------------------------------
(***************************************************************************)
(* Energy over all boots.                                                  *)
(***************************************************************************)

\* What the rating can have drawn by a time of this boot and in those before.
Drawable(ms) == MaxPower * (MaxUptime * (boots - 1) + ms)

PlausibleInv ==
    /\ boots >= 1
    /\ step = "boot" => uptime = 0
    /\ MwMsPerMwh * sCumulativeEnergyMwh <= Drawable(sLastSampleMs)
    /\ MwMsPerMwh * kvs <= Drawable(uptime)
    /\ MwMsPerMwh * maxTold <= Drawable(uptime)

\* Drawable() is a natural number that grows by the rating's energy.
LEMMA DrawableGrows ==
    ASSUME NEW n \in Nat \ {0}, NEW a \in Nat, NEW e \in Nat
    PROVE  /\ MaxPower * (MaxUptime * (n - 1) + a) \in Nat
           /\ MaxPower * (MaxUptime * (n - 1) + (a + e))
                  = MaxPower * (MaxUptime * (n - 1) + a) + MaxPower * e
           /\ MaxPower * e \in Nat
<1> DEFINE p == MaxUptime * (n - 1)
<1>1. p \in Nat /\ MaxPower \in Nat
    BY MeasurementAssumption
<1> HIDE DEF p
<1>2. MaxPower * (p + (a + e)) = MaxPower * (p + a) + MaxPower * e
    BY <1>1
<1>3. MaxPower * (p + a) \in Nat /\ MaxPower * e \in Nat
    BY <1>1
<1> QED
    BY <1>2, <1>3 DEF p

\* The next boot may draw what is left of the last one's time as well.
LEMMA DrawableOfNextBoot ==
    ASSUME NEW n \in Nat \ {0}, NEW a \in 0..MaxUptime
    PROVE  MaxPower * (MaxUptime * (n - 1) + a) <= MaxPower * (MaxUptime * ((n + 1) - 1) + 0)
<1>1. MaxUptime * ((n + 1) - 1) + 0 = MaxUptime * (n - 1) + MaxUptime
    <2> DEFINE m == n - 1
    <2>1. m \in Nat /\ (n + 1) - 1 = m + 1 /\ MaxUptime \in Nat
        BY MeasurementAssumption
    <2> HIDE DEF m
    <2>2. MaxUptime * (m + 1) = MaxUptime * m + MaxUptime /\ MaxUptime * m \in Nat
        BY <2>1
    <2> QED
        BY <2>1, <2>2 DEF m
<1>2. /\ MaxPower * (MaxUptime * (n - 1) + (a + (MaxUptime - a)))
             = MaxPower * (MaxUptime * (n - 1) + a) + MaxPower * (MaxUptime - a)
      /\ MaxPower * (MaxUptime * (n - 1) + a) \in Nat
      /\ MaxPower * (MaxUptime - a) \in Nat
    <2>1. a \in Nat /\ MaxUptime - a \in Nat
        BY MeasurementAssumption
    <2> QED
        BY <2>1, DrawableGrows
<1>3. a + (MaxUptime - a) = MaxUptime
    BY MeasurementAssumption
<1> QED
    BY <1>1, <1>2, <1>3

\* The total of the interval that ends now is one the rating can have drawn.
LEMMA TotalDrawable ==
    ASSUME Inv, PlausibleInv
    PROVE  /\ MwMsPerMwh * Total <= Drawable(uptime)
           /\ MwMsPerMwh * sCumulativeEnergyMwh <= Drawable(uptime)
<1>1. /\ boots \in Nat \ {0} /\ sLastSampleMs \in Nat /\ Elapsed \in Nat
      /\ sLastSampleMs + Elapsed = uptime
      /\ sCumulativeEnergyMwh \in Nat /\ MwMsPerMwh \in Nat
    BY MeasurementAssumption DEF Inv, TypeOK, PlausibleInv, Elapsed
<1>2. /\ Drawable(sLastSampleMs) \in Nat /\ MaxPower * Elapsed \in Nat
      /\ Drawable(uptime) = Drawable(sLastSampleMs) + MaxPower * Elapsed
    <2>1. /\ MaxPower * (MaxUptime * (boots - 1) + sLastSampleMs) \in Nat
          /\ MaxPower * (MaxUptime * (boots - 1) + (sLastSampleMs + Elapsed))
                 = MaxPower * (MaxUptime * (boots - 1) + sLastSampleMs) + MaxPower * Elapsed
          /\ MaxPower * Elapsed \in Nat
        BY <1>1, DrawableGrows
    <2> QED
        BY <1>1, <2>1 DEF Drawable
<1>3. /\ IntervalEnergy(Elapsed) \in Nat
      /\ MwMsPerMwh * IntervalEnergy(Elapsed) <= MaxPower * Elapsed
    BY <1>1, IntervalBound DEF Inv
<1>4. MwMsPerMwh * sCumulativeEnergyMwh <= Drawable(sLastSampleMs)
    BY DEF PlausibleInv
<1>5. /\ MwMsPerMwh * Total
             = MwMsPerMwh * sCumulativeEnergyMwh + MwMsPerMwh * IntervalEnergy(Elapsed)
      /\ MwMsPerMwh * sCumulativeEnergyMwh \in Nat
      /\ MwMsPerMwh * IntervalEnergy(Elapsed) \in Nat
    BY <1>1, <1>3 DEF Total
<1> HIDE DEF Total, Drawable
<1> QED
    BY <1>2, <1>3, <1>4, <1>5

LEMMA PlausibleStep == ASSUME Inv, PlausibleInv, [Next]_vars PROVE PlausibleInv'
<1>0. /\ boots \in Nat \ {0} /\ uptime \in 0..MaxUptime /\ sLastSampleMs \in 0..uptime
      /\ kvs \in Nat /\ maxTold \in Nat /\ MwMsPerMwh \in Nat
    BY MeasurementAssumption DEF Inv, TypeOK, PlausibleInv
<1>1. CASE PowerMeasurementInit
    <2>1. /\ step = "boot" /\ step' # "boot"
          /\ UNCHANGED <<boots, uptime, kvs, maxTold, sLastSampleMs>>
          /\ sCumulativeEnergyMwh' \in {0, kvs, sCumulativeEnergyMwh}
        BY <1>1 DEF PowerMeasurementInit, LoadCumulativeEnergy, announcements
    <2>2. uptime = 0 /\ sLastSampleMs = 0
        BY <1>0, <2>1 DEF PlausibleInv
    <2>3. 0 <= Drawable(uptime)
        BY <1>0, <2>2, DrawableGrows DEF Drawable
    <2> QED
        BY <1>0, <2>1, <2>2, <2>3 DEF PlausibleInv, Drawable
<1>2. CASE PowerMeasurementUpdate
    <2>1. PICK gap \in Gap : uptime' = uptime + gap
        BY <1>2 DEF PowerMeasurementUpdate
    <2>2. gap \in Nat /\ uptime \in Nat
        BY <1>0, MeasurementAssumption
    <2>3. /\ Drawable(uptime)' = Drawable(uptime) + MaxPower * gap /\ MaxPower * gap \in Nat
          /\ Drawable(uptime) \in Nat /\ Drawable(sLastSampleMs)' = Drawable(sLastSampleMs)
        <3>1. boots' = boots /\ sLastSampleMs' = sLastSampleMs
            BY <1>2 DEF PowerMeasurementUpdate, integrator
        <3>2. /\ MaxPower * (MaxUptime * (boots - 1) + (uptime + gap))
                     = MaxPower * (MaxUptime * (boots - 1) + uptime) + MaxPower * gap
              /\ MaxPower * (MaxUptime * (boots - 1) + uptime) \in Nat
              /\ MaxPower * gap \in Nat
            BY <1>0, <2>2, DrawableGrows
        <3> QED
            BY <2>1, <3>1, <3>2 DEF Drawable
    <2>4. /\ step' # "boot" /\ boots' = boots
          /\ UNCHANGED <<sCumulativeEnergyMwh, kvs, maxTold>>
        BY <1>2 DEF PowerMeasurementUpdate, integrator, persistence, announcements
    <2>5. MwMsPerMwh * kvs \in Nat /\ MwMsPerMwh * maxTold \in Nat
        BY <1>0
    <2> QED
        BY <2>3, <2>4, <2>5 DEF PlausibleInv
<1>3. CASE IntegrateEnergy
    <2>1. UNCHANGED <<boots, uptime>> /\ step' = "idle" /\ sLastSampleMs' = uptime
        BY <1>3 DEF IntegrateEnergy
    <2>2. Drawable(uptime)' = Drawable(uptime) /\ Drawable(sLastSampleMs)' = Drawable(uptime)
        BY <2>1 DEF Drawable
    <2>3. sCumulativeEnergyMwh' \in {Total, sCumulativeEnergyMwh}
        BY <1>3, IntegrateCases
    <2>4. kvs' \in {Total, kvs}
        BY <1>3, PersistCases
    <2>5. maxTold' \in {Total, maxTold}
        BY <1>3, IntegrateCases DEF Announce, Larger, announcements
    <2>6. /\ MwMsPerMwh * sCumulativeEnergyMwh' <= Drawable(uptime)
          /\ MwMsPerMwh * kvs' <= Drawable(uptime) /\ MwMsPerMwh * maxTold' <= Drawable(uptime)
        BY <2>3, <2>4, <2>5, TotalDrawable DEF PlausibleInv
    <2> QED
        BY <2>1, <2>2, <2>6, <1>0 DEF PlausibleInv
<1>4. CASE PowerCut
    <2>1. /\ boots' = boots + 1 /\ uptime' = 0 /\ sLastSampleMs' = 0
          /\ sCumulativeEnergyMwh' = 0 /\ UNCHANGED <<kvs, maxTold>>
        BY <1>4 DEF PowerCut, RamReset
    <2>2. Drawable(uptime) <= Drawable(uptime)' /\ Drawable(uptime)' = Drawable(sLastSampleMs)'
        BY <1>0, <2>1, DrawableOfNextBoot DEF Drawable
    <2>3. Drawable(uptime) \in Nat /\ Drawable(uptime)' \in Nat
        <3>1. boots + 1 \in Nat \ {0} /\ 0 \in Nat /\ uptime \in Nat
            BY <1>0, MeasurementAssumption
        <3> QED
            BY <1>0, <2>1, <3>1, DrawableGrows DEF Drawable
    <2>4. MwMsPerMwh * kvs \in Nat /\ MwMsPerMwh * maxTold \in Nat
        BY <1>0
    <2> QED
        BY <1>0, <2>1, <2>2, <2>3, <2>4 DEF PlausibleInv
<1>5. CASE UNCHANGED <<boots, uptime, sLastSampleMs, sCumulativeEnergyMwh, kvs, maxTold>>
           /\ (step' = "boot" => step = "boot")
    BY <1>5 DEF PlausibleInv, Drawable
<1> QED
    BY <1>1, <1>2, <1>3, <1>4, <1>5 DEF Next, Set, ReportIfMoved, ReportAttribute, ChangeFabrics,
        vars, app, integrator, persistence, announcements

LEMMA PlausibleInvariance == Spec => [](Inv /\ PlausibleInv)
<1>1. Init => PlausibleInv
    <2> SUFFICES ASSUME Init PROVE PlausibleInv
        OBVIOUS
    <2>1. 0 <= Drawable(0)
        <3>1. MaxPower * (MaxUptime * (1 - 1) + 0) \in Nat
            BY DrawableGrows
        <3> QED
            BY <3>1 DEF Init, Drawable
    <2> QED
        BY <2>1, MeasurementAssumption DEF Init, PlausibleInv
<1>2. Inv /\ PlausibleInv /\ [Next]_vars => PlausibleInv'
    BY PlausibleStep
<1> QED
    BY Invariance, <1>1, <1>2, PTL DEF Spec

\* Over any number of boots no total exceeds what the rating draws in the time
\* the plug was powered: power_measurement.cpp:195-233, 374-408.
THEOREM PlausibleCorrect == Spec => []EnergyPlausible
<1>1. Inv /\ PlausibleInv => EnergyPlausible
    BY TotalDrawable DEF PlausibleInv, EnergyPlausible, Drawable
<1> QED
    BY PlausibleInvariance, <1>1, PTL

\* The product IntegrateEnergy() divides, mean power by elapsed time.
IntervalProduct == ((sLastActivePowerMw + delegate[Power]) \div 2) * Elapsed

LEMMA ProductBound ==
    ASSUME Inv
    PROVE  IntervalProduct \in Nat /\ IntervalProduct <= MaxPower * uptime
<1> DEFINE mean == (sLastActivePowerMw + delegate[Power]) \div 2
<1>1. mean \in Nat /\ mean <= MaxPower
    BY MeasurementAssumption DEF Inv, TypeOK
<1>2. Elapsed \in Nat /\ Elapsed <= uptime /\ uptime \in Nat /\ MaxPower \in Nat
    BY MeasurementAssumption DEF Inv, TypeOK, Elapsed
<1> HIDE DEF mean
<1>3. mean * Elapsed <= MaxPower * Elapsed /\ mean * Elapsed \in Nat
    BY <1>1, <1>2, Monotone
<1>4. Elapsed * MaxPower <= uptime * MaxPower
    BY <1>2, Monotone
<1>5. /\ MaxPower * Elapsed = Elapsed * MaxPower /\ MaxPower * uptime = uptime * MaxPower
      /\ MaxPower * Elapsed \in Nat /\ MaxPower * uptime \in Nat
    BY <1>2
<1> QED
    BY <1>3, <1>4, <1>5 DEF IntervalProduct, mean

\* No integer type that holds what the rating draws in the life of the plug,
\* in milliwatt-milliseconds, overflows in the product of an interval, in the
\* total, in the store or in an announcement: the comment of
\* power_measurement.cpp:377-379, for int64_t about eighty years at 3680 W.
THEOREM FitsInWord ==
    ASSUME NEW CONSTANT Limit \in Nat
    PROVE  Spec => [](MaxPower * (MaxUptime * boots) <= Limit =>
               /\ IntervalProduct <= Limit
               /\ \A e \in {sCumulativeEnergyMwh, kvs, maxTold} : e <= Limit)
<1>1. ASSUME Inv, PlausibleInv, MaxPower * (MaxUptime * boots) <= Limit
      PROVE  /\ IntervalProduct <= Limit
             /\ \A e \in {sCumulativeEnergyMwh, kvs, maxTold} : e <= Limit
    <2>1. /\ boots \in Nat \ {0} /\ uptime \in 0..MaxUptime /\ MaxPower \in Nat
          /\ MaxUptime \in Nat /\ MwMsPerMwh \in Nat \ {0}
          /\ sCumulativeEnergyMwh \in Nat /\ kvs \in Nat /\ maxTold \in Nat
        BY <1>1, MeasurementAssumption DEF Inv, TypeOK, PlausibleInv
    <2>2. Drawable(uptime) <= MaxPower * (MaxUptime * boots)
        <3>1. MaxPower * (MaxUptime * (boots - 1) + uptime)
                  <= MaxPower * (MaxUptime * ((boots + 1) - 1) + 0)
            BY <2>1, DrawableOfNextBoot
        <3>2. (boots + 1) - 1 = boots /\ MaxUptime * boots \in Nat
            BY <2>1
        <3>3. MaxUptime * ((boots + 1) - 1) + 0 = MaxUptime * boots
            BY <3>2
        <3> QED
            BY <3>1, <3>3 DEF Drawable
    <2>3. Drawable(uptime) \in Nat /\ MaxPower * uptime <= Drawable(uptime)
        <3>1. uptime \in Nat /\ MaxUptime * (boots - 1) \in Nat
            BY <2>1
        <3> DEFINE p == MaxUptime * (boots - 1)
        <3> HIDE DEF p
        <3>2. p \in Nat
            BY <3>1 DEF p
        <3>3. MaxPower * (p + uptime) = MaxPower * p + MaxPower * uptime
              /\ MaxPower * p \in Nat /\ MaxPower * uptime \in Nat
            BY <2>1, <3>1, <3>2
        <3> QED
            BY <3>3 DEF p, Drawable
    <2>4. MaxPower * (MaxUptime * boots) \in Nat /\ MaxPower * uptime \in Nat
        BY <2>1
    <2>5. IntervalProduct <= Limit
        <3>1. IntervalProduct \in Nat /\ IntervalProduct <= MaxPower * uptime
            BY <1>1, ProductBound
        <3> HIDE DEF Drawable, IntervalProduct
        <3> QED
            BY <1>1, <2>2, <2>3, <2>4, <3>1
    <2>6. ASSUME NEW e \in Nat, MwMsPerMwh * e <= Drawable(uptime) PROVE e <= Limit
        <3>1. 1 * e <= MwMsPerMwh * e /\ MwMsPerMwh * e \in Nat
            BY <2>1, Monotone
        <3> HIDE DEF Drawable
        <3> QED
            BY <1>1, <2>2, <2>3, <2>4, <2>6, <3>1
    <2> QED
        BY <1>1, <2>1, <2>5, <2>6, TotalDrawable DEF PlausibleInv
<1> QED
    BY PlausibleInvariance, <1>1, PTL

-----------------------------------------------------------------------------
(***************************************************************************)
(* The refinement: each step is one of the energy counter's or leaves it   *)
(* alone.                                                                  *)
(***************************************************************************)

\* The state of the abstract counter.
Sum == IF step \in {"boot", "halted"} THEN kvs ELSE sCumulativeEnergyMwh

\* The app task's last step of a sample is the counter's Count.
LEMMA IntegrateCounts ==
    ASSUME Inv, Inv', IntegrateEnergy
    PROVE  Counter!Count \/ UNCHANGED <<Sum, kvs, lastTold, putFailed>>
<1>1. Sum = sCumulativeEnergyMwh /\ Sum' = sCumulativeEnergyMwh'
    BY DEF IntegrateEnergy, Sum
<1>2. /\ Total \in Nat /\ sCumulativeEnergyMwh <= Total
      /\ sCumulativeEnergyMwh \in Nat /\ kvs \in Nat /\ MwMsPerMwh \in Nat
    BY TotalBound, MeasurementAssumption DEF Inv, TypeOK
<1>3. putFailed' \in BOOLEAN
    BY DEF Inv, TypeOK
<1>4. ~putFailed' => MwMsPerMwh * (sCumulativeEnergyMwh' - kvs') <= LossBound
    <2> SUFFICES ASSUME ~putFailed'
                 PROVE  MwMsPerMwh * (sCumulativeEnergyMwh' - kvs') <= LossBound
        OBVIOUS
    <2>1. (Inv /\ ~putFailed => MwMsPerMwh * (sCumulativeEnergyMwh - kvs) <= LossBound)'
        BY StoredBound, PTL
    <2> QED
        BY <2>1 DEF LossBound
<1>5. CASE /\ sCumulativeEnergyMwh' = Total
           /\ PersistCumulativeEnergyIfDue(Total)
           /\ Announce(Total)
    <2>1. lastTold' \in {lastTold, Total}
        BY <1>5 DEF Announce, announcements
    <2>2. kvs' \in {kvs, Total}
        BY <1>5 DEF PersistCumulativeEnergyIfDue, persistence
    <2> QED
        BY <1>1, <1>2, <1>3, <1>4, <1>5, <2>1, <2>2 DEF Counter!Count, Sum
<1>6. CASE UNCHANGED <<sCumulativeEnergyMwh, residue, samples, persistence, kvsFailed,
                       putFailed, announcements>>
    BY <1>1, <1>6 DEF persistence, announcements
<1> QED
    BY <1>5, <1>6, IntegrateCases

\* The plug's meter implements an energy counter with a durable copy, for every
\* threshold, interval and sequence of failures and cuts:
\* power_measurement.cpp:164-233, 374-408.
THEOREM CounterRefined == Spec => CounterImplemented
<1>1. Init => Counter!Init
    BY DEF Init, Counter!Init
<1>2. Inv /\ Inv' /\ [Next]_vars => [Counter!Next]_(Counter!vars)
    <2> SUFFICES ASSUME Inv, Inv', [Next]_vars
                 PROVE  Counter!Next \/ UNCHANGED <<Sum, kvs, lastTold, putFailed>>
        BY DEF Counter!vars, Sum
    <2>1. CASE IntegrateEnergy
        BY <2>1, IntegrateCounts DEF Counter!Next
    <2>2. CASE PowerMeasurementInit
        <3>1. step = "boot" /\ UNCHANGED <<kvs, lastTold, putFailed>>
            BY <2>2 DEF PowerMeasurementInit, announcements
        <3>2. CASE step' = "halted" \/ sCumulativeEnergyMwh' = kvs
            <4>1. step' \in {"idle", "halted"}
                BY <2>2 DEF PowerMeasurementInit
            <4> QED
                BY <3>1, <3>2, <4>1 DEF Sum
        <3>3. CASE step' = "idle" /\ KvsMayFail /\ sCumulativeEnergyMwh' = 0
            BY <3>1, <3>3 DEF Counter!Next, Counter!Forget, Sum
        <3> QED
            BY <2>2, <3>2, <3>3 DEF PowerMeasurementInit, LoadCumulativeEnergy
    <2>3. CASE PowerCut
        <3>1. /\ step' = "boot" /\ putFailed' = FALSE
              /\ UNCHANGED <<kvs, lastTold>>
            BY <2>3 DEF PowerCut, RamReset
        <3> QED
            BY <3>1 DEF Counter!Next, Counter!Cut, Sum
    <2>4. CASE \/ PowerMeasurementUpdate \/ Set \/ ReportIfMoved \/ ReportAttribute
                \/ ChangeFabrics \/ UNCHANGED vars
        <3>1. UNCHANGED <<sCumulativeEnergyMwh, kvs, lastTold, putFailed>>
            BY <2>4 DEF PowerMeasurementUpdate, Set, ReportIfMoved, ReportAttribute,
                ChangeFabrics, vars, integrator, persistence, announcements
        <3>2. step' \in {"boot", "halted"} <=> step \in {"boot", "halted"}
            BY <2>4 DEF PowerMeasurementUpdate, Set, ReportIfMoved, ReportAttribute,
                ChangeFabrics, vars, app
        <3> QED
            BY <3>1, <3>2 DEF Sum
    <2> QED
        BY <2>1, <2>2, <2>3, <2>4 DEF Next
<1> QED
    BY Invariance, <1>1, <1>2, PTL DEF Spec, CounterImplemented, Counter!Spec
=============================================================================
