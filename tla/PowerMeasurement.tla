-------------------------- MODULE PowerMeasurement --------------------------
(***************************************************************************)
(* power_measurement.cpp: what MeterPoll() hands to the Matter electrical  *)
(* clusters once per sample.  PowerMeasurementUpdate() stores the reading  *)
(* where the Matter thread reads it, marks the attributes that moved past  *)
(* their deadband, integrates energy in integer milliwatt-hours, persists  *)
(* the total now and then and announces it at most once per interval.      *)
(*                                                                         *)
(* The update runs on the app task in steps between which, and also while  *)
(* the delegate's values are being written, the Matter thread may report   *)
(* an attribute; the supply may be cut anywhere.                           *)
(***************************************************************************)
EXTENDS Integers

CONSTANTS
    Quantity,           \* the measured quantities
    Power,              \* the one of them energy is integrated from
    Reading,            \* readings MeterPoll() may produce: Quantity -> Nat
    Word,               \* what one load or store moves of an int64_t: 2^32
    Deadband,           \* k...Deadband...: Quantity -> mW, mV, mA
    Gap,                \* ms that may pass between two polls
    MwMsPerMwh,         \* 3'600'000
    ReportInterval,     \* kEnergyReportIntervalMs
    PersistThreshold,   \* kEnergyPersistThresholdMwh
    PersistMinInterval, \* kEnergyPersistMinIntervalMs
    PersistMaxInterval, \* kEnergyPersistMaxIntervalMs
    KvsMayFail,         \* may the key-value store refuse a Get or a Put?
    MaxPower,           \* the plug's rating, mW
    MaxUptime,          \* bound on the modelled uptime of a boot, ms
    MaxBoots            \* bound on the modelled number of boots

ASSUME MeasurementAssumption ==
    /\ Power \in Quantity
    /\ Reading \subseteq [Quantity -> Nat]
    /\ Word \in Nat \ {0}
    /\ \A r \in Reading : \A q \in Quantity : r[q] < Word
    /\ MaxPower \in Nat
    /\ \A r \in Reading : r[Power] <= MaxPower
    /\ Deadband \in [Quantity -> Nat \ {0}]
    /\ Gap \subseteq Nat \ {0}
    /\ MwMsPerMwh \in Nat \ {0}
    /\ ReportInterval \in Nat
    /\ PersistThreshold \in Nat /\ PersistMinInterval \in Nat
    /\ PersistMaxInterval \in Nat
    /\ PersistMinInterval <= PersistMaxInterval
    /\ KvsMayFail \in BOOLEAN
    /\ MaxUptime \in Nat /\ MaxBoots \in Nat

VARIABLES
    step,                 \* where the app task is
    uptime,               \* k_uptime_get() at the last poll
    boots,                \* boots so far
    fabrics,              \* FabricCount() > 0
    incoming,             \* the arguments of the last PowerMeasurementUpdate()
    delegate,             \* PlugPowerDelegate's three values
    sHaveReported,
    sReported,            \* sReportedActivePowerMw, ...RmsVoltageMv, ...RmsCurrentMa
    dirty,                \* attributes marked for the reporting engine
    told,                 \* what a subscriber was last told of each attribute
    sHaveLastSample,
    sLastActivePowerMw,
    sLastSampleMs,
    sCumulativeEnergyMwh,
    sLastReportMs,
    sLastPersistedEnergyMwh,
    sLastPersistMs,
    kvs,                  \* the persisted total; 0 when there is none
    lastTold,             \* ghost: energy the last announcement carried
    maxTold,              \* ghost: the most any announcement carried
    samples,              \* ghost: intervals integrated since boot
    residue,              \* ghost: energy drawn since boot and not counted,
                          \* in units of half a milliwatt for a millisecond
    kvsFailed,            \* ghost: a Get or a Put has failed
    putFailed             \* ghost: a Put has failed in this boot and none
                          \* has succeeded since

app == <<step, uptime, boots>>
subscription == <<incoming, delegate, sHaveReported, sReported, dirty, told>>
integrator == <<sHaveLastSample, sLastActivePowerMw, sLastSampleMs, sCumulativeEnergyMwh>>
persistence == <<sLastPersistedEnergyMwh, sLastPersistMs, kvs>>
announcements == <<sLastReportMs, lastTold, maxTold>>
vars == <<app, fabrics, subscription, integrator, persistence, announcements,
          samples, residue, kvsFailed, putFailed>>

Zeros == [q \in Quantity |-> 0]
Larger(a, b) == IF a >= b THEN a ELSE b
Distance(a, b) == IF a > b THEN a - b ELSE b - a

\* Faulty variant: the times of the last report and Put outlive a reboot.
RamResetKeepsClock ==
    /\ uptime' = 0
    /\ incoming' = Zeros /\ delegate' = Zeros
    /\ sReported' = Zeros /\ sHaveReported' = FALSE /\ dirty' = {}
    /\ sHaveLastSample' = FALSE /\ sLastActivePowerMw' = 0 /\ sLastSampleMs' = 0
    /\ sCumulativeEnergyMwh' = 0 /\ sLastReportMs' = sLastReportMs
    /\ sLastPersistedEnergyMwh' = 0 /\ sLastPersistMs' = sLastPersistMs
    /\ samples' = 0 /\ residue' = 0 /\ putFailed' = FALSE

\* The values RAM has before PowerMeasurementInit().
RamReset ==
    /\ uptime' = 0
    /\ incoming' = Zeros /\ delegate' = Zeros
    /\ sReported' = Zeros /\ sHaveReported' = FALSE /\ dirty' = {}
    /\ sHaveLastSample' = FALSE /\ sLastActivePowerMw' = 0 /\ sLastSampleMs' = 0
    /\ sCumulativeEnergyMwh' = 0 /\ sLastReportMs' = 0
    /\ sLastPersistedEnergyMwh' = 0 /\ sLastPersistMs' = 0
    /\ samples' = 0 /\ residue' = 0 /\ putFailed' = FALSE

Init ==
    /\ step = "boot" /\ uptime = 0 /\ boots = 1 /\ fabrics = FALSE
    /\ incoming = Zeros /\ delegate = Zeros /\ sHaveReported = FALSE /\ sReported = Zeros
    /\ dirty = {} /\ told = Zeros
    /\ sHaveLastSample = FALSE /\ sLastActivePowerMw = 0 /\ sLastSampleMs = 0
    /\ sCumulativeEnergyMwh = 0 /\ sLastReportMs = 0
    /\ sLastPersistedEnergyMwh = 0 /\ sLastPersistMs = 0 /\ kvs = 0
    /\ lastTold = 0 /\ maxTold = 0 /\ samples = 0 /\ residue = 0
    /\ kvsFailed = FALSE /\ putFailed = FALSE

-----------------------------------------------------------------------------
\* LoadCumulativeEnergy(); a failed read leaves the total at zero.
LoadCumulativeEnergy ==
    \/ /\ sCumulativeEnergyMwh' = kvs
       /\ sLastPersistedEnergyMwh' = kvs
       /\ UNCHANGED kvsFailed
    \/ /\ KvsMayFail
       /\ sCumulativeEnergyMwh' = 0
       /\ sLastPersistedEnergyMwh' = 0
       /\ kvsFailed' = TRUE

\* Faulty variant: polling goes on after a failed PowerMeasurementInit().
PowerMeasurementInitUnchecked ==
    /\ step = "boot"
    /\ step' = "idle"
    /\ \/ LoadCumulativeEnergy
       \/ UNCHANGED <<sCumulativeEnergyMwh, sLastPersistedEnergyMwh, kvsFailed>>
    /\ UNCHANGED <<uptime, boots, fabrics, subscription, sHaveLastSample, sLastActivePowerMw,
                   sLastSampleMs, sLastPersistMs, kvs, announcements, samples, residue,
                   putFailed>>

\* PowerMeasurementInit(), the post-server-init hook.  When it fails, so do
\* StartServer() and AppTask::Init(), and no poll ever runs in that boot.
PowerMeasurementInit ==
    /\ step = "boot"
    /\ \/ step' = "idle" /\ LoadCumulativeEnergy
       \/ /\ step' = "halted"
          /\ UNCHANGED <<sCumulativeEnergyMwh, sLastPersistedEnergyMwh, kvsFailed>>
    /\ UNCHANGED <<uptime, boots, fabrics, subscription, sHaveLastSample, sLastActivePowerMw,
                   sLastSampleMs, sLastPersistMs, kvs, announcements, samples, residue,
                   putFailed>>

\* PowerMeasurementUpdate() is called with the next reading ...
PowerMeasurementUpdate ==
    /\ step = "idle"
    /\ \E gap \in Gap : uptime' = uptime + gap
    /\ uptime' <= MaxUptime
    /\ incoming' \in Reading
    /\ step' = "set"
    /\ UNCHANGED <<boots, fabrics, delegate, sHaveReported, sReported, dirty, told, integrator,
                   persistence, announcements, samples, residue, kvsFailed, putFailed>>

\* ... and has it written by the end of PlugPowerDelegate::Set().
Set ==
    /\ step = "set"
    /\ delegate' = incoming
    /\ step' = "report"
    /\ UNCHANGED <<uptime, boots, fabrics, incoming, sHaveReported, sReported, dirty, told,
                   integrator, persistence, announcements, samples, residue, kvsFailed,
                   putFailed>>

\* Faulty variant: only a rise counts as a move.
MovedUpwards == {q \in Quantity : delegate[q] - sReported[q] >= Deadband[q]}

\* The quantities whose reading has moved past their deadband.
Moved == {q \in Quantity : Distance(delegate[q], sReported[q]) >= Deadband[q]}

\* Then ReportIfMoved() of each quantity.
ReportIfMoved ==
    /\ step = "report"
    /\ LET marked == IF sHaveReported THEN Moved ELSE Quantity
       IN  /\ sReported' = [q \in Quantity |->
                               IF q \in marked THEN delegate[q] ELSE sReported[q]]
           /\ dirty' = dirty \cup marked
    /\ sHaveReported' = TRUE
    /\ step' = "energy"
    /\ UNCHANGED <<uptime, boots, fabrics, incoming, delegate, told, integrator, persistence,
                   announcements, samples, residue, kvsFailed, putFailed>>

\* Faulty variant: the sum of the two samples is not halved.
IntervalEnergyOfSum(elapsed) ==
    ((sLastActivePowerMw + delegate[Power]) * elapsed) \div MwMsPerMwh

\* The energy of one interval, as the code computes it ...
IntervalEnergy(elapsed) ==
    (((sLastActivePowerMw + delegate[Power]) \div 2) * elapsed) \div MwMsPerMwh

\* ... and twice the energy the trapezoid has, in milliwatt-milliseconds.
TwiceDrawn(elapsed) == (sLastActivePowerMw + delegate[Power]) * elapsed

\* Faulty variant: the threshold is honoured only after the maximum interval.
PersistDueLate(total) ==
    /\ total - sLastPersistedEnergyMwh >= PersistThreshold
    /\ uptime - sLastPersistMs >= PersistMaxInterval

\* When a total is due for a Put.
PersistDue(total) ==
    LET delta == total - sLastPersistedEnergyMwh
        since == uptime - sLastPersistMs
    IN  /\ delta > 0
        /\ \/ delta >= PersistThreshold /\ since >= PersistMinInterval
           \/ since >= PersistMaxInterval

\* Faulty variant: the interval restarts with every sample that is not due.
PersistRestartingInterval(total) ==
    \/ /\ ~PersistDue(total)
       /\ sLastPersistMs' = uptime
       /\ UNCHANGED <<sLastPersistedEnergyMwh, kvs, kvsFailed, putFailed>>
    \/ /\ PersistDue(total)
       /\ kvs' = total
       /\ sLastPersistedEnergyMwh' = total
       /\ sLastPersistMs' = uptime
       /\ putFailed' = FALSE
       /\ UNCHANGED kvsFailed

\* Faulty variant: the total is added to what is stored.
PersistAdding(total) ==
    \/ /\ ~PersistDue(total)
       /\ UNCHANGED <<persistence, kvsFailed, putFailed>>
    \/ /\ PersistDue(total)
       /\ kvs' = kvs + total
       /\ sLastPersistedEnergyMwh' = total
       /\ sLastPersistMs' = uptime
       /\ putFailed' = FALSE
       /\ UNCHANGED kvsFailed

\* Faulty variant: time and total are remembered before the Put is checked.
PersistUnchecked(total) ==
    \/ /\ ~PersistDue(total)
       /\ UNCHANGED <<persistence, kvsFailed, putFailed>>
    \/ /\ PersistDue(total)
       /\ sLastPersistedEnergyMwh' = total
       /\ sLastPersistMs' = uptime
       /\ \/ kvs' = total /\ putFailed' = FALSE /\ UNCHANGED kvsFailed
          \/ KvsMayFail /\ putFailed' = TRUE /\ kvsFailed' = TRUE /\ UNCHANGED kvs

\* PersistCumulativeEnergyIfDue(), on the total just computed.
PersistCumulativeEnergyIfDue(total) ==
    \/ /\ ~PersistDue(total)
       /\ UNCHANGED <<persistence, kvsFailed, putFailed>>
    \/ /\ PersistDue(total)
       /\ kvs' = total
       /\ sLastPersistedEnergyMwh' = total
       /\ sLastPersistMs' = uptime
       /\ putFailed' = FALSE
       /\ UNCHANGED kvsFailed
    \/ /\ PersistDue(total)
       /\ KvsMayFail
       /\ putFailed' = TRUE
       /\ kvsFailed' = TRUE
       /\ UNCHANGED persistence

\* Faulty variant: the total is announced as it was before the interval.
AnnounceStale(total) ==
    IF fabrics /\ uptime - sLastReportMs >= ReportInterval
    THEN /\ lastTold' = sCumulativeEnergyMwh
         /\ maxTold' = Larger(maxTold, sCumulativeEnergyMwh)
         /\ sLastReportMs' = uptime
    ELSE UNCHANGED announcements

\* The rate-limited NotifyCumulativeEnergyMeasured().
Announce(total) ==
    IF fabrics /\ uptime - sLastReportMs >= ReportInterval
    THEN /\ lastTold' = total
         /\ maxTold' = Larger(maxTold, total)
         /\ sLastReportMs' = uptime
    ELSE UNCHANGED announcements

\* Last: integrate, persist, announce, and remember the sample.
IntegrateEnergy ==
    /\ step = "energy"
    /\ IF sHaveLastSample
       THEN LET elapsed == uptime - sLastSampleMs
                total == sCumulativeEnergyMwh + IntervalEnergy(elapsed)
            IN  /\ sCumulativeEnergyMwh' = total
                /\ residue' = residue + TwiceDrawn(elapsed)
                                 - 2 * MwMsPerMwh * IntervalEnergy(elapsed)
                /\ samples' = samples + 1
                /\ PersistCumulativeEnergyIfDue(total)
                /\ Announce(total)
       ELSE UNCHANGED <<sCumulativeEnergyMwh, residue, samples, persistence, kvsFailed, putFailed,
                        announcements>>
    /\ sLastActivePowerMw' = delegate[Power]
    /\ sLastSampleMs' = uptime
    /\ sHaveLastSample' = TRUE
    /\ step' = "idle"
    /\ UNCHANGED <<uptime, boots, fabrics, subscription>>

-----------------------------------------------------------------------------
\* Faulty variant: the values are kept in a unit so small that they need the
\* upper word as well.
SeenOfLarge(old, new) ==
    LET half == Word \div 4
    IN  {half * (upper \div half) + (lower % half) : upper, lower \in {old, new}}

\* What a getter can return while Set() replaces one value by another: each
\* word of the int64_t is read and written on its own, in any order.
Seen(old, new) ==
    {Word * (upper \div Word) + (lower % Word) : upper, lower \in {old, new}}

\* The reporting engine, on the Matter thread, reads a dirty attribute and
\* sends it to the subscriber.
ReportAttribute ==
    /\ \E q \in dirty :
         /\ \E value \in Seen(delegate[q], IF step = "set" THEN incoming[q] ELSE delegate[q]) :
               told' = [told EXCEPT ![q] = value]
         /\ dirty' = dirty \ {q}
    /\ UNCHANGED <<app, fabrics, incoming, delegate, sHaveReported, sReported, integrator, persistence,
                   announcements, samples, residue, kvsFailed, putFailed>>

\* The plug is commissioned, or its last fabric is removed.
ChangeFabrics ==
    /\ step # "boot"
    /\ fabrics' = ~fabrics
    /\ UNCHANGED <<app, subscription, integrator, persistence, announcements, samples, residue,
                   kvsFailed, putFailed>>

\* The supply is cut and comes back: only the key-value store survives, and
\* what the subscriber remembers.
PowerCut ==
    /\ boots < MaxBoots
    /\ boots' = boots + 1
    /\ step' = "boot"
    /\ RamReset
    /\ UNCHANGED <<fabrics, told, kvs, lastTold, maxTold, kvsFailed>>

Next ==
    \/ PowerMeasurementInit \/ PowerMeasurementUpdate \/ Set \/ ReportIfMoved \/ IntegrateEnergy
    \/ ReportAttribute \/ ChangeFabrics \/ PowerCut

Spec == Init /\ [][Next]_vars

-----------------------------------------------------------------------------
(***************************************************************************)
(* Properties.                                                             *)
(***************************************************************************)

TypeOK ==
    /\ step \in {"boot", "idle", "set", "report", "energy", "halted"}
    /\ uptime \in 0..MaxUptime /\ boots \in Nat /\ fabrics \in BOOLEAN
    /\ incoming \in [Quantity -> Nat] /\ incoming[Power] \in 0..MaxPower
    /\ delegate \in [Quantity -> Nat] /\ delegate[Power] \in 0..MaxPower
    /\ sHaveReported \in BOOLEAN /\ sReported \in [Quantity -> Nat]
    /\ dirty \subseteq Quantity /\ told \in [Quantity -> Nat]
    /\ sHaveLastSample \in BOOLEAN
    /\ sLastActivePowerMw \in 0..MaxPower
    /\ sLastSampleMs \in 0..uptime
    /\ sCumulativeEnergyMwh \in Nat
    /\ sLastReportMs \in 0..uptime
    /\ sLastPersistedEnergyMwh \in Nat /\ sLastPersistMs \in 0..uptime /\ kvs \in Nat
    /\ lastTold \in Nat /\ maxTold \in Nat /\ samples \in Nat /\ residue \in Int
    /\ kvsFailed \in BOOLEAN /\ putFailed \in BOOLEAN

\* Once an update has marked what moved and the reporting engine has sent it,
\* the subscriber is less than two deadbands away from the reading.  Two, not
\* one: a report carries the reading of the moment it is sent, which may have
\* drifted from the one that was marked (power_measurement.cpp:264-273).
SubscriberNear ==
    sHaveReported /\ step \notin {"set", "report"} =>
        \A q \in Quantity \ dirty :
            Distance(told[q], delegate[q]) < 2 * Deadband[q]

\* No controller is told a value that was never measured, although a report
\* may read a value half written: readings fit in one word, so either half of
\* the other is zero (power_measurement.cpp:130-145).
Measured(q) == {0} \cup {r[q] : r \in Reading}
ToldMeasured == \A q \in Quantity : told[q] \in Measured(q)

\* The integrator never counts energy that was not drawn, and each interval
\* leaves out less than one milliwatt-hour and the half milliwatt of the mean
\* (power_measurement.cpp:374-380).
EnergyAccounted ==
    /\ residue >= 0
    /\ residue <= samples * (2 * (MwMsPerMwh - 1)) + uptime

\* Over all boots together the plug never counts, stores or announces more
\* than its rating draws in the time it has been powered: no interval is
\* counted twice, none spans a power cut, and a loaded total is the one that
\* was stored (power_measurement.cpp:195-233, 374-408).
EnergyPlausible ==
    \A e \in {sCumulativeEnergyMwh, kvs, maxTold} :
        MwMsPerMwh * e <= MaxPower * (MaxUptime * (boots - 1) + uptime)

\* What a power cut would lose of the counted energy is bounded by the larger
\* of the persist threshold and what the plug's rating draws in the minimum
\* interval, unless the store refused the last Put
\* (power_measurement.cpp:183-186, 209-233).
LossBound == Larger(MwMsPerMwh * PersistThreshold, MaxPower * PersistMinInterval)
LossBounded ==
    ~putFailed => MwMsPerMwh * (sCumulativeEnergyMwh - kvs) <= LossBound

\* A refused Put is owed until one succeeds: through all samples that follow it
\* stays due, so each of them tries again, however long the store refuses and
\* however little has been drawn since (power_measurement.cpp:224-233).
RefusedStaysDue == putFailed => PersistDue(sCumulativeEnergyMwh)

\* Over any number of power cuts, the stored total stays within that bound of
\* everything a controller has ever been told, while the store works.
ToldBounded == ~kvsFailed => MwMsPerMwh * (maxTold - kvs) <= LossBound

\* The stored total never shrinks while the store works: no boot integrates
\* without having loaded it, not even after PowerMeasurementInit() has failed
\* with the delegate in place (power_measurement.cpp:311-347).
StoreNeverShrinks == [][kvsFailed \/ kvs' >= kvs]_vars

\* All of it implements an energy counter with a durable copy: while there is
\* no poll the counter stands where the next boot will find it.
Counter == INSTANCE EnergyCounter WITH
    Rate <- MwMsPerMwh,
    Loss <- LossBound,
    MayForget <- KvsMayFail,
    total <- IF step \in {"boot", "halted"} THEN kvs ELSE sCumulativeEnergyMwh,
    durable <- kvs,
    told <- lastTold,
    refused <- putFailed

\* No step, in whatever order samples, refused Puts, failed Gets, announcements
\* and power cuts come, does more than that counter allows: what is announced
\* is the total of the moment, what is stored never another one, and counting
\* goes back only to what was stored (power_measurement.cpp:164-233, 374-408).
CounterImplemented == Counter!Spec

\* "an attribute the spec expects to be monotonic across the device's life"
\* (power_measurement.cpp:169-171): no announcement is below an earlier one.
EnergyMonotonic == lastTold = maxTold

\* "Accumulation above is unconditional so the running total stays correct"
\* (power_measurement.cpp:384-385): correct to its unit, one milliwatt-hour.
TotalCorrect == residue <= 2 * MwMsPerMwh + uptime
=============================================================================
