-------------------------------- MODULE Meter --------------------------------
(***************************************************************************)
(* The BL0937 driver (bl0937.cpp) and the timer that polls it              *)
(* (app_task.cpp).  Pulses arrive in interrupts; a periodic timer posts    *)
(* MeterPoll() to the app task, which runs it when it gets there, so polls *)
(* may be late, and late ones run back to back.                            *)
(*                                                                         *)
(* CF carries active power.  CF1 carries voltage or current, as the SEL    *)
(* pin says at the instant of the pulse; MeterPoll() attributes a count to *)
(* the level it believes SEL had.  Time advances in ticks; Period ticks    *)
(* are the second the counts are normalised to.                            *)
(***************************************************************************)
EXTENDS Naturals, Sequences

CONSTANTS
    Period,              \* kMeterPollIntervalMs, in ticks
    Backlog,             \* polls the task queue can hold
    MaxStall,            \* bound on the ticks between two polls
    CfPulses,            \* CF pulses a tick may bring
    VoltagePulses,       \* CF1 pulses a tick may bring while SEL is high
    CurrentPulses,       \* CF1 pulses a tick may bring while SEL is low
    UnitScale,           \* 1'000'000
    CountsPerWatt,       \* kMilliCountsPerSecPerWatt
    CountsPerVolt,       \* kMilliCountsPerSecPerVolt
    CountsPerAmp,        \* kMilliCountsPerSecPerAmp
    OverPowerThreshold,  \* CONFIG_APP_OVERPOWER_THRESHOLD_MW
    OverPowerSamples     \* CONFIG_APP_OVERPOWER_SAMPLES

ASSUME MeterAssumption ==
    /\ Period \in Nat \ {0} /\ Backlog \in Nat \ {0} /\ MaxStall \in Nat
    /\ CfPulses \subseteq Nat /\ VoltagePulses \subseteq Nat /\ CurrentPulses \subseteq Nat
    /\ UnitScale \in Nat \ {0} /\ CountsPerWatt \in Nat \ {0}
    /\ CountsPerVolt \in Nat \ {0} /\ CountsPerAmp \in Nat \ {0}
    /\ OverPowerThreshold \in Nat /\ OverPowerSamples \in Nat \ {0}

kFilterDepth == 3

VARIABLES
    phase,              \* ticks since the timer last expired
    posted,             \* MeterPoll() calls waiting in the task queue
    ready,              \* MeterInit() found its GPIOs and installed the interrupts
    sel,                \* level of the SEL pin: TRUE selects voltage
    relayOn,            \* RelayIsOn()
    sCfPulses,
    sCf1Pulses,
    cf1Levels,          \* ghost: SEL levels the pulses of sCf1Pulses arrived under
    pc,                 \* where the app task is in MeterPoll()
    polled,             \* sLastPollMs is not 0
    age,                \* ticks since sLastPollMs, or since boot before that
    windowMs,           \* locals of MeterPoll(), dead between polls ...
    cfTaken,
    cf1Taken,           \* ... [count, from], with the ghost levels
    sSelIsVoltage,
    sCfFilter,
    sCf1Filter,
    sLastActivePowerMw,
    sLastRmsVoltageMv,
    sLastRmsCurrentMa,
    sOverPowerSamples,
    streak,             \* ghost: ticks since the first sample of the present run
                        \* of samples above the threshold began
    late                \* ghost: a poll was posted before the previous one ended

LongEnough == (OverPowerSamples - 1) * Period + 1  \* bound on streak

environment == <<phase, posted, late>>
counters == <<sCfPulses, sCf1Pulses, cf1Levels>>
clock == <<polled, age>>
locals == <<windowMs, cfTaken, cf1Taken>>
readings == <<sLastActivePowerMw, sLastRmsVoltageMv, sLastRmsCurrentMa>>
filters == <<sSelIsVoltage, sCfFilter, sCf1Filter>>
protection == <<sOverPowerSamples, streak>>
vars == <<environment, ready, sel, relayOn, counters, pc, clock, locals, filters, readings,
          protection>>

Least(a, b) == IF a <= b THEN a ELSE b
Greatest(a, b) == IF a >= b THEN a ELSE b

NoPulses == [count |-> 0, from |-> {}]

-----------------------------------------------------------------------------
(***************************************************************************)
(* Conversions and the median.                                             *)
(***************************************************************************)

CountsPerSec(pulses, window) == (pulses * Period) \div window
ActivePower(counts) == (counts * UnitScale) \div CountsPerWatt
RmsVoltage(counts) == (counts * UnitScale) \div CountsPerVolt
RmsCurrent(counts) == (counts * UnitScale) \div CountsPerAmp

\* The sorting network of MedianFilter: order (a, b), then (b, c), then (a, b).
Median(a, b, c) ==
    LET lo == Least(a, b)
        mid == Least(Greatest(a, b), c)
    IN  Greatest(lo, mid)

\* Push(): the window with the new sample, and whether that completes it.
Pushed(filter, sample) == Append(filter, sample)
CompletesLate(filter) == Len(filter) >= kFilterDepth  \* faulty variant of Completes
Completes(filter) == Len(filter) + 1 >= kFilterDepth
AfterPushSliding(filter, sample) ==                \* faulty variant of AfterPush
    IF Completes(filter) THEN Tail(Pushed(filter, sample)) ELSE Pushed(filter, sample)
AfterPush(filter, sample) == IF Completes(filter) THEN <<>> ELSE Pushed(filter, sample)

Init ==
    /\ phase = 0 /\ posted = 0 /\ late = FALSE
    /\ ready = FALSE /\ sel = FALSE /\ relayOn \in BOOLEAN
    /\ sCfPulses = 0 /\ sCf1Pulses = 0 /\ cf1Levels = {}
    /\ pc = "init" /\ polled = FALSE /\ age = 0
    /\ windowMs = 0 /\ cfTaken = 0 /\ cf1Taken = NoPulses
    /\ sSelIsVoltage = TRUE /\ sCfFilter = <<>> /\ sCf1Filter = <<>>
    /\ sLastActivePowerMw = 0 /\ sLastRmsVoltageMv = 0 /\ sLastRmsCurrentMa = 0
    /\ sOverPowerSamples = 0 /\ streak = 0

-----------------------------------------------------------------------------
(***************************************************************************)
(* Time, pulses and the relay.                                             *)
(***************************************************************************)

\* MeterPollTimerCallback(); PostTask() drops a poll that does not fit.
TimerExpires ==
    IF phase + 1 = Period
    THEN /\ phase' = 0
         /\ posted' = Least(posted + 1, Backlog)
         /\ late' = (late \/ posted > 0 \/ pc # "idle")
    ELSE phase' = phase + 1 /\ UNCHANGED <<posted, late>>

\* CfIsr() and Cf1Isr(), as often as pulses arrive within a tick.  An open
\* relay draws nothing; the voltage is there all the same.
PulsesArrive ==
    IF ~ready THEN UNCHANGED counters
    ELSE \E cf \in IF relayOn THEN CfPulses ELSE {0},
            cf1 \in IF sel THEN VoltagePulses
                    ELSE IF relayOn THEN CurrentPulses ELSE {0} :
           /\ sCfPulses' = sCfPulses + cf
           /\ sCf1Pulses' = sCf1Pulses + cf1
           /\ cf1Levels' = IF cf1 > 0 THEN cf1Levels \cup {sel} ELSE cf1Levels

Tick ==
    /\ pc # "init"
    /\ age < MaxStall
    /\ age' = age + 1
    /\ TimerExpires
    /\ PulsesArrive
    /\ streak' = IF sOverPowerSamples > 0 THEN Least(streak + 1, LongEnough) ELSE 0
    /\ UNCHANGED <<polled, ready, sel, relayOn, pc, locals, filters, readings,
                   sOverPowerSamples>>

\* A button press or a command switches the load.
SwitchLoad ==
    /\ relayOn' = ~relayOn
    /\ UNCHANGED <<environment, ready, sel, counters, pc, clock, locals, filters, readings,
                   protection>>

-----------------------------------------------------------------------------
(***************************************************************************)
(* The app task.                                                           *)
(***************************************************************************)

\* MeterInit() returns early when a port is not ready; the timer starts anyway.
MeterInit ==
    /\ pc = "init"
    /\ pc' = "idle"
    /\ \/ ready' = TRUE /\ sel' = TRUE
       \/ UNCHANGED <<ready, sel>>
    /\ UNCHANGED <<environment, relayOn, counters, clock, locals, filters, readings, protection>>

\* Faulty variant of PollStart: sLastPollMs is never written.
PollStartWithoutClock ==
    /\ pc = "idle" /\ posted > 0
    /\ posted' = posted - 1
    /\ windowMs' = IF polled THEN age ELSE 0
    /\ age' = 0
    /\ pc' = "take"
    /\ UNCHANGED <<phase, late, polled, ready, sel, relayOn, counters, cfTaken, cf1Taken, filters,
                   readings, protection>>

\* MeterPoll(): the window since the previous call ...
PollStart ==
    /\ pc = "idle" /\ posted > 0
    /\ posted' = posted - 1
    /\ windowMs' = IF polled THEN age ELSE 0
    /\ polled' = TRUE /\ age' = 0
    /\ pc' = "take"
    /\ UNCHANGED <<phase, late, ready, sel, relayOn, counters, cfTaken, cf1Taken, filters,
                   readings, protection>>

\* Faulty variant of TakePulses: without a window it returns before the swap.
TakePulsesKeepingCounts ==
    /\ pc = "take"
    /\ \/ windowMs = 0 /\ pc' = "idle" /\ UNCHANGED <<counters, locals>>
       \/ /\ windowMs > 0 /\ pc' = "process"
          /\ sCfPulses' = 0 /\ sCf1Pulses' = 0 /\ cf1Levels' = {}
          /\ cfTaken' = sCfPulses
          /\ cf1Taken' = [count |-> sCf1Pulses, from |-> cf1Levels]
          /\ UNCHANGED windowMs
    /\ UNCHANGED <<environment, ready, sel, relayOn, clock, filters, readings, protection>>

\* ... TakePulses() of either counter, whose counts are discarded when there
\* is no window to divide them by.  The channels never meet, so taking both in
\* one step loses nothing ...
TakePulses ==
    /\ pc = "take"
    /\ sCfPulses' = 0 /\ sCf1Pulses' = 0 /\ cf1Levels' = {}
    /\ \/ windowMs = 0 /\ pc' = "idle" /\ UNCHANGED locals
       \/ /\ windowMs > 0 /\ pc' = "process"
          /\ cfTaken' = sCfPulses
          /\ cf1Taken' = [count |-> sCf1Pulses, from |-> cf1Levels]
          /\ UNCHANGED windowMs
    /\ UNCHANGED <<environment, ready, sel, relayOn, clock, filters, readings, protection>>

\* OverloadSpan is how long the present run of samples above the threshold
\* has lasted, counted from the start of its first window.
OverloadSpan ==
    IF sOverPowerSamples = 0 THEN Least(windowMs + age, LongEnough) ELSE streak

\* Faulty variant of CheckOverPower: a low sample does not end the run.
CheckOverPowerWithoutReset(power) ==
    \/ /\ power <= OverPowerThreshold
       /\ streak' = 0
       /\ UNCHANGED <<relayOn, sOverPowerSamples>>
    \/ /\ power > OverPowerThreshold
       /\ sOverPowerSamples + 1 < OverPowerSamples
       /\ sOverPowerSamples' = sOverPowerSamples + 1
       /\ streak' = OverloadSpan
       /\ UNCHANGED relayOn
    \/ /\ power > OverPowerThreshold
       /\ sOverPowerSamples + 1 >= OverPowerSamples
       /\ sOverPowerSamples' = 0 /\ streak' = 0
       /\ relayOn' = FALSE

\* CheckOverPower(), on the raw sample.
CheckOverPower(power) ==
    \/ /\ power <= OverPowerThreshold
       /\ sOverPowerSamples' = 0 /\ streak' = 0
       /\ UNCHANGED relayOn
    \/ /\ power > OverPowerThreshold
       /\ sOverPowerSamples + 1 < OverPowerSamples
       /\ sOverPowerSamples' = sOverPowerSamples + 1
       /\ streak' = OverloadSpan
       /\ UNCHANGED relayOn
    \/ /\ power > OverPowerThreshold
       /\ sOverPowerSamples + 1 >= OverPowerSamples
       /\ sOverPowerSamples' = 0 /\ streak' = 0
       /\ relayOn' = FALSE

FilterCf(counts) ==
    /\ sCfFilter' = AfterPush(sCfFilter, counts)
    /\ sLastActivePowerMw' =
         IF Completes(sCfFilter)
         THEN ActivePower(Median(sCfFilter[1], sCfFilter[2], counts))
         ELSE sLastActivePowerMw

\* Faulty variant of FilterCf1: the selection flips before the median is attributed.
FilterCf1FlipsFirst(sample) ==
    /\ sCf1Filter' = AfterPush(sCf1Filter, sample)
    /\ IF Completes(sCf1Filter)
       THEN LET m == Median(sCf1Filter[1].count, sCf1Filter[2].count, sample.count)
            IN  /\ sSelIsVoltage' = ~sSelIsVoltage
                /\ sel' = IF ready THEN ~sSelIsVoltage ELSE sel
                /\ IF sSelIsVoltage'
                   THEN sLastRmsVoltageMv' = RmsVoltage(m) /\ UNCHANGED sLastRmsCurrentMa
                   ELSE sLastRmsCurrentMa' = RmsCurrent(m) /\ UNCHANGED sLastRmsVoltageMv
       ELSE UNCHANGED <<sLastRmsVoltageMv, sLastRmsCurrentMa, sSelIsVoltage, sel>>

\* The CF1 median goes to the quantity sSelIsVoltage names; then SEL flips.
FilterCf1(sample) ==
    /\ sCf1Filter' = AfterPush(sCf1Filter, sample)
    /\ IF Completes(sCf1Filter)
       THEN LET m == Median(sCf1Filter[1].count, sCf1Filter[2].count, sample.count)
            IN  /\ IF sSelIsVoltage
                   THEN sLastRmsVoltageMv' = RmsVoltage(m) /\ UNCHANGED sLastRmsCurrentMa
                   ELSE sLastRmsCurrentMa' = RmsCurrent(m) /\ UNCHANGED sLastRmsVoltageMv
                /\ sSelIsVoltage' = ~sSelIsVoltage
                /\ sel' = IF ready THEN ~sSelIsVoltage ELSE sel
       ELSE UNCHANGED <<sLastRmsVoltageMv, sLastRmsCurrentMa, sSelIsVoltage, sel>>

\* ... and the rest of MeterPoll().
Process ==
    /\ pc = "process"
    /\ LET cf == CountsPerSec(cfTaken, windowMs)
           cf1 == [count |-> CountsPerSec(cf1Taken.count, windowMs), from |-> cf1Taken.from]
       IN  CheckOverPower(ActivePower(cf)) /\ FilterCf(cf) /\ FilterCf1(cf1)
    /\ pc' = "idle"
    /\ windowMs' = 0 /\ cfTaken' = 0 /\ cf1Taken' = NoPulses
    /\ UNCHANGED <<environment, ready, counters, clock>>

Poll == PollStart \/ TakePulses \/ Process
Next == Tick \/ SwitchLoad \/ MeterInit \/ Poll

\* Time passes, and the app task gets to the polls it is given.
Fairness == WF_vars(Tick) /\ WF_vars(MeterInit) /\ WF_vars(Poll)
Spec == Init /\ [][Next]_vars
FairSpec == Spec /\ Fairness

-----------------------------------------------------------------------------
(***************************************************************************)
(* Properties.                                                             *)
(***************************************************************************)

Sample == [count : Nat, from : SUBSET BOOLEAN]
TypeOK ==
    /\ phase \in 0..(Period - 1) /\ posted \in 0..Backlog /\ late \in BOOLEAN
    /\ ready \in BOOLEAN /\ sel \in BOOLEAN /\ relayOn \in BOOLEAN
    /\ sCfPulses \in Nat /\ sCf1Pulses \in Nat /\ cf1Levels \in SUBSET BOOLEAN
    /\ pc \in {"init", "idle", "take", "process"}
    /\ polled \in BOOLEAN /\ age \in 0..MaxStall
    /\ windowMs \in 0..MaxStall /\ (pc = "process" => windowMs # 0)
    /\ cfTaken \in Nat /\ cf1Taken \in Sample
    /\ sSelIsVoltage \in BOOLEAN
    /\ sCfFilter \in Seq(Nat) /\ Len(sCfFilter) < kFilterDepth
    /\ sCf1Filter \in Seq(Sample) /\ Len(sCf1Filter) < kFilterDepth
    /\ sLastActivePowerMw \in Nat /\ sLastRmsVoltageMv \in Nat /\ sLastRmsCurrentMa \in Nat
    /\ sOverPowerSamples \in 0..(OverPowerSamples - 1)
    /\ streak \in 0..LongEnough

\* Whatever the delays, and with pulses arriving in the middle of a poll, only
\* the first sample of a CF1 window can hold pulses of the other quantity: the
\* others were counted under the SEL level the window is attributed to
\* (bl0937.cpp:71-76, 263-275).
CleanSamples ==
    ready => \A i \in 2..Len(sCf1Filter) : sCf1Filter[i].from \subseteq {sSelIsVoltage}

\* So a published voltage or current lies between two samples of that quantity
\* alone: the median drops whatever the straddling sample did.
SecondSample == sCf1Filter[2]
ThirdSample == [count |-> CountsPerSec(cf1Taken.count, windowMs), from |-> cf1Taken.from]
WindowCompletes == pc = "process" /\ pc' = "idle" /\ Len(sCf1Filter) = 2
LowCount == Least(SecondSample.count, ThirdSample.count)
HighCount == Greatest(SecondSample.count, ThirdSample.count)

ReadingClean ==
    [][ready /\ WindowCompletes =>
         /\ SecondSample.from \cup ThirdSample.from \subseteq {sSelIsVoltage}
         /\ IF sSelIsVoltage
            THEN sLastRmsVoltageMv' \in RmsVoltage(LowCount)..RmsVoltage(HighCount)
            ELSE sLastRmsCurrentMa' \in RmsCurrent(LowCount)..RmsCurrent(HighCount)
      ]_vars

\* A sample shows no more than the load drew at its peak: no pulse is counted
\* twice or outlives a window that is discarded, however late polls are.
\* Pulses that come while the poll is held up after it has read the clock
\* (age), and only those, are added to a window that does not include them
\* (bl0937.cpp:181-197, 235-253).
SampleHonest ==
    pc = "process" =>
        \E peak \in CfPulses \cup {0} :
            ActivePower(CountsPerSec(cfTaken, windowMs)) <=
                ActivePower(CountsPerSec(peak * (windowMs + age), windowMs))

Trips == pc = "process" /\ pc' = "idle" /\ relayOn /\ ~relayOn'
Sustained == OverloadSpan > (OverPowerSamples - 1) * Period

\* If the app task has served every poll before the next was due, a trip means
\* samples above the threshold covering more than OverPowerSamples - 1 periods
\* (bl0937.cpp:127-129, 142-168).
TripSustainedOnTime == [][Trips /\ ~late => Sustained]_vars


\* Voltage and current take turns for ever (bl0937.cpp:79-82): neither late
\* nor discarded polls can leave the SEL pin on one of them.
BothRefresh == (ready /\ sel ~> ~sel) /\ (ready /\ ~sel ~> sel)
=============================================================================
