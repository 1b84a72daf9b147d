----------------------------- MODULE MeterProofs -----------------------------
(***************************************************************************)
(* Theorems about Meter, for every timing of the polls, every pulse rate   *)
(* and every calibration.                                                  *)
(***************************************************************************)
EXTENDS Meter, SequenceTheorems, TLAPS

\* SEL has the level sSelIsVoltage names, and once a CF1 window has its first
\* sample every pulse counted or taken since arrived under that level.
LevelInv ==
    ready =>
        /\ sel = sSelIsVoltage
        /\ Len(sCf1Filter) >= 1 \/ pc = "process" => cf1Levels \subseteq {sSelIsVoltage}
        /\ Len(sCf1Filter) >= 1 /\ pc = "process" => cf1Taken.from \subseteq {sSelIsVoltage}
        /\ \A i \in 2..Len(sCf1Filter) : sCf1Filter[i].from \subseteq {sSelIsVoltage}

InitInv ==
    /\ pc = "init" => ~ready /\ sSelIsVoltage /\ Len(sCf1Filter) = 0 /\ cf1Levels = {}
    /\ ready => pc # "init"

Inv == TypeOK /\ InitInv /\ LevelInv

-----------------------------------------------------------------------------
(***************************************************************************)
(* Conversions and the median.                                             *)
(***************************************************************************)

LEMMA DivNat ==
    ASSUME NEW a \in Nat, NEW k \in Nat \ {0}
    PROVE  a \div k \in Nat
OBVIOUS

LEMMA DivMonotone ==
    ASSUME NEW a \in Nat, NEW b \in Nat, NEW k \in Nat \ {0}, a <= b
    PROVE  a \div k <= b \div k
OBVIOUS

LEMMA TimesMonotone ==
    ASSUME NEW a \in Nat, NEW b \in Nat, NEW c \in Nat, a <= b
    PROVE  a * c <= b * c /\ a * c \in Nat /\ b * c \in Nat
OBVIOUS

LEMMA CountsNat ==
    ASSUME NEW pulses \in Nat, NEW window \in Nat \ {0}
    PROVE  CountsPerSec(pulses, window) \in Nat
BY MeterAssumption, TimesMonotone, DivNat DEF CountsPerSec

LEMMA ReadingNat ==
    ASSUME NEW counts \in Nat
    PROVE  /\ ActivePower(counts) \in Nat
           /\ RmsVoltage(counts) \in Nat
           /\ RmsCurrent(counts) \in Nat
BY MeterAssumption, TimesMonotone, DivNat DEF ActivePower, RmsVoltage, RmsCurrent

LEMMA ReadingMonotone ==
    ASSUME NEW a \in Nat, NEW b \in Nat, a <= b
    PROVE  RmsVoltage(a) <= RmsVoltage(b) /\ RmsCurrent(a) <= RmsCurrent(b)
BY MeterAssumption, TimesMonotone, DivMonotone DEF RmsVoltage, RmsCurrent

\* The median of three lies between any two of them.
LEMMA MedianBetween ==
    ASSUME NEW a \in Nat, NEW b \in Nat, NEW c \in Nat
    PROVE  /\ Median(a, b, c) \in Nat
           /\ Least(b, c) \in Nat /\ Greatest(b, c) \in Nat
           /\ Least(b, c) <= Median(a, b, c)
           /\ Median(a, b, c) <= Greatest(b, c)
BY DEF Median, Least, Greatest

\* The sorting network returns the median: one of the three, with at least two
\* of them on either side or level with it.
LEMMA MedianOfThree ==
    ASSUME NEW a \in Nat, NEW b \in Nat, NEW c \in Nat
    PROVE  LET m == Median(a, b, c)
           IN  /\ m \in {a, b, c}
               /\ (a <= m /\ b <= m) \/ (a <= m /\ c <= m) \/ (b <= m /\ c <= m)
               /\ (a >= m /\ b >= m) \/ (a >= m /\ c >= m) \/ (b >= m /\ c >= m)
BY DEF Median, Least, Greatest

LEMMA AlmostFull ==
    ASSUME NEW n \in Nat, n < kFilterDepth, n + 1 >= kFilterDepth
    PROVE  n = 2
BY DEF kFilterDepth

\* A window that is not complete holds what was pushed; a complete one starts over.
LEMMA PushType ==
    ASSUME NEW S, NEW filter \in Seq(S), NEW sample \in S, Len(filter) < kFilterDepth
    PROVE  /\ AfterPush(filter, sample) \in Seq(S)
           /\ Len(AfterPush(filter, sample)) < kFilterDepth
           /\ Completes(filter) => Len(filter) = 2 /\ AfterPush(filter, sample) = <<>>
           /\ ~Completes(filter) =>
                 /\ AfterPush(filter, sample) = Append(filter, sample)
                 /\ Len(AfterPush(filter, sample)) = Len(filter) + 1
<1>1. Append(filter, sample) \in Seq(S) /\ Len(Append(filter, sample)) = Len(filter) + 1
    OBVIOUS
<1>2. Len(filter) \in Nat
    OBVIOUS
<1>3. <<>> \in Seq(S) /\ Len(<<>>) = 0
    OBVIOUS
<1>4. CASE Completes(filter)
    <2>1. Len(filter) = 2
        BY <1>2, <1>4, AlmostFull DEF Completes
    <2>2. AfterPush(filter, sample) = <<>>
        BY <1>4 DEF AfterPush
    <2>3. Len(<<>>) < kFilterDepth
        BY <1>3 DEF kFilterDepth
    <2> QED
        BY <1>3, <1>4, <2>1, <2>2, <2>3
<1>5. CASE ~Completes(filter)
    <2>1. Len(filter) + 1 < kFilterDepth
        BY <1>2, <1>5 DEF Completes, kFilterDepth
    <2>2. AfterPush(filter, sample) = Append(filter, sample)
        BY <1>5 DEF AfterPush, Pushed
    <2> QED
        BY <1>1, <1>5, <2>1, <2>2
<1> QED
    BY <1>4, <1>5

LEMMA TwoElements ==
    ASSUME NEW S, NEW q \in Seq(S), Len(q) = 2
    PROVE  q[1] \in S /\ q[2] \in S
BY ElementOfSeq

\* What a poll took is a count over a window that is not empty.
LEMMA TakenType ==
    ASSUME TypeOK, pc = "process"
    PROVE  /\ CountsPerSec(cfTaken, windowMs) \in Nat
           /\ CountsPerSec(cf1Taken.count, windowMs) \in Nat
           /\ [count |-> CountsPerSec(cf1Taken.count, windowMs),
               from |-> cf1Taken.from] \in Sample
<1>1. windowMs \in Nat \ {0} /\ cfTaken \in Nat
    BY MeterAssumption DEF TypeOK
<1>2. cf1Taken.count \in Nat /\ cf1Taken.from \in SUBSET BOOLEAN
    BY DEF TypeOK, Sample
<1>3. CountsPerSec(cfTaken, windowMs) \in Nat /\ CountsPerSec(cf1Taken.count, windowMs) \in Nat
    BY <1>1, <1>2, CountsNat
<1> QED
    BY <1>2, <1>3 DEF Sample

-----------------------------------------------------------------------------
(***************************************************************************)
(* Types.                                                                  *)
(***************************************************************************)

LEMMA TypeStep == ASSUME TypeOK, [Next]_vars PROVE TypeOK'
<1> USE MeterAssumption
<1>1. CASE Tick
    <2>1. /\ phase' \in 0..(Period - 1) /\ posted' \in 0..Backlog /\ late' \in BOOLEAN
        <3>1. CASE phase + 1 = Period
            BY <1>1, <3>1 DEF Tick, TimerExpires, TypeOK, Least
        <3>2. CASE phase + 1 # Period
            BY <1>1, <3>2 DEF Tick, TimerExpires, TypeOK
        <3> QED
            BY <3>1, <3>2
    <2>2. /\ sCfPulses' \in Nat /\ sCf1Pulses' \in Nat /\ cf1Levels' \in SUBSET BOOLEAN
        BY <1>1 DEF Tick, PulsesArrive, counters, TypeOK
    <2>3. streak' \in 0..LongEnough /\ age' \in 0..MaxStall
        BY <1>1 DEF Tick, TypeOK, Least, LongEnough
    <2> QED
        BY <1>1, <2>1, <2>2, <2>3 DEF Tick, TypeOK, locals, filters, readings
<1>2. CASE SwitchLoad
    BY <1>2 DEF SwitchLoad, TypeOK, environment, counters, clock, locals, filters, readings,
                protection
<1>3. CASE MeterInit
    BY <1>3 DEF MeterInit, TypeOK, environment, counters, clock, locals, filters, readings,
                protection
<1>4. CASE PollStart
    BY <1>4 DEF PollStart, TypeOK, counters, filters, readings, protection
<1>5. CASE TakePulses
    BY <1>5 DEF TakePulses, TypeOK, environment, locals, clock, filters, readings, protection,
                Sample
<1>6. CASE Process
    <2> DEFINE cf == CountsPerSec(cfTaken, windowMs)
               cf1 == [count |-> CountsPerSec(cf1Taken.count, windowMs), from |-> cf1Taken.from]
    <2>1. cf \in Nat /\ cf1 \in Sample
        BY <1>6, TakenType DEF Process
    <2>2. CheckOverPower(ActivePower(cf)) /\ FilterCf(cf) /\ FilterCf1(cf1)
        BY <1>6 DEF Process
    <2> HIDE DEF cf, cf1
    <2>3. relayOn' \in BOOLEAN
        BY <2>2, Zenon DEF CheckOverPower, TypeOK
    <2>4. sOverPowerSamples' \in 0..(OverPowerSamples - 1) /\ streak' \in 0..LongEnough
        BY <2>2 DEF CheckOverPower, OverloadSpan, TypeOK, Least, LongEnough
    <2>5. sCfFilter' \in Seq(Nat) /\ Len(sCfFilter') < kFilterDepth
        BY <2>1, <2>2, PushType DEF FilterCf, TypeOK
    <2>6. sCf1Filter' \in Seq(Sample) /\ Len(sCf1Filter') < kFilterDepth
        BY <2>1, <2>2, PushType DEF FilterCf1, TypeOK
    <2>7. sLastActivePowerMw' \in Nat
        <3>1. CASE Completes(sCfFilter)
            <4>1. sCfFilter[1] \in Nat /\ sCfFilter[2] \in Nat
                BY <3>1 DEF TypeOK, Completes, kFilterDepth
            <4> QED
                BY <2>1, <2>2, <3>1, <4>1, MedianBetween, ReadingNat DEF FilterCf
        <3> QED
            BY <2>2, <3>1 DEF FilterCf, TypeOK
    <2>8. sLastRmsVoltageMv' \in Nat /\ sLastRmsCurrentMa' \in Nat
        <3>1. CASE Completes(sCf1Filter)
            <4>1. sCf1Filter[1].count \in Nat /\ sCf1Filter[2].count \in Nat /\ cf1.count \in Nat
                <5>1. sCf1Filter \in Seq(Sample) /\ Len(sCf1Filter) = 2
                    BY <2>1, <3>1, PushType DEF TypeOK
                <5>2. sCf1Filter[1] \in Sample /\ sCf1Filter[2] \in Sample
                    BY <5>1, TwoElements
                <5> QED
                    BY <2>1, <5>2 DEF Sample
            <4> QED
                BY <2>2, <3>1, <4>1, MedianBetween, ReadingNat DEF FilterCf1, TypeOK
        <3> QED
            BY <2>2, <3>1 DEF FilterCf1, TypeOK
    <2>9. sSelIsVoltage' \in BOOLEAN /\ sel' \in BOOLEAN
        BY <2>2, Zenon DEF FilterCf1, TypeOK
    <2> QED
        BY <1>6, <2>3, <2>4, <2>5, <2>6, <2>7, <2>8, <2>9
        DEF Process, TypeOK, environment, counters, clock, Sample, NoPulses
<1>7. CASE UNCHANGED vars
    BY <1>7 DEF TypeOK, vars, environment, counters, clock, locals, filters, readings, protection
<1> QED
    BY <1>1, <1>2, <1>3, <1>4, <1>5, <1>6, <1>7 DEF Next, Poll

-----------------------------------------------------------------------------
(***************************************************************************)
(* Which level the pulses came from.                                       *)
(***************************************************************************)

LEMMA InitStep == ASSUME TypeOK, InitInv, [Next]_vars PROVE InitInv'
BY SMTT(30)
   DEF InitInv, TypeOK, Next, Poll, Tick, SwitchLoad, MeterInit, PollStart, TakePulses, Process,
       PulsesArrive, environment, counters, clock, locals, filters, readings, protection, vars

LEMMA LevelStep == ASSUME Inv, [Next]_vars PROVE LevelInv'
<1>1. CASE Tick
    <2>1. ready =>
            /\ UNCHANGED <<sel, sSelIsVoltage, sCf1Filter, pc, cf1Taken>>
            /\ cf1Levels' \subseteq cf1Levels \cup {sSelIsVoltage}
        BY <1>1 DEF Tick, PulsesArrive, Inv, LevelInv, locals, filters
    <2> QED
        BY <1>1, <2>1 DEF Tick, Inv, LevelInv
<1>2. CASE SwitchLoad
    BY <1>2 DEF SwitchLoad, Inv, LevelInv, counters, locals, filters
<1>3. CASE MeterInit
    <2>1. /\ Len(sCf1Filter) = 0 /\ sSelIsVoltage = TRUE /\ cf1Levels = {}
          /\ pc' = "idle" /\ (ready' => sel' = TRUE)
          /\ UNCHANGED <<sCf1Filter, sSelIsVoltage, cf1Levels>>
        BY <1>3 DEF MeterInit, Inv, InitInv, TypeOK, counters, filters
    <2>2. Len(sCf1Filter') = 0 /\ sSelIsVoltage' = TRUE /\ cf1Levels' = {} /\ pc' # "process"
        BY <2>1
    <2>3. ~(Len(sCf1Filter') >= 1) /\ 2..Len(sCf1Filter') = {}
        BY <2>2
    <2> QED
        BY <2>1, <2>2, <2>3, Zenon DEF LevelInv
<1>4. CASE PollStart
    BY <1>4 DEF PollStart, Inv, LevelInv, counters, filters
<1>5. CASE TakePulses
    BY <1>5 DEF TakePulses, Inv, LevelInv, locals, filters, TypeOK
<1>6. CASE Process
    <2> DEFINE cf1 == [count |-> CountsPerSec(cf1Taken.count, windowMs), from |-> cf1Taken.from]
    <2>1. cf1 \in Sample
        BY <1>6, TakenType DEF Process, Inv
    <2>2. FilterCf1(cf1) /\ UNCHANGED <<ready, cf1Levels>> /\ pc = "process" /\ pc' = "idle"
        BY <1>6 DEF Process, counters
    <2>3. sCf1Filter \in Seq(Sample) /\ Len(sCf1Filter) < kFilterDepth
        BY DEF Inv, TypeOK
    <2>4. cf1.from = cf1Taken.from
        OBVIOUS
    <2> HIDE DEF cf1
    <2>5. CASE Completes(sCf1Filter)
        <3>1. sCf1Filter' = <<>>
            BY <2>1, <2>2, <2>3, <2>5, PushType DEF FilterCf1
        <3>2. ready' => sel' = sSelIsVoltage'
            BY <2>2, <2>5 DEF FilterCf1
        <3> QED
            BY <2>2, <3>1, <3>2 DEF LevelInv
    <2>6. CASE ~Completes(sCf1Filter)
        <3>1. sCf1Filter' = Append(sCf1Filter, cf1)
            BY <2>1, <2>2, <2>3, <2>6, PushType DEF FilterCf1
        <3>2. UNCHANGED <<sel, sSelIsVoltage>>
            BY <2>2, <2>6 DEF FilterCf1
        <3> QED
            BY <2>1, <2>2, <2>3, <2>4, <3>1, <3>2 DEF Inv, LevelInv
    <2> QED
        BY <2>5, <2>6
<1>7. CASE UNCHANGED vars
    BY <1>7 DEF Inv, LevelInv, vars, counters, locals, filters
<1> QED
    BY <1>1, <1>2, <1>3, <1>4, <1>5, <1>6, <1>7 DEF Next, Poll

\* Every reachable state satisfies the inductive invariant.
THEOREM Invariance == Spec => []Inv
<1>1. Init => Inv
    <2> SUFFICES ASSUME Init PROVE Inv
        OBVIOUS
    <2>1. NoPulses \in Sample /\ <<>> \in Seq(Nat) /\ <<>> \in Seq(Sample) /\ Len(<<>>) = 0
        BY DEF NoPulses, Sample
    <2>2. 0 \in 0..(Period - 1) /\ 0 \in 0..Backlog /\ 0 \in 0..MaxStall
          /\ 0 \in 0..(OverPowerSamples - 1) /\ 0 \in 0..LongEnough
        BY MeterAssumption DEF LongEnough
    <2>3. TypeOK
        <3>1. relayOn \in BOOLEAN /\ late \in BOOLEAN /\ ready \in BOOLEAN /\ sel \in BOOLEAN
              /\ polled \in BOOLEAN /\ sSelIsVoltage \in BOOLEAN
            BY Zenon DEF Init
        <3>2. sCfFilter = <<>> /\ sCf1Filter = <<>> /\ 0 < kFilterDepth
            BY DEF Init, kFilterDepth
        <3>3. /\ sCfFilter \in Seq(Nat) /\ Len(sCfFilter) < kFilterDepth
              /\ sCf1Filter \in Seq(Sample) /\ Len(sCf1Filter) < kFilterDepth
            BY <2>1, <3>2
        <3> QED
            BY <2>1, <2>2, <3>1, <3>3 DEF Init, TypeOK
    <2>4. InitInv /\ LevelInv
        BY <2>1 DEF Init, InitInv, LevelInv
    <2> QED
        BY <2>3, <2>4 DEF Inv
<1>2. Inv /\ [Next]_vars => Inv'
    BY TypeStep, InitStep, LevelStep DEF Inv
<1> QED
    BY <1>1, <1>2, PTL DEF Spec

-----------------------------------------------------------------------------
(***************************************************************************)
(* The properties.                                                         *)
(***************************************************************************)

\* Types, among them the bounds on the two windows, on the posted polls and on
\* the count of samples above the threshold.
THEOREM TypeCorrect == Spec => []TypeOK
BY Invariance, PTL DEF Inv

\* Only the first sample of a CF1 window can hold pulses of the other quantity.
THEOREM SamplesCorrect == Spec => []CleanSamples
<1>1. Inv => CleanSamples
    BY DEF Inv, LevelInv, CleanSamples
<1> QED
    BY <1>1, Invariance, PTL

\* A voltage or current is published from samples of that quantity alone.
THEOREM ReadingCorrect == Spec => ReadingClean
<1> DEFINE Step ==
        ready /\ WindowCompletes =>
            /\ SecondSample.from \cup ThirdSample.from \subseteq {sSelIsVoltage}
            /\ IF sSelIsVoltage
               THEN sLastRmsVoltageMv' \in RmsVoltage(LowCount)..RmsVoltage(HighCount)
               ELSE sLastRmsCurrentMa' \in RmsCurrent(LowCount)..RmsCurrent(HighCount)
<1>1. ASSUME Inv, [Next]_vars
      PROVE  [Step]_vars
    <2> SUFFICES ASSUME ready, WindowCompletes
                 PROVE  Step
        OBVIOUS
    <2> DEFINE a == sCf1Filter[1].count
               b == SecondSample.count
               c == ThirdSample.count
               m == Median(a, b, c)
    <2>1. Process
        BY <1>1 DEF WindowCompletes, Next, Poll, Tick, SwitchLoad, MeterInit, PollStart,
                    TakePulses, vars
    <2>2. a \in Nat /\ b \in Nat /\ c \in Nat
        <3>1. sCf1Filter[1] \in Sample /\ sCf1Filter[2] \in Sample
            BY <1>1, TwoElements DEF WindowCompletes, Inv, TypeOK
        <3>2. CountsPerSec(cf1Taken.count, windowMs) \in Nat
            BY <1>1, TakenType DEF WindowCompletes, Inv
        <3> QED
            BY <3>1, <3>2 DEF Sample, SecondSample, ThirdSample
    <2>3. SecondSample.from \cup ThirdSample.from \subseteq {sSelIsVoltage}
        BY <1>1 DEF WindowCompletes, Inv, LevelInv, SecondSample, ThirdSample, TypeOK
    <2>4. FilterCf1(ThirdSample) /\ Completes(sCf1Filter)
        BY <2>1 DEF Process, ThirdSample, WindowCompletes, Completes, kFilterDepth
    <2>5. IF sSelIsVoltage THEN sLastRmsVoltageMv' = RmsVoltage(m)
                           ELSE sLastRmsCurrentMa' = RmsCurrent(m)
        BY <2>4 DEF FilterCf1, SecondSample
    <2>6. m \in Nat /\ LowCount \in Nat /\ HighCount \in Nat /\ LowCount <= m /\ m <= HighCount
        BY <2>2, MedianBetween DEF LowCount, HighCount
    <2> HIDE DEF m
    <2>7. /\ RmsVoltage(m) \in RmsVoltage(LowCount)..RmsVoltage(HighCount)
          /\ RmsCurrent(m) \in RmsCurrent(LowCount)..RmsCurrent(HighCount)
        <3>1. /\ RmsVoltage(LowCount) <= RmsVoltage(m)
              /\ RmsCurrent(LowCount) <= RmsCurrent(m)
            BY ONLY <2>6, ReadingMonotone
        <3>2. /\ RmsVoltage(m) <= RmsVoltage(HighCount)
              /\ RmsCurrent(m) <= RmsCurrent(HighCount)
            BY ONLY <2>6, ReadingMonotone
        <3>3. \A k \in {LowCount, m, HighCount} : RmsVoltage(k) \in Nat /\ RmsCurrent(k) \in Nat
            BY ONLY <2>6, ReadingNat
        <3> QED
            BY ONLY <3>1, <3>2, <3>3
    <2> QED
        BY <2>3, <2>5, <2>7
<1> QED
    BY <1>1, Invariance, PTL DEF Spec, ReadingClean

-----------------------------------------------------------------------------
(***************************************************************************)
(* A trip is a sustained overload while polls are served on time: between  *)
(* two expirations of the timer there is then exactly one poll, and the    *)
(* k-th sample of a run ends k - 1 expirations after the first window did. *)
(***************************************************************************)

\* Expirations of the timer since the first window of the run ended.
Periods ==
    IF posted = 0 /\ pc = "idle" THEN sOverPowerSamples - 1 ELSE sOverPowerSamples

\* At most one poll waits, its window reaches back past the last expiration,
\* and streak has grown by a period for each sample but the first.
TimingInv ==
    /\ pc = "init" => posted = 0 /\ sOverPowerSamples = 0
    /\ pc \in {"take", "process"} => polled
    /\ ~late =>
        /\ posted \in {0, 1} /\ (posted = 1 => pc = "idle")
        /\ posted = 1 /\ polled => age >= phase + 1
        /\ pc \in {"take", "process"} /\ windowMs # 0 => windowMs + age >= phase + 1
        /\ sOverPowerSamples # 0 =>
              /\ polled /\ (pc = "take" => windowMs # 0)
              /\ streak >= Least(LongEnough, Periods * Period + 1 + phase)

Timing == TypeOK /\ TimingInv

\* The one product the proof needs, so that the rest of it is linear.
LEMMA Product ==
    ASSUME NEW n \in Nat \ {0}
    PROVE  /\ n * Period \in Nat /\ (n - 1) * Period \in Nat
           /\ n * Period = (n - 1) * Period + Period
           /\ LongEnough \in Nat \ {0}
BY MeterAssumption DEF LongEnough

LEMMA TimingTick == ASSUME Timing, Tick PROVE TimingInv'
<1> USE MeterAssumption
<1> DEFINE n == sOverPowerSamples
<1>0. /\ n \in Nat /\ phase \in Nat /\ Period \in Nat \ {0} /\ posted \in Nat /\ age \in Nat
      /\ streak \in Nat /\ windowMs \in Nat /\ LongEnough \in Nat \ {0}
    BY Product DEF Timing, TypeOK, LongEnough
<1>1. /\ UNCHANGED <<polled, pc, windowMs, sOverPowerSamples>> /\ pc # "init" /\ age' = age + 1
      /\ streak' = IF n > 0 THEN Least(streak + 1, LongEnough) ELSE 0
    BY DEF Tick, locals
<1>2. CASE phase + 1 = Period
    <2>1. phase' = 0 /\ posted' = Least(posted + 1, Backlog)
          /\ late' = (late \/ posted > 0 \/ pc # "idle")
        BY <1>2 DEF Tick, TimerExpires
    <2> SUFFICES ASSUME ~late'
                 PROVE  TimingInv'
        BY <1>1 DEF Timing, TimingInv
    <2>2. ~late /\ posted = 0 /\ pc = "idle" /\ posted' = 1
        <3>1. ~late /\ ~(posted > 0) /\ pc = "idle"
            BY <2>1, Zenon
        <3> QED
            BY <1>0, <2>1, <3>1 DEF Least
    <2>3. n # 0 => polled /\ streak >= Least(LongEnough, (n - 1) * Period + 1 + phase)
        BY <1>0, <2>2 DEF Timing, TimingInv, Periods
    <2>4. n # 0 => streak' >= Least(LongEnough, n * Period + 1)
        BY <1>0, <1>1, <1>2, <2>3, Product DEF Least
    <2>5. Periods' = n
        BY <1>1, <2>2 DEF Periods
    <2>6. n # 0 => streak' >= Least(LongEnough, Periods' * Period + 1 + phase')
        BY <1>0, <2>1, <2>4, <2>5, Product
    <2> QED
        BY <1>0, <1>1, <2>1, <2>2, <2>3, <2>6 DEF TimingInv
<1>3. CASE phase + 1 # Period
    <2>1. phase' = phase + 1 /\ UNCHANGED <<posted, late>>
        BY <1>3 DEF Tick, TimerExpires
    <2> SUFFICES ASSUME ~late
                 PROVE  TimingInv'
        BY <1>1, <2>1 DEF Timing, TimingInv
    <2>2. Periods' = Periods
        BY <1>1, <2>1 DEF Periods
    <2>3. n # 0 => Periods * Period \in Nat
        BY <1>0, Product DEF Periods
    <2>4. n # 0 => streak >= Least(LongEnough, Periods * Period + 1 + phase)
        BY DEF Timing, TimingInv
    <2> HIDE DEF n
    <2>5. n # 0 => streak' >= Least(LongEnough, Periods * Period + 1 + phase')
        <3> DEFINE whole == Periods * Period
        <3> HIDE DEF whole
        <3> SUFFICES ASSUME n # 0
                     PROVE  streak' >= Least(LongEnough, whole + 1 + phase')
            BY DEF whole
        <3>1. whole \in Nat /\ streak >= Least(LongEnough, whole + 1 + phase)
            BY <2>3, <2>4 DEF whole
        <3> QED
            BY ONLY <1>0, <1>1, <2>1, <3>1, n # 0 DEF Least
    <2> QED
        BY <1>0, <1>1, <2>1, <2>2, <2>5 DEF Timing, TimingInv, n
<1> QED
    BY <1>2, <1>3

LEMMA TimingStep == ASSUME Timing, [Next]_vars PROVE TimingInv'
<1> USE MeterAssumption
<1>1. CASE Tick
    BY <1>1, TimingTick
<1>2. CASE SwitchLoad
    BY <1>2 DEF SwitchLoad, Timing, TimingInv, Periods, LongEnough, Least,
                environment, clock, locals, protection
<1>3. CASE MeterInit
    BY <1>3 DEF MeterInit, Timing, TimingInv, Periods, LongEnough, Least,
                environment, clock, locals, protection
<1>4. CASE PollStart
    <2>1. /\ pc = "idle" /\ posted > 0 /\ posted' = posted - 1 /\ pc' = "take"
          /\ windowMs' = (IF polled THEN age ELSE 0) /\ polled' = TRUE /\ age' = 0
          /\ UNCHANGED <<phase, late, sOverPowerSamples, streak>>
        BY <1>4 DEF PollStart, protection
    <2>2. Periods' = Periods
        BY <2>1 DEF Periods
    <2> QED
        BY <2>1, <2>2 DEF Timing, TimingInv, TypeOK
<1>5. CASE TakePulses
    <2>1. /\ pc = "take" /\ ((windowMs = 0 /\ pc' = "idle") \/ (windowMs # 0 /\ pc' = "process"))
          /\ UNCHANGED <<phase, posted, late, polled, age, windowMs, sOverPowerSamples, streak>>
        BY <1>5 DEF TakePulses, environment, clock, locals, protection, Timing, TypeOK
    <2>2. pc' = "process" => Periods' = Periods
        BY <2>1 DEF Periods
    <2> QED
        BY <2>1, <2>2 DEF Timing, TimingInv
<1>6. CASE Process
    <2>1. /\ pc = "process" /\ pc' = "idle" /\ windowMs' = 0
          /\ UNCHANGED <<phase, posted, late, polled, age>>
        BY <1>6 DEF Process, environment, clock
    <2>2. \/ sOverPowerSamples' = 0
          \/ sOverPowerSamples' = sOverPowerSamples + 1 /\ streak' = OverloadSpan
        BY <1>6, Zenon DEF Process, CheckOverPower
    <2> SUFFICES ASSUME ~late, sOverPowerSamples' # 0
                 PROVE  polled /\ streak' >= Least(LongEnough, Periods' * Period + 1 + phase)
        BY <2>1 DEF Timing, TimingInv
    <2>3. /\ sOverPowerSamples \in Nat /\ phase \in Nat /\ age \in Nat /\ windowMs \in Nat \ {0}
          /\ LongEnough \in Nat \ {0} /\ posted = 0 /\ windowMs + age >= phase + 1
        BY <2>1, Product DEF Timing, TimingInv, TypeOK, LongEnough
    <2>4. Periods = sOverPowerSamples /\ Periods' = sOverPowerSamples
        BY <2>1, <2>2, <2>3 DEF Periods
    <2>5. CASE sOverPowerSamples = 0
        <3>1. Periods' * Period = 0
            BY <2>4, <2>5
        <3>2. streak' >= Least(LongEnough, 1 + phase)
            BY <2>2, <2>3, <2>5 DEF OverloadSpan, Least
        <3>3. polled
            BY <2>1 DEF Timing, TimingInv
        <3> QED
            BY <2>3, <3>1, <3>2, <3>3
    <2>6. CASE sOverPowerSamples # 0
        BY <2>1, <2>2, <2>4, <2>6 DEF Timing, TimingInv, OverloadSpan
    <2> QED
        BY <2>5, <2>6
<1>7. CASE UNCHANGED vars
    BY <1>7 DEF Timing, TimingInv, Periods, LongEnough, Least, vars, environment, clock, locals,
                protection
<1> QED
    BY <1>1, <1>2, <1>3, <1>4, <1>5, <1>6, <1>7 DEF Next, Poll

\* While polls are served on time, a trip means an overload that lasted.
THEOREM TripCorrect == Spec => TripSustainedOnTime
<1>1. Init => TimingInv
    BY DEF Init, TimingInv
<1>2. ASSUME Timing, [Next]_vars
      PROVE  [Trips /\ ~late => Sustained]_vars
    <2> SUFFICES ASSUME Trips, ~late
                 PROVE  Sustained
        OBVIOUS
    <2> USE MeterAssumption
    <2>1. Process
        BY <1>2 DEF Trips, Next, Poll, Tick, SwitchLoad, MeterInit, PollStart, TakePulses, vars
    <2>2. sOverPowerSamples + 1 >= OverPowerSamples
        BY <2>1, Zenon DEF Process, CheckOverPower, Trips
    <2>3. sOverPowerSamples = OverPowerSamples - 1 /\ sOverPowerSamples \in Nat
        BY <1>2, <2>2 DEF Timing, TypeOK
    <2>4. /\ phase \in Nat /\ age \in Nat /\ windowMs \in Nat /\ LongEnough \in Nat \ {0}
          /\ windowMs + age >= phase + 1 /\ pc = "process"
        BY <1>2, <2>1, Product DEF Process, Timing, TimingInv, TypeOK, LongEnough
    <2>5. CASE sOverPowerSamples = 0
        <3>1. LongEnough = 1 /\ (OverPowerSamples - 1) * Period = 0
            BY <2>3, <2>5 DEF LongEnough
        <3> QED
            BY <2>4, <2>5, <3>1 DEF Sustained, OverloadSpan, Least
    <2>6. CASE sOverPowerSamples # 0
        <3>1. Periods = sOverPowerSamples
            BY <2>4 DEF Periods
        <3>2. streak >= Least(LongEnough, LongEnough + phase)
            <4>1. streak >= Least(LongEnough, sOverPowerSamples * Period + 1 + phase)
                BY <1>2, <2>6, <3>1 DEF Timing, TimingInv
            <4>2. sOverPowerSamples * Period + 1 = LongEnough
                BY <2>3 DEF LongEnough
            <4> QED
                BY <4>1, <4>2
        <3>3. streak \in Nat /\ streak >= LongEnough
            BY <1>2, <2>4, <3>2 DEF Least, Timing, TypeOK
        <3>4. (OverPowerSamples - 1) * Period \in Nat
            BY <2>3, <2>6, Product
        <3> QED
            BY <2>6, <3>3, <3>4 DEF Sustained, OverloadSpan, LongEnough
    <2> QED
        BY <2>5, <2>6
<1>3. Timing /\ [Next]_vars => TimingInv'
    BY TimingStep
<1>4. Spec => []Timing
    <2>1. Init /\ TypeOK => Timing
        BY <1>1 DEF Timing
    <2>2. Timing /\ TypeOK' /\ [Next]_vars => Timing'
        BY <1>3 DEF Timing
    <2> QED
        BY <2>1, <2>2, TypeCorrect, PTL DEF Spec
<1> QED
    BY <1>2, <1>4, PTL DEF Spec, TripSustainedOnTime

-----------------------------------------------------------------------------
(***************************************************************************)
(* What a sample says about the load.  A counter holds at most what the    *)
(* load draws, at its peak so far, in the ticks since it was last taken.   *)
(***************************************************************************)

LEMMA CountsMonotone ==
    ASSUME NEW a \in Nat, NEW b \in Nat, a <= b, NEW window \in Nat \ {0}
    PROVE  ActivePower(CountsPerSec(a, window)) <= ActivePower(CountsPerSec(b, window))
<1> DEFINE ca == CountsPerSec(a, window)
           cb == CountsPerSec(b, window)
<1>1. ca \in Nat /\ cb \in Nat
    BY CountsNat
<1>2. ca <= cb
    BY MeterAssumption, TimesMonotone, DivMonotone DEF CountsPerSec
<1> HIDE DEF ca, cb
<1>3. ActivePower(ca) <= ActivePower(cb)
    BY <1>1, <1>2, MeterAssumption, TimesMonotone, DivMonotone DEF ActivePower
<1> QED
    BY <1>3 DEF ca, cb

Peaks == CfPulses \cup {0}

\* The counter, and what a poll took from it, stay below what peak pulses a tick
\* bring; an empty window's counts are still in the counter until they are taken.
Below(peak) ==
    /\ pc # "take" => sCfPulses <= peak * age
    /\ pc = "take" /\ windowMs # 0 => sCfPulses <= peak * (windowMs + age)
    /\ pc = "process" => cfTaken <= peak * (windowMs + age)

PeakInv == \E peak \in Peaks : Below(peak)

LEMMA PeakTick == ASSUME TypeOK, PeakInv, Tick PROVE PeakInv'
<1>1. PICK peak \in Peaks : Below(peak)
    BY DEF PeakInv
<1>2. PICK cf \in Peaks : sCfPulses' = sCfPulses + cf \/ UNCHANGED sCfPulses
    BY Zenon DEF Tick, PulsesArrive, counters, Peaks
<1>3. /\ age' = age + 1 /\ UNCHANGED <<pc, windowMs, cfTaken>>
      /\ age \in Nat /\ windowMs \in Nat /\ cfTaken \in Nat /\ sCfPulses \in Nat
      /\ peak \in Nat /\ cf \in Nat
    BY MeterAssumption DEF Tick, locals, TypeOK, Peaks
<1> DEFINE higher == Greatest(peak, cf)
<1>4. higher \in Peaks /\ higher \in Nat /\ peak <= higher /\ cf <= higher
    BY <1>3 DEF Greatest
<1> HIDE DEF higher
<1>5. ASSUME NEW n \in Nat, NEW held \in Nat, held <= peak * n
      PROVE  held + cf <= higher * (n + 1)
    <2>1. peak * n <= higher * n /\ higher * n \in Nat
        BY <1>3, <1>4, TimesMonotone
    <2>2. higher * (n + 1) = higher * n + higher
        BY <1>4
    <2>3. peak * n \in Nat
        BY <1>3
    <2> DEFINE low == peak * n
               high == higher * n
               next == higher * (n + 1)
    <2> HIDE DEF low, high, next
    <2>4. /\ held <= low /\ low <= high /\ next = high + higher
          /\ low \in Nat /\ high \in Nat
        BY <1>5, <2>1, <2>2, <2>3 DEF low, high, next
    <2>5. held + cf <= next
        BY <1>3, <1>4, <1>5, <2>4
    <2> QED
        BY <2>5 DEF next
<1>6. pc' # "take" => sCfPulses' <= higher * age'
    <2> SUFFICES ASSUME pc # "take"
                 PROVE  sCfPulses' <= higher * (age + 1)
        BY <1>3
    <2>1. sCfPulses + cf <= higher * (age + 1)
        BY <1>1, <1>3, <1>5 DEF Below
    <2> QED
        BY <1>2, <1>3, <1>4, <2>1
<1>7. pc' = "take" /\ windowMs' # 0 => sCfPulses' <= higher * (windowMs' + age')
    <2> SUFFICES ASSUME pc = "take", windowMs # 0
                 PROVE  sCfPulses' <= higher * (windowMs + age + 1)
        BY <1>3
    <2>1. sCfPulses + cf <= higher * (windowMs + age + 1)
        BY <1>1, <1>3, <1>5 DEF Below
    <2> QED
        BY <1>2, <1>3, <1>4, <2>1
<1>8. pc' = "process" => cfTaken' <= higher * (windowMs' + age')
    <2> SUFFICES ASSUME pc = "process"
                 PROVE  cfTaken <= higher * (windowMs + age + 1)
        BY <1>3
    <2>1. cfTaken + cf <= higher * (windowMs + age + 1)
        BY <1>1, <1>3, <1>5 DEF Below
    <2> QED
        BY <1>3, <1>4, <2>1
<1>9. Below(higher)'
    BY <1>6, <1>7, <1>8 DEF Below
<1> QED
    BY <1>4, <1>9 DEF PeakInv, Peaks

LEMMA PeakStep == ASSUME TypeOK, PeakInv, [Next]_vars PROVE PeakInv'
<1>1. CASE Tick
    BY <1>1, PeakTick
<1>2. PICK peak \in Peaks : Below(peak)
    BY DEF PeakInv
<1>3. /\ age \in Nat /\ windowMs \in Nat /\ cfTaken \in Nat /\ sCfPulses \in Nat
      /\ peak \in Nat
    BY <1>2, MeterAssumption DEF TypeOK, Peaks
<1>4. \A n \in Nat : 0 <= peak * n /\ peak * 0 = 0
    BY <1>3
<1> SUFFICES ASSUME ~Tick
             PROVE  Below(peak)'
    BY <1>1, <1>2 DEF PeakInv, Peaks
<1>5. CASE SwitchLoad \/ MeterInit
    BY <1>2, <1>5 DEF SwitchLoad, MeterInit, Below, counters, clock, locals
<1>6. CASE PollStart
    <2>1. /\ pc' = "take" /\ pc = "idle" /\ age' = 0 /\ UNCHANGED sCfPulses
          /\ windowMs' # 0 => windowMs' = age
        BY <1>6 DEF PollStart, counters
    <2>2. windowMs' # 0 => windowMs' + age' = age
        BY <1>3, <2>1
    <2> QED
        BY <1>2, <2>1, <2>2 DEF Below
<1>7. CASE TakePulses
    <2>1. /\ pc = "take" /\ sCfPulses' = 0 /\ age' = age /\ age' \in Nat
          /\ pc' # "take"
          /\ pc' = "process" => windowMs # 0 /\ windowMs' = windowMs /\ cfTaken' = sCfPulses
        BY <1>3, <1>7 DEF TakePulses, clock, locals
    <2> QED
        BY <1>2, <1>4, <2>1 DEF Below
<1>8. CASE Process
    BY <1>2, <1>8 DEF Process, Below, counters, clock
<1>9. CASE UNCHANGED vars
    BY <1>2, <1>9 DEF vars, Below, counters, clock, locals
<1> QED
    BY <1>5, <1>6, <1>7, <1>8, <1>9 DEF Next, Poll

LEMMA PeakInvariance == Spec => []PeakInv
<1>1. Init => PeakInv
    <2> SUFFICES ASSUME Init
                 PROVE  Below(0)
        BY DEF PeakInv, Peaks
    <2> QED
        BY DEF Init, Below
<1>2. TypeOK /\ PeakInv /\ [Next]_vars => PeakInv'
    BY PeakStep
<1> QED
    BY <1>1, <1>2, TypeCorrect, PTL DEF Spec

\* A sample shows at most what the load drew at its peak in the window and the
\* ticks its poll was held up.
THEOREM SampleCorrect == Spec => []SampleHonest
<1>1. ASSUME TypeOK, PeakInv
      PROVE  SampleHonest
    <2> SUFFICES ASSUME pc = "process"
                 PROVE  \E peak \in CfPulses \cup {0} :
                            ActivePower(CountsPerSec(cfTaken, windowMs)) <=
                                ActivePower(CountsPerSec(peak * (windowMs + age), windowMs))
        BY DEF SampleHonest
    <2>1. PICK peak \in Peaks : Below(peak)
        BY <1>1 DEF PeakInv
    <2>2. /\ windowMs \in Nat \ {0} /\ cfTaken \in Nat /\ age \in Nat /\ peak \in Nat
        BY <1>1, MeterAssumption DEF TypeOK, Peaks
    <2>3. cfTaken <= peak * (windowMs + age) /\ peak * (windowMs + age) \in Nat
        BY <2>1, <2>2 DEF Below
    <2>4. ActivePower(CountsPerSec(cfTaken, windowMs)) <=
              ActivePower(CountsPerSec(peak * (windowMs + age), windowMs))
        BY <2>2, <2>3, CountsMonotone
    <2> QED
        BY <2>4 DEF Peaks
<1> QED
    BY <1>1, PeakInvariance, TypeCorrect, PTL

\* A window as long as the ticks its counts come from shows the rate itself.
LEMMA SteadyRate ==
    ASSUME NEW rate \in Nat, NEW window \in Nat \ {0}
    PROVE  CountsPerSec(rate * window, window) = rate * Period
<1>1. Period \in Nat /\ rate * Period \in Nat
    BY MeterAssumption
<1>2. (rate * window) * Period = (rate * Period) * window
    BY <1>1
<1>3. \A n \in Nat : (n * window) \div window = n
    OBVIOUS
<1> QED
    BY <1>1, <1>2, <1>3 DEF CountsPerSec

\* Unless the poll was held up between reading the clock and its verdict, the
\* protection opens the relay only when the load really has drawn more than
\* the threshold in some tick, late and back-to-back polls included.
THEOREM TripMeansOverload ==
    Spec => [][Trips /\ age = 0 =>
                  \E cf \in CfPulses : ActivePower(cf * Period) > OverPowerThreshold]_vars
<1>1. ASSUME TypeOK, SampleHonest, [Next]_vars
      PROVE  [Trips /\ age = 0 =>
                  \E cf \in CfPulses : ActivePower(cf * Period) > OverPowerThreshold]_vars
    <2> SUFFICES ASSUME Trips, age = 0
                 PROVE  \E cf \in CfPulses : ActivePower(cf * Period) > OverPowerThreshold
        OBVIOUS
    <2>1. Process
        BY <1>1 DEF Trips, Next, Poll, Tick, SwitchLoad, MeterInit, PollStart, TakePulses, vars
    <2> DEFINE power == ActivePower(CountsPerSec(cfTaken, windowMs))
    <2>2. power > OverPowerThreshold
        BY <2>1, Zenon DEF Process, CheckOverPower, Trips
    <2>3. PICK peak \in CfPulses \cup {0} :
              power <= ActivePower(CountsPerSec(peak * (windowMs + age), windowMs))
        BY <1>1, <2>1 DEF SampleHonest, Process
    <2>4. /\ windowMs \in Nat \ {0} /\ peak \in Nat /\ cfTaken \in Nat
          /\ Period \in Nat /\ OverPowerThreshold \in Nat
        BY <1>1, <2>1, MeterAssumption DEF TypeOK, Process
    <2>5. windowMs + age = windowMs
        BY <2>4
    <2>6. power <= ActivePower(peak * Period)
        BY <2>3, <2>4, <2>5, SteadyRate
    <2>7. power \in Nat /\ ActivePower(peak * Period) \in Nat
        <3>1. CountsPerSec(cfTaken, windowMs) \in Nat /\ peak * Period \in Nat
            BY <2>4, CountsNat
        <3> QED
            BY <3>1, ReadingNat
    <2> HIDE DEF power
    <2>8. ActivePower(peak * Period) > OverPowerThreshold
        BY <2>2, <2>4, <2>6, <2>7
    <2>9. peak # 0
        <3>1. ActivePower(0 * Period) = 0
            BY <2>4, MeterAssumption DEF ActivePower
        <3> QED
            BY <2>4, <2>8, <3>1
    <2> QED
        BY <2>3, <2>8, <2>9
<1> QED
    BY <1>1, SampleCorrect, TypeCorrect, PTL DEF Spec

=============================================================================
