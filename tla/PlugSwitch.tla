----------------------------- MODULE PlugSwitch -----------------------------
(***************************************************************************)
(* The switching core of the plug: the relay driver (relay.cpp), the       *)
(* bridge between the OnOff attribute and the relay (zcl_callbacks.cpp),   *)
(* the button, the marshalling of attribute writes and the boot sequence   *)
(* (app_task.cpp), and the over-power trip (bl0937.cpp).                   *)
(*                                                                         *)
(* Two threads share the relay pin, sOn and the LED's copy of it without a *)
(* lock.  The app task handles button releases and meter polls; the Matter *)
(* thread handles controller commands and the lambdas the app task         *)
(* schedules on it.  A step of a thread is one access to shared state, so  *)
(* TLC may preempt a thread between any two of them.                       *)
(***************************************************************************)
EXTENDS Naturals, FiniteSets

CONSTANTS
    OverPowerSamples,   \* CONFIG_APP_OVERPOWER_SAMPLES
    QueueDepth,         \* lambdas the Matter event queue can hold at once
    QueueCanFill,       \* may other events of the stack fill that queue?
    CallsMayFail,       \* may GPIO writes and attribute accesses return an error?
    UnchangedNotifies,  \* does rewriting the same attribute value call back?
    Loads               \* does what is plugged in draw more than the threshold?

ASSUME SwitchAssumption ==
    /\ OverPowerSamples \in Nat \ {0}
    /\ QueueDepth \in Nat \ {0}
    /\ QueueCanFill \in BOOLEAN
    /\ CallsMayFail \in BOOLEAN
    /\ UnchangedNotifies \in SUBSET BOOLEAN /\ UnchangedNotifies # {}
    /\ Loads \in SUBSET BOOLEAN /\ Loads # {}

App == "app"
Matter == "matter"
Thread == {App, Matter}

VARIABLES
    relayPin,     \* level of the relay GPIO: TRUE closes the relay
    sInitialised, \* relay.cpp: RelayInit() succeeded
    sOn,          \* relay.cpp: what RelayIsOn() answers
    sRelayOn,     \* status_led.cpp: the relay state the LED shows
    onOff,        \* the OnOff attribute, persisted with every write
    lambdas,      \* UpdateClusterState() lambdas waiting on the Matter queue
    overSamples,  \* bl0937.cpp: sOverPowerSamples
    pc,           \* pc[t]: the next access of thread t to shared state
    arg,          \* arg[t]: the "on" argument of the call thread t is in
    task,         \* what made the app task call RelaySet()
    heavy,        \* the load draws more than the threshold when powered
    drawn,        \* whether it did, at the instants since the last poll
    calm,         \* nobody touches the plug, its load or its supply any more
    fault,        \* ghost: a failed call has lost an update since boot
    overlap       \* ghost: both threads were inside a relay update at once

device == <<relayPin, sInitialised, sOn, sRelayOn, onOff>>
threads == <<pc, arg, task>>
world == <<heavy, calm>>
ghosts == <<fault, overlap>>
vars == <<device, lambdas, overSamples, threads, world, drawn, ghosts>>

InRelaySet == {"pin", "son", "led"}
AppPc == InRelaySet \cup
    {"init", "start", "await", "idle", "reread", "ledAgain", "sched", "halted"}
MatterPc == InRelaySet \cup {"down", "restore", "idle", "set", "ledAgain"}

(***************************************************************************)
(* Outcomes of a call that can fail; TRUE is success.                      *)
(***************************************************************************)
Outcomes == IF CallsMayFail THEN BOOLEAN ELSE {TRUE}

\* Thread t has driven the pin and not yet finished recording it.
Updating(t) == pc[t] \in {"son", "led", "reread", "ledAgain"}

Goto(t, label) == pc' = [pc EXCEPT ![t] = label]
Call(t, label, on) == Goto(t, label) /\ arg' = [arg EXCEPT ![t] = on]

\* Faulty variant: CheckOverPower() without its UpdateClusterState() call.
ReturnWithoutReport(t) ==
    CASE t = Matter -> "ledAgain"
      [] t = App /\ task = "button" -> "reread"
      [] OTHER -> "idle"

\* Where RelaySet() returns to, for the caller it has.
Return(t) ==
    CASE t = Matter -> "ledAgain"
      [] t = App /\ task = "button" -> "reread"
      [] OTHER -> "sched"

Init ==
    /\ relayPin = FALSE /\ sInitialised = FALSE /\ sOn = FALSE /\ sRelayOn = FALSE
    /\ onOff \in BOOLEAN
    /\ lambdas = 0 /\ overSamples = 0
    /\ pc = [t \in Thread |-> IF t = App THEN "init" ELSE "down"]
    /\ arg = [t \in Thread |-> FALSE]
    /\ task = "none"
    /\ heavy \in Loads /\ drawn = {FALSE} /\ calm = FALSE
    /\ fault = FALSE /\ overlap = FALSE

-----------------------------------------------------------------------------
(***************************************************************************)
(* relay.cpp, on whichever thread called it.                               *)
(***************************************************************************)

\* Faulty variant: the error of gpio_pin_set_dt() does not stop RelaySet().
RelaySetPinUnchecked(t) ==
    /\ pc[t] = "pin"
    /\ \E ok \in Outcomes : relayPin' = IF ok THEN arg[t] ELSE relayPin
    /\ Goto(t, "son")
    /\ UNCHANGED <<sInitialised, sOn, sRelayOn, onOff, lambdas, overSamples, arg, task, world,
                   fault>>

\* RelaySet(), up to the GPIO write.  A failed call on the Matter thread
\* leaves the attribute announcing a state the relay never took.
RelaySetPin(t) ==
    /\ pc[t] = "pin"
    /\ \E ok \in Outcomes :
         IF sInitialised /\ ok
         THEN relayPin' = arg[t] /\ Goto(t, "son") /\ UNCHANGED fault
         ELSE /\ Goto(t, Return(t))
              /\ fault' = (fault \/ t = Matter)
              /\ UNCHANGED relayPin
    /\ UNCHANGED <<sInitialised, sOn, sRelayOn, onOff, lambdas, overSamples, arg, task, world>>

RelaySetOn(t) ==
    /\ pc[t] = "son"
    /\ sOn' = arg[t]
    /\ Goto(t, "led")
    /\ UNCHANGED <<relayPin, sInitialised, sRelayOn, onOff, lambdas, overSamples, arg, task,
                   world, fault>>

\* Faulty variant: RelaySet() leaves the LED to its callers.
RelaySetNoLed(t) ==
    /\ pc[t] = "led"
    /\ Goto(t, Return(t))
    /\ UNCHANGED <<device, lambdas, overSamples, arg, task, world, fault>>

\* StatusLedSetRelayState(on), the last call of RelaySet().
RelaySetLed(t) ==
    /\ pc[t] = "led"
    /\ sRelayOn' = arg[t]
    /\ Goto(t, Return(t))
    /\ UNCHANGED <<relayPin, sInitialised, sOn, onOff, lambdas, overSamples, arg, task,
                   world, fault>>

\* Faulty variant: the button does not call UpdateClusterState().
LedAgainWithoutReport(t) ==
    /\ pc[t] = "ledAgain"
    /\ sRelayOn' = arg[t]
    /\ Goto(t, "idle")
    /\ UNCHANGED <<relayPin, sInitialised, sOn, onOff, lambdas, overSamples, arg, task,
                   world, fault>>

\* Faulty variant: ApplyOnOff() reports the relay to the attribute it follows.
LedAgainReports(t) ==
    /\ pc[t] = "ledAgain"
    /\ sRelayOn' = arg[t]
    /\ Goto(t, IF t = App THEN "sched" ELSE "idle")
    /\ lambdas' = IF t = Matter /\ lambdas < QueueDepth THEN lambdas + 1 ELSE lambdas
    /\ UNCHANGED <<relayPin, sInitialised, sOn, onOff, overSamples, arg, task, world, fault>>

\* The second StatusLedSetRelayState(), of ApplyOnOff() and of the button.
LedAgain(t) ==
    /\ pc[t] = "ledAgain"
    /\ sRelayOn' = arg[t]
    /\ Goto(t, IF t = App THEN "sched" ELSE "idle")
    /\ UNCHANGED <<relayPin, sInitialised, sOn, onOff, lambdas, overSamples, arg, task,
                   world, fault>>

-----------------------------------------------------------------------------
(***************************************************************************)
(* The app task.                                                           *)
(***************************************************************************)

\* RelayInit(); when it fails Init() returns and the firmware stops.
RelayInit ==
    /\ pc[App] = "init"
    /\ \E ok \in Outcomes :
         IF ok
         THEN /\ relayPin' = FALSE /\ sInitialised' = TRUE /\ sOn' = FALSE
              /\ Goto(App, "start")
         ELSE Goto(App, "halted") /\ UNCHANGED <<relayPin, sInitialised, sOn>>
    /\ UNCHANGED <<sRelayOn, onOff, lambdas, overSamples, arg, task, world, fault>>

\* Faulty variant: tasks are dispatched while the server is still starting.
StartServerNoWait ==
    /\ pc[App] = "start"
    /\ pc' = [pc EXCEPT ![App] = "idle", ![Matter] = "restore"]
    /\ UNCHANGED <<device, lambdas, overSamples, arg, task, world, fault>>

\* StartServer() starts the Matter thread and returns once it is ready.
StartServer ==
    /\ pc[App] = "start"
    /\ pc' = [pc EXCEPT ![App] = "await", ![Matter] = "restore"]
    /\ UNCHANGED <<device, lambdas, overSamples, arg, task, world, fault>>

ServerReady ==
    /\ pc[App] = "await" /\ pc[Matter] = "idle"
    /\ Goto(App, "idle")
    /\ UNCHANGED <<device, lambdas, overSamples, arg, task, world, fault>>

\* ButtonEventHandler(), release of a short press.
ButtonEventHandler ==
    /\ ~calm
    /\ pc[App] = "idle"
    /\ task' = "button"
    /\ Call(App, "pin", ~sOn)
    /\ UNCHANGED <<device, lambdas, overSamples, world, fault>>

\* It then evaluates RelayIsOn() again, for StatusLedSetRelayState().
ButtonReread ==
    /\ pc[App] = "reread"
    /\ Call(App, "ledAgain", sOn)
    /\ UNCHANGED <<device, lambdas, overSamples, task, world, fault>>

\* Faulty variant: the event queue is taken to be unlimited.
UpdateClusterStateUnbounded ==
    /\ pc[App] = "sched"
    /\ Goto(App, "idle")
    /\ task' = "none"
    /\ lambdas' = lambdas + 1
    /\ UNCHANGED <<device, overSamples, arg, world, fault>>

\* UpdateClusterState(); it ignores ScheduleLambda()'s result.  A lambda that
\* does not fit is lost, which matters only if no other one is waiting.
UpdateClusterState ==
    /\ pc[App] = "sched"
    /\ Goto(App, "idle")
    /\ task' = "none"
    /\ \/ /\ lambdas < QueueDepth
          /\ lambdas' = lambdas + 1
          /\ UNCHANGED fault
       \/ /\ lambdas = QueueDepth \/ QueueCanFill
          /\ fault' = (fault \/ lambdas = 0)
          /\ UNCHANGED lambdas
    /\ UNCHANGED <<device, overSamples, arg, world>>

\* Faulty variant: the RelayIsOn() test before the trip is inverted.
CheckOverPowerInverted(above) ==
    /\ overSamples' = IF above THEN (overSamples + 1) % OverPowerSamples ELSE 0
    /\ IF above /\ overSamples + 1 >= OverPowerSamples /\ ~sOn
       THEN task' = "trip" /\ Call(App, "pin", FALSE)
       ELSE UNCHANGED <<pc, arg, task>>

\* Faulty variant: CheckOverPower() trips a relay that is open already.
CheckOverPowerUnguarded(above) ==
    /\ overSamples' = IF above THEN (overSamples + 1) % OverPowerSamples ELSE 0
    /\ IF above /\ overSamples + 1 >= OverPowerSamples
       THEN task' = "trip" /\ Call(App, "pin", FALSE)
       ELSE UNCHANGED <<pc, arg, task>>

\* CheckOverPower(), on a sample above or not above the threshold.
CheckOverPower(above) ==
    LET samples == overSamples + 1
    IN  \/ /\ ~above
           /\ overSamples' = 0
           /\ UNCHANGED <<pc, arg, task>>
        \/ /\ above /\ samples < OverPowerSamples
           /\ overSamples' = samples
           /\ UNCHANGED <<pc, arg, task>>
        \/ /\ above /\ samples >= OverPowerSamples
           /\ overSamples' = 0
           /\ IF sOn THEN task' = "trip" /\ Call(App, "pin", FALSE)
                     ELSE UNCHANGED <<pc, arg, task>>

\* MeterPoll(): a window in which the load drew too much only part of the
\* time may average to either side of the threshold.
MeterPoll ==
    /\ pc[App] = "idle"
    /\ \E above \in drawn : CheckOverPower(above)
    /\ drawn' = {heavy /\ relayPin}
    /\ UNCHANGED <<device, lambdas, world, fault>>

-----------------------------------------------------------------------------
(***************************************************************************)
(* The Matter thread.                                                      *)
(***************************************************************************)

\* emberAfOnOffClusterInitCallback(), once, while the server starts.
RestoreOnOff ==
    /\ pc[Matter] = "restore"
    /\ \E ok \in Outcomes :
         IF ok THEN Call(Matter, "pin", onOff) /\ UNCHANGED fault
               ELSE Goto(Matter, "idle") /\ fault' = TRUE /\ UNCHANGED arg
    /\ UNCHANGED <<device, lambdas, overSamples, task, world>>

\* The lambda of UpdateClusterState(): RelayIsOn() is evaluated here.
RunLambda ==
    /\ pc[Matter] = "idle"
    /\ lambdas > 0
    /\ lambdas' = lambdas - 1
    /\ Call(Matter, "set", sOn)
    /\ UNCHANGED <<device, overSamples, task, world, fault>>

\* DispatchServerCommand() of the OnOff cluster and the handler it calls.
CommandValue == [Off |-> FALSE, On |-> TRUE, Toggle |-> ~onOff]
DispatchServerCommand(command) ==
    /\ ~calm
    /\ pc[Matter] = "idle"
    /\ Call(Matter, "set", CommandValue[command])
    /\ UNCHANGED <<device, lambdas, overSamples, task, world, fault>>

\* The attribute store: write and persist the value, then call
\* MatterPostAttributeChangeCallback(), which calls ApplyOnOff().
WriteOnOff ==
    /\ pc[Matter] = "set"
    /\ \/ /\ onOff' = arg[Matter]
          /\ \E calls \in IF arg[Matter] # onOff THEN {TRUE} ELSE UnchangedNotifies :
               Goto(Matter, IF calls THEN "pin" ELSE "idle")
          /\ UNCHANGED fault
       \/ /\ CallsMayFail
          /\ Goto(Matter, "idle")
          /\ fault' = TRUE
          /\ UNCHANGED onOff
    /\ UNCHANGED <<relayPin, sInitialised, sOn, sRelayOn, lambdas, overSamples, arg, task, world>>

-----------------------------------------------------------------------------
(***************************************************************************)
(* The environment.                                                        *)
(***************************************************************************)

\* The supply is cut and comes back: RAM is lost, the attribute is not.
PowerCut ==
    /\ ~calm
    /\ relayPin' = FALSE /\ sInitialised' = FALSE /\ sOn' = FALSE /\ sRelayOn' = FALSE
    /\ lambdas' = 0 /\ overSamples' = 0
    /\ pc' = [t \in Thread |-> IF t = App THEN "init" ELSE "down"]
    /\ arg' = [t \in Thread |-> FALSE]
    /\ task' = "none"
    /\ drawn' = {FALSE} /\ fault' = FALSE /\ overlap' = FALSE
    /\ UNCHANGED <<onOff, world>>

ChangeLoad ==
    /\ ~calm
    /\ heavy' \in Loads \ {heavy}
    /\ UNCHANGED <<device, lambdas, overSamples, threads, calm, fault>>

BecomeCalm ==
    /\ ~calm
    /\ calm' = TRUE
    /\ UNCHANGED <<device, lambdas, overSamples, threads, heavy, fault>>

-----------------------------------------------------------------------------
RelaySetStep(t) == RelaySetPin(t) \/ RelaySetOn(t) \/ RelaySetLed(t) \/ LedAgain(t)

AppStep ==
    \/ RelaySetStep(App)
    \/ RelayInit \/ StartServer \/ ServerReady
    \/ ButtonReread \/ UpdateClusterState

MatterStep ==
    \/ RelaySetStep(Matter)
    \/ RestoreOnOff \/ RunLambda \/ WriteOnOff

Request == ButtonEventHandler \/ \E c \in DOMAIN CommandValue : DispatchServerCommand(c)

\* What a step adds to the meter's window and to the ghosts.
Observe == drawn' = drawn \cup {heavy' /\ relayPin'}
Note == overlap' = (overlap \/ \A t \in Thread : Updating(t)')

Next ==
    \/ AppStep /\ Observe /\ Note
    \/ MatterStep /\ Observe /\ Note
    \/ MeterPoll /\ Note
    \/ Request /\ Observe /\ Note
    \/ ChangeLoad /\ Observe /\ Note
    \/ BecomeCalm /\ Observe /\ Note
    \/ PowerCut

\* Each thread is scheduled while it has something to do; the poll timer is
\* periodic and the app task dispatches its polls.
Fairness ==
    /\ WF_vars(AppStep /\ Observe /\ Note)
    /\ WF_vars(MatterStep /\ Observe /\ Note)
    /\ WF_vars(MeterPoll /\ Note)

Spec == Init /\ [][Next]_vars
FairSpec == Spec /\ Fairness

-----------------------------------------------------------------------------
(***************************************************************************)
(* Properties.                                                             *)
(***************************************************************************)

\* Every variable has its type; in particular the queue never overflows.
TypeOK ==
    /\ relayPin \in BOOLEAN /\ sInitialised \in BOOLEAN
    /\ sOn \in BOOLEAN /\ sRelayOn \in BOOLEAN /\ onOff \in BOOLEAN
    /\ lambdas \in 0..QueueDepth
    /\ overSamples \in 0..(OverPowerSamples - 1)
    /\ pc \in [Thread -> AppPc \cup MatterPc]
    /\ pc[App] \in AppPc /\ pc[Matter] \in MatterPc
    /\ arg \in [Thread -> BOOLEAN]
    /\ task \in {"none", "button", "trip"}
    /\ heavy \in BOOLEAN /\ calm \in BOOLEAN
    /\ drawn \in SUBSET BOOLEAN /\ drawn # {}
    /\ fault \in BOOLEAN /\ overlap \in BOOLEAN

\* Both threads wait for work and no attribute write is on its way.
AtRest == pc[App] = "idle" /\ pc[Matter] = "idle" /\ lambdas = 0

\* However presses, trips, commands and their attribute writes interleave,
\* once everything has been delivered the OnOff attribute says what the relay
\* driver says: the lambda reads RelayIsOn() when it runs (app_task.cpp:107),
\* so a late one cannot announce an old state.
AttributeAgrees == AtRest /\ ~fault => onOff = sOn

\* The GPIO and RelayIsOn() can part only when two RelaySet() calls of the two
\* threads interleave (relay.cpp:54-63); nothing else, a failed GPIO write
\* included, separates them.
PinAgrees == AtRest /\ ~overlap => relayPin = sOn

\* The same of the LED's copy of the relay state (zcl_callbacks.cpp:28-29,
\* app_task.cpp:86-87), unless ApplyOnOff() showed a state RelaySet() refused.
LedAgrees == AtRest /\ ~overlap /\ ~fault => sRelayOn = sOn

\* No thread calls RelaySet() before RelayInit(), and the button and the meter
\* are not served before the attribute has been restored
\* (zcl_callbacks.cpp:42-43, app_task.cpp:131-132).
BootOrder ==
    /\ \A t \in Thread : pc[t] \in InRelaySet => sInitialised
    /\ pc[Matter] \in {"down", "restore"} =>
           pc[App] \in {"init", "start", "await", "halted"}

\* A load that stays above the threshold is disconnected for good once nobody
\* asks for it any more (bl0937.cpp:135-137), as long as no two RelaySet()
\* calls have interleaved.
OverloadOpens == (calm /\ heavy) ~> [](~relayPin \/ overlap)

\* Once nothing more is requested the attribute agrees with the relay driver
\* for ever: the writes still queued are all delivered, and the echoes they
\* cause die out.
EventuallyAgrees == calm ~> [](onOff = sOn)

\* Whether thread t is in the part of RelaySet(on) that still sets sOn.
Setting(t, on) == pc[t] \in {"pin", "son"} /\ arg[t] = on

\* The Matter thread closes the relay with what it is doing or has to do next:
\* a closing in progress, an On about to change the attribute, the attribute
\* catching up with a closed relay, or the start-up value not applied yet.
MatterCloses ==
    \/ Setting(Matter, TRUE)
    \/ ~onOff /\ pc[Matter] = "set" /\ arg[Matter]
    \/ ~onOff /\ sOn /\ pc[Matter] \notin {"pin", "son"}
    \/ onOff /\ pc[Matter] \in {"down", "restore"}

Bit(condition) == IF condition THEN 1 ELSE 0

\* At most so many times can an over-power trip still find the relay closed:
\* it is closed and nobody is opening it, a press is closing it (and its echo
\* closes it once more), the Matter thread will.
TripsLeft ==
    Bit(sOn /\ ~Setting(App, FALSE)) + 2 * Bit(Setting(App, TRUE)) + Bit(MatterCloses)

\* The steps each thread has to go before it is idle; UpdateClusterState()
\* counts for the lambda it queues as well.
AppSteps == [init |-> 3, start |-> 2, await |-> 1, idle |-> 0, halted |-> 0,
             pin |-> 12, son |-> 11, led |-> 10, reread |-> 9, ledAgain |-> 8, sched |-> 7]
MatterSteps == [down |-> 6, restore |-> 5, set |-> 5, pin |-> 4, son |-> 3, led |-> 2,
                ledAgain |-> 1, idle |-> 0]

\* The steps that remain of what has been begun, trips to come not counted.
Chores == 6 * lambdas + AppSteps[pc[App]] + MatterSteps[pc[Matter]]

\* An over-power trip begins; the only RelaySet() of the app task in the calm.
Trips == pc[App] = "idle" /\ pc'[App] = "pin"

\* An echo needs a trip: once nothing more is requested, everything else the
\* threads do leaves fewer steps, whichever calls fail, with the queue full or
\* not, and even if the callback of a write fires when the value has not
\* changed (zcl_callbacks.cpp:33-40).  A write queued by UpdateClusterState()
\* calls RelaySet(), and that must never queue another one.
EchoesNeedTrips ==
    [][calm /\ ~Trips => Chores' < Chores \/ UNCHANGED <<device, lambdas, threads>>]_vars

\* The work the plug has left to do on its own.
Work == 13 * TripsLeft + Chores

\* Why the echoes of EventuallyAgrees die out: once nothing more is requested,
\* every step of either thread leaves less work than before, except a poll
\* that does not trip; so the over-power trips, the writes they cause and the
\* relay switching those cause in turn (bl0937.cpp:135-147,
\* app_task.cpp:103-112, zcl_callbacks.cpp:21-30) cannot chase each other.
SettlesDown ==
    [][calm => Work' < Work \/ UNCHANGED <<device, lambdas, threads>>]_vars

\* "a persistent overload trips again after APP_OVERPOWER_SAMPLES seconds"
\* (bl0937.cpp:135-137).  Two interleaved RelaySet() calls can leave the pin
\* closed with sOn FALSE; CheckOverPower() then returns early for ever.
OverloadTripsAgain == (calm /\ heavy) ~> []~relayPin
=============================================================================
