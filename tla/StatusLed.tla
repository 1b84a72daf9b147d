------------------------------ MODULE StatusLed ------------------------------
(***************************************************************************)
(* The LED indication (status_led.cpp) and the callers that feed it        *)
(* (app_task.cpp).  The blink timer's handler runs in an interrupt; the    *)
(* device-state and OnOff callbacks run on the Matter thread, the boot call *)
(* and the button handler on the app task.  None of them takes a lock.     *)
(*                                                                         *)
(* A thread inside a call is the list of what it still has to do.  The     *)
(* value of a pin is read in one step and written in another, since the    *)
(* thread can be preempted in between.                                     *)
(***************************************************************************)
EXTENDS Sequences

CONSTANT AppOutranksMatter  \* the Matter thread cannot preempt the app task

ASSUME StatusLedAssumption == AppOutranksMatter \in BOOLEAN

Threads == {"app", "matter"}
Leds == {"red", "green", "blue", "network"}
NetworkLedState == {"Pairing", "Paired", "Error"}
DeviceStates == {"Disconnected", "AdvertisingBLE", "ConnectedBLE", "Provisioned"}

VARIABLES
    boot,           \* "leds", "board", "running", or "failed"
    deviceState,    \* Nrf::GetBoard().GetDeviceState()
    sNetworkState,
    sRelayOn,
    sInitialised,
    sBlinkOn,
    sRendered,
    sBlinkTimer,    \* "stopped", or the interval it runs at
    led,            \* which LEDs are lit
    todo            \* per thread, the rest of the call it is in

state == <<sNetworkState, sRelayOn, sInitialised, sBlinkOn, sRendered>>
vars == <<boot, deviceState, state, sBlinkTimer, led, todo>>

Interval(network) == IF network = "Error" THEN "fast" ELSE "slow"

\* What UpdateStatusLed() makes of the device state.
NetworkOf(device) ==
    CASE device = "Provisioned" -> "Paired"
      [] device \in {"AdvertisingBLE", "ConnectedBLE"} -> "Pairing"
      [] OTHER -> "Error"

-----------------------------------------------------------------------------
(***************************************************************************)
(* Steps of a call.                                                        *)
(***************************************************************************)

Pin(l, from) == [do |-> "pin", led |-> l, from |-> from]
Do(what) == [do |-> what]
Start(interval) == [do |-> "start", interval |-> interval]

\* Faulty variant of Rgb: in Paired only the green channel is written.
RgbGreenOnly(network) ==
    CASE network = "Pairing" -> <<Pin("red", "off"), Pin("green", "off"), Pin("blue", "blink")>>
      [] network = "Error" -> <<Pin("red", "blink"), Pin("green", "off"), Pin("blue", "off")>>
      [] network = "Paired" -> <<Pin("green", "relay")>>

\* RenderRgb(): the three pins in the order they are written.
Rgb(network) ==
    CASE network = "Pairing" -> <<Pin("red", "off"), Pin("green", "off"), Pin("blue", "blink")>>
      [] network = "Error" -> <<Pin("red", "blink"), Pin("green", "off"), Pin("blue", "off")>>
      [] network = "Paired" -> <<Pin("red", "off"), Pin("green", "relay"), Pin("blue", "off")>>

\* Faulty variant of NetworkCall: LED 2 is put out before its timer is stopped.
NetworkCallPinFirst(network) ==
    IF network = "Paired"
    THEN <<Pin("network", "off"), Do("stop"), Do("render")>>
    ELSE <<Do("blink"), Pin("network", "on"), Do("render"), Start(Interval(network))>>

\* StatusLedSetNetworkState(), past its guards.
NetworkCall(network) ==
    IF network = "Paired"
    THEN <<Do("stop"), Pin("network", "off"), Do("render")>>
    ELSE <<Do("blink"), Pin("network", "on"), Do("render"), Start(Interval(network))>>

\* The Matter thread runs while the app task is not in a call, or when it may
\* preempt it; the app task runs when it likes.
MayRun(t) == t = "matter" /\ AppOutranksMatter => todo["app"] = <<>>
AtRest == \A t \in Threads : todo[t] = <<>>

Rest(t) == [todo EXCEPT ![t] = Tail(@)]
Lit(from) == CASE from = "blink" -> sBlinkOn [] from = "relay" -> sRelayOn

\* A pin whose value is a variable: read it ...
LoadValue(t) ==
    /\ Head(todo[t]).do = "pin" /\ Head(todo[t]).from \in {"blink", "relay"}
    /\ todo' = [todo EXCEPT ![t] =
           <<Pin(Head(@).led, IF Lit(Head(@).from) THEN "on" ELSE "off")>> \o Tail(@)]
    /\ UNCHANGED <<state, sBlinkTimer, led>>

\* ... and write it.
SetPin(t) ==
    /\ Head(todo[t]).do = "pin" /\ Head(todo[t]).from \in {"on", "off"}
    /\ led' = [led EXCEPT ![Head(todo[t]).led] = (Head(todo[t]).from = "on")]
    /\ todo' = Rest(t)
    /\ UNCHANGED <<state, sBlinkTimer>>

RenderRgb(t) ==
    /\ Head(todo[t]).do = "render"
    /\ todo' = [todo EXCEPT ![t] =
           (IF sInitialised THEN Rgb(sNetworkState) ELSE <<>>) \o Tail(@)]
    /\ UNCHANGED <<state, sBlinkTimer, led>>

SetBlinkOn(t) ==
    /\ Head(todo[t]).do = "blink"
    /\ sBlinkOn' = TRUE
    /\ todo' = Rest(t)
    /\ UNCHANGED <<sNetworkState, sRelayOn, sInitialised, sRendered, sBlinkTimer, led>>

StartTimer(t) ==
    /\ Head(todo[t]).do = "start"
    /\ sBlinkTimer' = Head(todo[t]).interval
    /\ todo' = Rest(t)
    /\ UNCHANGED <<state, led>>

StopTimer(t) ==
    /\ Head(todo[t]).do = "stop"
    /\ sBlinkTimer' = "stopped"
    /\ todo' = Rest(t)
    /\ UNCHANGED <<state, led>>

Continue(t) ==
    /\ todo[t] # <<>> /\ MayRun(t)
    /\ \/ LoadValue(t) \/ SetPin(t) \/ RenderRgb(t)
       \/ SetBlinkOn(t) \/ StartTimer(t) \/ StopTimer(t)
    /\ UNCHANGED <<boot, deviceState>>

-----------------------------------------------------------------------------
(***************************************************************************)
(* The calls.                                                              *)
(***************************************************************************)

\* Faulty variant of StatusLedSetNetworkState: no first-render flag.
StatusLedSetNetworkStateUnforced(t, network) ==
    IF network = sNetworkState
    THEN UNCHANGED <<state, todo>>
    ELSE /\ sRendered' = TRUE /\ sNetworkState' = network
         /\ todo' = [todo EXCEPT ![t] = IF sInitialised THEN NetworkCall(network) ELSE <<>>]
         /\ UNCHANGED <<sRelayOn, sInitialised, sBlinkOn>>

StatusLedSetNetworkState(t, network) ==
    IF sRendered /\ network = sNetworkState
    THEN UNCHANGED <<state, todo>>
    ELSE /\ sRendered' = TRUE /\ sNetworkState' = network
         /\ todo' = [todo EXCEPT ![t] = IF sInitialised THEN NetworkCall(network) ELSE <<>>]
         /\ UNCHANGED <<sRelayOn, sInitialised, sBlinkOn>>

\* The guard and the assignment in one step: a thread held up between them
\* does what it would have done by calling later.
StatusLedSetRelayState(t, relayOn) ==
    /\ boot = "running" /\ todo[t] = <<>> /\ MayRun(t)
    /\ relayOn # sRelayOn
    /\ sRelayOn' = relayOn
    /\ todo' = [todo EXCEPT ![t] = <<Do("render")>>]
    /\ UNCHANGED <<boot, deviceState, sNetworkState, sInitialised, sBlinkOn, sRendered,
                   sBlinkTimer, led>>

\* The board layer has moved to another device state: DefaultMatterEventHandler()
\* on the Matter thread.
UpdateDeviceState ==
    /\ boot = "running" /\ todo["matter"] = <<>> /\ MayRun("matter")
    /\ \E device \in DeviceStates \ {deviceState} :
           deviceState' = device /\ StatusLedSetNetworkState("matter", NetworkOf(device))
    /\ UNCHANGED <<boot, sBlinkTimer, led>>

\* BlinkTimerHandler(), in an interrupt that no thread can divide.
BlinkTimerHandler ==
    /\ sBlinkTimer # "stopped"
    /\ sBlinkOn' = ~sBlinkOn
    /\ led' = [l \in Leds |->
           CASE l = "network" -> ~sBlinkOn
             [] l = "red" -> sNetworkState = "Error" /\ ~sBlinkOn
             [] l = "green" -> sNetworkState = "Paired" /\ sRelayOn
             [] l = "blue" -> sNetworkState = "Pairing" /\ ~sBlinkOn]
    /\ UNCHANGED <<boot, deviceState, sNetworkState, sRelayOn, sInitialised, sRendered,
                   sBlinkTimer, todo>>

-----------------------------------------------------------------------------
(***************************************************************************)
(* Boot, on the app task.                                                  *)
(***************************************************************************)

\* AppTask::Init() returns, and the firmware with it, when a LED cannot be used.
StatusLedInit ==
    /\ boot = "leds"
    /\ \/ boot' = "board" /\ sInitialised' = TRUE
       \/ boot' = "failed" /\ UNCHANGED sInitialised
    /\ UNCHANGED <<deviceState, sNetworkState, sRelayOn, sBlinkOn, sRendered, sBlinkTimer, led,
                   todo>>

\* Board::Init() calls UpdateStatusLed() once.
BoardInit ==
    /\ boot = "board"
    /\ boot' = "running"
    /\ StatusLedSetNetworkState("app", NetworkOf(deviceState))
    /\ UNCHANGED <<deviceState, sBlinkTimer, led>>

Init ==
    /\ boot = "leds" /\ deviceState = "Disconnected"
    /\ sNetworkState = "Error" /\ sRelayOn = FALSE /\ sInitialised = FALSE
    /\ sBlinkOn = FALSE /\ sRendered = FALSE /\ sBlinkTimer = "stopped"
    /\ led = [l \in Leds |-> FALSE]
    /\ todo = [t \in Threads |-> <<>>]

Next ==
    \/ StatusLedInit
    \/ BoardInit
    \/ UpdateDeviceState
    \/ \E t \in Threads, relayOn \in BOOLEAN : StatusLedSetRelayState(t, relayOn)
    \/ \E t \in Threads : Continue(t)
    \/ BlinkTimerHandler

Spec == Init /\ [][Next]_vars

-----------------------------------------------------------------------------
(***************************************************************************)
(* Properties.                                                             *)
(***************************************************************************)

TypeOK ==
    /\ boot \in {"leds", "board", "running", "failed"}
    /\ deviceState \in DeviceStates /\ sNetworkState \in NetworkLedState
    /\ sRelayOn \in BOOLEAN /\ sInitialised \in BOOLEAN /\ sBlinkOn \in BOOLEAN
    /\ sRendered \in BOOLEAN /\ (sRendered <=> boot = "running")
    /\ sBlinkTimer \in {"stopped", "slow", "fast"}
    /\ led \in [Leds -> BOOLEAN]
    /\ DOMAIN todo = Threads

\* Between calls LED 2 says what the device state is, from boot on: dark with
\* its timer stopped once provisioned, blinking slowly while commissioning,
\* fast otherwise.  A blink that fires while the call runs cannot undo it
\* (status_led.cpp:110-144, status_led.h:22-27).  This needs AppOutranksMatter:
\* else the first render can be overtaken by a device-state event.
NetworkLedShown ==
    boot = "running" /\ AtRest =>
        IF deviceState = "Provisioned"
        THEN sBlinkTimer = "stopped" /\ ~led["network"]
        ELSE sBlinkTimer = Interval(NetworkOf(deviceState))

\* Once provisioned the RGB shows no network colour, even if a button press
\* or a blink came in the middle of the change (status_led.cpp:43-70).  This
\* needs AppOutranksMatter.
ColoursGiveWay ==
    AtRest /\ deviceState = "Provisioned" => ~led["red"] /\ ~led["blue"]

\* "green solid | relay on, commissioned" and "off | relay off, commissioned"
\* (status_led.h:25-26).  Two callers of RenderRgb() refute it: the one that
\* was preempted writes the relay state it had read before.
GreenShowsRelay ==
    AtRest /\ deviceState = "Provisioned" => led["green"] = sRelayOn
=============================================================================
