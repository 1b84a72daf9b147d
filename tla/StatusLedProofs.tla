-------------------------- MODULE StatusLedProofs --------------------------
(***************************************************************************)
(* Theorems about StatusLed.  The invariant says what the work a thread    *)
(* still has to do can consist of, given the network state, and which part *)
(* of it must be pending while an LED does not show that state yet.        *)
(***************************************************************************)
EXTENDS StatusLed, Integers, SequenceTheorems, TLAPS

\* What the rest of a call consists of.
Item ==
    [do : {"pin"}, led : Leds, from : {"on", "off", "blink", "relay"}]
        \cup [do : {"render", "blink", "stop"}]
        \cup [do : {"start"}, interval : {"slow", "fast"}]

Items(w) == {w[i] : i \in 1..Len(w)}
Work(t) == Items(todo[t])
Pending(x) == \E t \in Threads : x \in Work(t)

RgbPins(froms) == {Pin(l, from) : l \in {"red", "green", "blue"}, from \in froms}

\* The work there can be in a network state.
Allowed(network) ==
    IF network = "Paired"
    THEN {Do("stop"), Pin("network", "off"), Do("render"), Pin("red", "off"), Pin("blue", "off")}
             \cup {Pin("green", from) : from \in {"on", "off", "relay"}}
    ELSE {Do("blink"), Pin("network", "on"), Do("render"), Start(Interval(network))}
             \cup RgbPins({"on", "off", "blink"})

Booleans ==
    /\ sRelayOn \in BOOLEAN /\ sInitialised \in BOOLEAN /\ sBlinkOn \in BOOLEAN
    /\ sRendered \in BOOLEAN
TypeInv ==
    /\ TypeOK
    /\ todo \in [Threads -> Seq(Item)]

-----------------------------------------------------------------------------
(***************************************************************************)
(* Sequences of work.                                                      *)
(***************************************************************************)

LEMMA FirstItem ==
    ASSUME NEW S, NEW w \in Seq(S), w # <<>>
    PROVE  /\ Head(w) \in S /\ Tail(w) \in Seq(S)
           /\ Items(w) = {Head(w)} \cup Items(Tail(w))
<1>1. Len(w) \in Nat /\ Len(w) # 0 /\ Head(w) = w[1]
    BY EmptySeq
<1>2. /\ Tail(w) \in Seq(S) /\ Len(Tail(w)) = Len(w) - 1
      /\ \A i \in 1..Len(Tail(w)) : Tail(w)[i] = w[i + 1]
    BY HeadTailProperties
<1>3. Head(w) \in S
    BY HeadTailProperties
<1>4. Items(w) \subseteq {Head(w)} \cup Items(Tail(w))
    <2> SUFFICES ASSUME NEW i \in 1..Len(w), i # 1 PROVE w[i] \in Items(Tail(w))
        BY <1>1 DEF Items
    <2>1. i - 1 \in 1..Len(Tail(w)) /\ Tail(w)[i - 1] = w[i]
        BY <1>1, <1>2
    <2> QED
        BY <2>1 DEF Items
<1>5. {Head(w)} \cup Items(Tail(w)) \subseteq Items(w)
    <2>1. Head(w) \in Items(w)
        BY <1>1 DEF Items
    <2>2. ASSUME NEW i \in 1..Len(Tail(w)) PROVE Tail(w)[i] \in Items(w)
        <3>1. i + 1 \in 1..Len(w) /\ Tail(w)[i] = w[i + 1]
            BY <1>1, <1>2
        <3> QED
            BY <3>1 DEF Items
    <2> QED
        BY <2>1, <2>2 DEF Items
<1> QED
    BY <1>2, <1>3, <1>4, <1>5

LEMMA JoinItems ==
    ASSUME NEW S, NEW u \in Seq(S), NEW v \in Seq(S)
    PROVE  u \o v \in Seq(S) /\ Items(u \o v) = Items(u) \cup Items(v)
<1>1. /\ u \o v \in Seq(S) /\ Len(u \o v) = Len(u) + Len(v)
      /\ \A i \in 1..Len(u) + Len(v) :
             (u \o v)[i] = IF i <= Len(u) THEN u[i] ELSE v[i - Len(u)]
      /\ Len(u) \in Nat /\ Len(v) \in Nat
    BY ConcatProperties
<1>2. ASSUME NEW i \in 1..Len(u \o v) PROVE (u \o v)[i] \in Items(u) \cup Items(v)
    <2>1. CASE i <= Len(u)
        BY <1>1, <2>1 DEF Items
    <2>2. CASE ~(i <= Len(u))
        <3>1. i - Len(u) \in 1..Len(v) /\ (u \o v)[i] = v[i - Len(u)]
            BY <1>1, <2>2
        <3> QED
            BY <3>1 DEF Items
    <2> QED
        BY <2>1, <2>2
<1>3. ASSUME NEW i \in 1..Len(u) PROVE u[i] \in Items(u \o v)
    <2>1. i \in 1..Len(u \o v) /\ (u \o v)[i] = u[i]
        BY <1>1
    <2> QED
        BY <2>1 DEF Items
<1>4. ASSUME NEW i \in 1..Len(v) PROVE v[i] \in Items(u \o v)
    <2>1. i + Len(u) \in 1..Len(u \o v) /\ (u \o v)[i + Len(u)] = v[i]
        BY <1>1
    <2> QED
        BY <2>1 DEF Items
<1> QED
    BY <1>1, <1>2, <1>3, <1>4 DEF Items

LEMMA NoItems == Items(<<>>) = {}
BY DEF Items

LEMMA OneItem == ASSUME NEW a PROVE Items(<<a>>) = {a}
BY DEF Items

LEMMA TwoItems == ASSUME NEW a, NEW b PROVE Items(<<a, b>>) = {a, b}
<1>1. 1..Len(<<a, b>>) = {1, 2}
    OBVIOUS
<1> QED
    BY <1>1 DEF Items

LEMMA ThreeItems == ASSUME NEW a, NEW b, NEW c PROVE Items(<<a, b, c>>) = {a, b, c}
<1>1. 1..Len(<<a, b, c>>) = {1, 2, 3}
    OBVIOUS
<1> QED
    BY <1>1 DEF Items

LEMMA FourItems ==
    ASSUME NEW a, NEW b, NEW c, NEW d
    PROVE  Items(<<a, b, c, d>>) = {a, b, c, d}
<1>1. 1..Len(<<a, b, c, d>>) = {1, 2, 3, 4}
    OBVIOUS
<1> QED
    BY <1>1 DEF Items

LEMMA NetworkCallItems ==
    ASSUME NEW network \in NetworkLedState
    PROVE  /\ NetworkCall(network) \in Seq(Item)
           /\ NetworkCall(network) # <<>>
           /\ network = "Paired" =>
                /\ Items(NetworkCall(network))
                     = {Do("stop"), Pin("network", "off"), Do("render")}
                /\ Items(Tail(NetworkCall(network))) = {Pin("network", "off"), Do("render")}
           /\ network # "Paired" =>
                Items(NetworkCall(network))
                  = {Do("blink"), Pin("network", "on"), Do("render"), Start(Interval(network))}
<1>1. CASE network = "Paired"
    <2> DEFINE u == <<Do("stop"), Pin("network", "off"), Do("render")>>
               v == <<Pin("network", "off"), Do("render")>>
    <2>1. NetworkCall(network) = u
        BY <1>1 DEF NetworkCall
    <2>2. Do("stop") \in Item /\ Pin("network", "off") \in Item /\ Do("render") \in Item
        BY DEF Do, Pin, Item, Leds
    <2>3. u \in Seq(Item) /\ u # <<>>
        BY <2>2
    <2>4. Tail(u) = v
        OBVIOUS
    <2>5. Items(u) = {Do("stop"), Pin("network", "off"), Do("render")}
        BY Zenon, ThreeItems
    <2>6. Items(v) = {Pin("network", "off"), Do("render")}
        BY Zenon, TwoItems
    <2> QED
        BY <1>1, <2>1, <2>3, <2>4, <2>5, <2>6
<1>2. CASE network # "Paired"
    <2> DEFINE u == <<Do("blink"), Pin("network", "on"), Do("render"), Start(Interval(network))>>
    <2>1. NetworkCall(network) = u
        BY <1>2 DEF NetworkCall
    <2>2. /\ Do("blink") \in Item /\ Pin("network", "on") \in Item /\ Do("render") \in Item
          /\ Start(Interval(network)) \in Item
        BY DEF Do, Pin, Start, Interval, Item, Leds
    <2>3. u \in Seq(Item) /\ u # <<>>
        BY <2>2
    <2>4. Items(u) = {Do("blink"), Pin("network", "on"), Do("render"), Start(Interval(network))}
        BY ZenonT(60), FourItems
    <2> QED
        BY <1>2, <2>1, <2>3, <2>4
<1> QED
    BY <1>1, <1>2

LEMMA RgbItems ==
    ASSUME NEW network \in NetworkLedState
    PROVE  /\ Rgb(network) \in Seq(Item)
           /\ network = "Paired" =>
                Items(Rgb(network)) = {Pin("red", "off"), Pin("green", "relay"), Pin("blue", "off")}
           /\ Items(Rgb(network)) \subseteq Allowed(network)
<1>1. ASSUME NEW l \in Leds, NEW from \in {"off", "blink", "relay"} PROVE Pin(l, from) \in Item
    BY DEF Pin, Item
<1>2. CASE network = "Paired"
    <2> DEFINE u == <<Pin("red", "off"), Pin("green", "relay"), Pin("blue", "off")>>
    <2>1. Rgb(network) = u
        BY <1>2 DEF Rgb
    <2>2. u \in Seq(Item)
        <3>1. Pin("red", "off") \in Item /\ Pin("green", "relay") \in Item
              /\ Pin("blue", "off") \in Item
            BY <1>1 DEF Leds
        <3> QED
            BY <3>1
    <2>3. Items(u) = {Pin("red", "off"), Pin("green", "relay"), Pin("blue", "off")}
        BY Zenon, ThreeItems
    <2>4. Items(u) \subseteq Allowed(network)
        BY <1>2, <2>3 DEF Allowed
    <2> QED
        BY <2>1, <2>2, <2>3, <2>4
<1>3. CASE network = "Pairing"
    <2> DEFINE u == <<Pin("red", "off"), Pin("green", "off"), Pin("blue", "blink")>>
    <2>1. Rgb(network) = u
        BY <1>3 DEF Rgb
    <2>2. u \in Seq(Item)
        <3>1. Pin("red", "off") \in Item /\ Pin("green", "off") \in Item
              /\ Pin("blue", "blink") \in Item
            BY <1>1 DEF Leds
        <3> QED
            BY <3>1
    <2>3. Items(u) = {Pin("red", "off"), Pin("green", "off"), Pin("blue", "blink")}
        BY Zenon, ThreeItems
    <2>4. Items(u) \subseteq Allowed(network)
        BY <1>3, <2>3 DEF Allowed, RgbPins
    <2> QED
        BY <1>3, <2>1, <2>2, <2>4
<1>4. CASE network = "Error"
    <2> DEFINE u == <<Pin("red", "blink"), Pin("green", "off"), Pin("blue", "off")>>
    <2>1. Rgb(network) = u
        BY <1>4 DEF Rgb
    <2>2. u \in Seq(Item)
        <3>1. Pin("red", "blink") \in Item /\ Pin("green", "off") \in Item
              /\ Pin("blue", "off") \in Item
            BY <1>1 DEF Leds
        <3> QED
            BY <3>1
    <2>3. Items(u) = {Pin("red", "blink"), Pin("green", "off"), Pin("blue", "off")}
        BY Zenon, ThreeItems
    <2>4. Items(u) \subseteq Allowed(network)
        BY <1>4, <2>3 DEF Allowed, RgbPins
    <2> QED
        BY <1>4, <2>1, <2>2, <2>4
<1> QED
    BY <1>2, <1>3, <1>4 DEF NetworkLedState

-----------------------------------------------------------------------------
(***************************************************************************)
(* One step of a call: the first item goes, others may take its place.     *)
(***************************************************************************)

LEMMA Shrink ==
    ASSUME TypeInv, NEW t \in Threads, todo[t] # <<>>, todo' = Rest(t)
    PROVE  /\ todo' \in [Threads -> Seq(Item)]
           /\ todo'[t] = Tail(todo[t])
           /\ \A u \in Threads \ {t} : todo'[u] = todo[u]
<1>1. Tail(todo[t]) \in Seq(Item)
    BY FirstItem DEF TypeInv
<1> QED
    BY <1>1 DEF TypeInv, Rest

LEMMA Grow ==
    ASSUME TypeInv, NEW t \in Threads, todo[t] # <<>>, NEW x \in Seq(Item),
           todo' = [todo EXCEPT ![t] = x \o Tail(@)]
    PROVE  /\ todo' \in [Threads -> Seq(Item)]
           /\ todo'[t] = x \o Tail(todo[t])
           /\ Items(todo'[t]) = Items(x) \cup Items(Tail(todo[t]))
           /\ \A u \in Threads \ {t} : todo'[u] = todo[u]
<1>1. Tail(todo[t]) \in Seq(Item)
    BY FirstItem DEF TypeInv
<1>2. /\ x \o Tail(todo[t]) \in Seq(Item)
      /\ Items(x \o Tail(todo[t])) = Items(x) \cup Items(Tail(todo[t]))
    BY <1>1, JoinItems, ZenonT(60)
<1> QED
    BY <1>2 DEF TypeInv

\* The pin LoadValue has read.
Loaded(h) == Pin(h.led, IF Lit(h.from) THEN "on" ELSE "off")

LEMMA LoadValueStep ==
    ASSUME TypeInv, NEW t \in Threads, todo[t] # <<>>, LoadValue(t)
    PROVE  /\ todo' \in [Threads -> Seq(Item)]
           /\ todo'[t] = <<Loaded(Head(todo[t]))>> \o Tail(todo[t])
           /\ Items(todo'[t]) = {Loaded(Head(todo[t]))} \cup Items(Tail(todo[t]))
           /\ \A u \in Threads \ {t} : todo'[u] = todo[u]
           /\ \E from \in {"on", "off"} :
                  Loaded(Head(todo[t])) = Pin(Head(todo[t]).led, from)
<1> DEFINE h == Head(todo[t])
<1>1. h \in Item /\ h.do = "pin"
    BY FirstItem DEF TypeInv, LoadValue
<1>2. h.led \in Leds
    BY <1>1 DEF Item
<1>3. \E from \in {"on", "off"} : Loaded(h) = Pin(h.led, from)
    BY DEF Loaded
<1>4. Loaded(h) \in Item
    BY <1>2, <1>3 DEF Pin, Item
<1>5. <<Loaded(h)>> \in Seq(Item)
    BY <1>4
<1>6. Items(<<Loaded(h)>>) = {Loaded(h)}
    BY Zenon, OneItem
<1>7. todo' = [todo EXCEPT ![t] = <<Loaded(h)>> \o Tail(@)]
    BY DEF LoadValue, Loaded, TypeInv
<1> QED
    BY <1>3, <1>5, <1>6, <1>7, Grow

LEMMA RenderStep ==
    ASSUME TypeInv, NEW t \in Threads, todo[t] # <<>>, RenderRgb(t)
    PROVE  /\ todo' \in [Threads -> Seq(Item)]
           /\ \A u \in Threads \ {t} : todo'[u] = todo[u]
           /\ sInitialised =>
                  /\ todo'[t] = Rgb(sNetworkState) \o Tail(todo[t])
                  /\ Items(todo'[t]) = Items(Rgb(sNetworkState)) \cup Items(Tail(todo[t]))
<1>1. Rgb(sNetworkState) \in Seq(Item)
    BY RgbItems DEF TypeInv, TypeOK
<1>2. CASE sInitialised
    <2>1. todo' = [todo EXCEPT ![t] = Rgb(sNetworkState) \o Tail(@)]
        BY <1>2 DEF RenderRgb
    <2> QED
        BY <1>1, <2>1, Grow
<1>3. CASE ~sInitialised
    <2>1. todo' = [todo EXCEPT ![t] = <<>> \o Tail(@)]
        BY <1>3 DEF RenderRgb
    <2>2. <<>> \in Seq(Item)
        OBVIOUS
    <2> QED
        BY <1>3, <2>1, <2>2, Grow
<1> QED
    BY <1>2, <1>3

-----------------------------------------------------------------------------
(***************************************************************************)
(* Type correctness.                                                       *)
(***************************************************************************)

LEMMA BooleansStep ==
    ASSUME Booleans, [Next]_vars
    PROVE  Booleans'
<1>1. CASE StatusLedInit
    BY Zenon, <1>1 DEF Booleans, StatusLedInit
<1>2. CASE BoardInit
    BY Zenon, <1>2 DEF Booleans, BoardInit, StatusLedSetNetworkState, state
<1>3. CASE UpdateDeviceState
    BY Zenon, <1>3 DEF Booleans, UpdateDeviceState, StatusLedSetNetworkState, state
<1>4. ASSUME NEW t \in Threads, NEW relayOn \in BOOLEAN, StatusLedSetRelayState(t, relayOn)
      PROVE  Booleans'
    BY Zenon, <1>4 DEF Booleans, StatusLedSetRelayState
<1>5. ASSUME NEW t \in Threads, Continue(t) PROVE Booleans'
    BY Zenon, <1>5 DEF Booleans, Continue, LoadValue, SetPin, RenderRgb, SetBlinkOn, StartTimer,
        StopTimer, state
<1>6. CASE BlinkTimerHandler
    BY Zenon, <1>6 DEF Booleans, BlinkTimerHandler
<1>7. CASE UNCHANGED vars
    BY Zenon, <1>7 DEF Booleans, vars, state
<1> QED
    BY <1>1, <1>2, <1>3, <1>4, <1>5, <1>6, <1>7 DEF Next

\* The rest of the types, and that the first render belongs to the boot.
Kinds ==
    /\ boot \in {"leds", "board", "running", "failed"}
    /\ deviceState \in DeviceStates /\ sNetworkState \in NetworkLedState
    /\ (sRendered <=> boot = "running")
    /\ sBlinkTimer \in {"stopped", "slow", "fast"}
    /\ led \in [Leds -> BOOLEAN]
    /\ todo \in [Threads -> Seq(Item)]

LEMMA TypeSplit == TypeInv <=> Booleans /\ Kinds
BY DEF TypeInv, TypeOK, Booleans, Kinds

LEMMA NetworkOfType == \A device : NetworkOf(device) \in NetworkLedState
BY DEF NetworkOf, NetworkLedState

\* Either nothing changes, or the state is taken over and the call begins.
LEMMA SetNetworkCases ==
    ASSUME TypeInv, NEW t \in Threads, NEW network \in NetworkLedState,
           StatusLedSetNetworkState(t, network)
    PROVE  /\ todo' \in [Threads -> Seq(Item)]
           /\ \/ sRendered /\ network = sNetworkState /\ UNCHANGED <<state, todo>>
              \/ /\ sRendered' = TRUE /\ sNetworkState' = network
                 /\ sInitialised => todo'[t] = NetworkCall(network)
                 /\ \A u \in Threads \ {t} : todo'[u] = todo[u]
                 /\ UNCHANGED <<sRelayOn, sInitialised, sBlinkOn>>
<1>1. NetworkCall(network) \in Seq(Item) /\ <<>> \in Seq(Item)
    BY NetworkCallItems
<1>2. CASE sRendered /\ network = sNetworkState
    BY <1>2 DEF StatusLedSetNetworkState, TypeInv
<1>3. CASE ~(sRendered /\ network = sNetworkState)
    BY <1>1, <1>3 DEF StatusLedSetNetworkState, TypeInv
<1> QED
    BY <1>2, <1>3

LEMMA TypeStep == ASSUME TypeInv, [Next]_vars PROVE TypeInv'
<1> SUFFICES Kinds'
    <2>1. Booleans'
        BY BooleansStep, TypeSplit
    <2> QED
        BY <2>1 DEF TypeInv, TypeOK, Booleans, Kinds
<1>0. Kinds
    BY TypeSplit
<1>1. CASE StatusLedInit
    BY <1>0, <1>1 DEF Kinds, StatusLedInit
<1>2. CASE BoardInit
    <2>1. NetworkOf(deviceState) \in NetworkLedState /\ "app" \in Threads
        BY NetworkOfType DEF Threads
    <2>2. StatusLedSetNetworkState("app", NetworkOf(deviceState)) /\ boot' = "running"
          /\ UNCHANGED <<deviceState, sBlinkTimer, led>>
        BY <1>2 DEF BoardInit
    <2>3. todo' \in [Threads -> Seq(Item)] /\ sRendered' /\ sNetworkState' \in NetworkLedState
        BY <1>0, <2>1, <2>2, SetNetworkCases DEF Kinds, state
    <2> QED
        BY <1>0, <2>2, <2>3 DEF Kinds
<1>3. CASE UpdateDeviceState
    <2>1. PICK device \in DeviceStates :
              deviceState' = device /\ StatusLedSetNetworkState("matter", NetworkOf(device))
        BY <1>3 DEF UpdateDeviceState
    <2>2. NetworkOf(device) \in NetworkLedState /\ "matter" \in Threads
        BY NetworkOfType DEF Threads
    <2>3. boot = "running" /\ UNCHANGED <<boot, sBlinkTimer, led>>
        BY <1>3 DEF UpdateDeviceState
    <2>4. todo' \in [Threads -> Seq(Item)] /\ sRendered' /\ sNetworkState' \in NetworkLedState
        BY <1>0, <2>1, <2>2, <2>3, SetNetworkCases DEF Kinds, state
    <2> QED
        BY <1>0, <2>1, <2>3, <2>4 DEF Kinds
<1>4. ASSUME NEW t \in Threads, NEW relayOn \in BOOLEAN, StatusLedSetRelayState(t, relayOn)
      PROVE  Kinds'
    <2>1. <<Do("render")>> \in Seq(Item)
        BY DEF Do, Item
    <2> QED
        BY <1>0, <1>4, <2>1 DEF Kinds, StatusLedSetRelayState
<1>5. ASSUME NEW t \in Threads, Continue(t) PROVE Kinds'
    <2>1. todo[t] # <<>> /\ UNCHANGED <<boot, deviceState>> /\ Head(todo[t]) \in Item
        BY <1>0, <1>5, FirstItem DEF Continue, Kinds
    <2>2. CASE LoadValue(t)
        BY <1>0, <2>1, <2>2, LoadValueStep DEF Kinds, LoadValue, state
    <2>3. CASE RenderRgb(t)
        BY <1>0, <2>1, <2>3, RenderStep DEF Kinds, RenderRgb, state
    <2>4. CASE SetPin(t)
        <3>1. led' \in [Leds -> BOOLEAN]
            <4>1. (Head(todo[t]).from = "on") \in BOOLEAN
                BY Zenon
            <4> QED
                BY <1>0, <2>4, <4>1 DEF Kinds, SetPin
        <3> QED
            BY <1>0, <2>1, <2>4, <3>1, Shrink DEF Kinds, SetPin, state
    <2>5. CASE SetBlinkOn(t)
        BY <1>0, <2>1, <2>5, Shrink DEF Kinds, SetBlinkOn
    <2>6. CASE StartTimer(t)
        <3>1. Head(todo[t]).interval \in {"slow", "fast"}
            BY <2>1, <2>6 DEF StartTimer, Item
        <3> QED
            BY <1>0, <2>1, <2>6, <3>1, Shrink DEF Kinds, StartTimer, state
    <2>7. CASE StopTimer(t)
        BY <1>0, <2>1, <2>7, Shrink DEF Kinds, StopTimer, state
    <2> QED
        BY <1>5, <2>2, <2>3, <2>4, <2>5, <2>6, <2>7 DEF Continue
<1>6. CASE BlinkTimerHandler
    <2>1. led' \in [Leds -> BOOLEAN]
        <3>1. /\ (~sBlinkOn) \in BOOLEAN /\ (sNetworkState = "Error" /\ ~sBlinkOn) \in BOOLEAN
              /\ (sNetworkState = "Paired" /\ sRelayOn) \in BOOLEAN
              /\ (sNetworkState = "Pairing" /\ ~sBlinkOn) \in BOOLEAN
            BY Zenon
        <3> QED
            BY <1>6, <3>1 DEF BlinkTimerHandler, Leds
    <2> QED
        BY <1>0, <1>6, <2>1 DEF Kinds, BlinkTimerHandler
<1>7. CASE UNCHANGED vars
    BY <1>0, <1>7 DEF Kinds, vars, state
<1> QED
    BY <1>1, <1>2, <1>3, <1>4, <1>5, <1>6, <1>7 DEF Next

LEMMA InitType == Init => TypeInv
<1> SUFFICES ASSUME Init PROVE TypeInv
    OBVIOUS
<1>1. Booleans
    BY Zenon DEF Init, Booleans
<1>2. Kinds
    BY DEF Init, Kinds, DeviceStates, NetworkLedState
<1> QED
    BY <1>1, <1>2, TypeSplit

\* Every variable keeps its kind, and the first render happens at boot.
THEOREM TypeCorrect == Spec => []TypeOK
<1>1. TypeInv /\ [Next]_vars => TypeInv'
    BY TypeStep
<1>2. TypeInv => TypeOK
    BY DEF TypeInv
<1> QED
    BY InitType, <1>1, <1>2, PTL DEF Spec

-----------------------------------------------------------------------------
(***************************************************************************)
(* What is pending, and what it is good for.                               *)
(***************************************************************************)

\* Before the boot call nothing is pending; then the network state is what the
\* device state asks for.  Only one call changes either, and the app task has
\* none of its own while it lasts.
BootInv ==
    /\ boot # "running" => deviceState = "Disconnected" /\ \A t \in Threads : todo[t] = <<>>
    /\ boot = "board" => sInitialised
    /\ boot = "running" => sInitialised /\ sNetworkState = NetworkOf(deviceState)

WorkInv ==
    boot = "running" => \A t \in Threads :
        /\ Work(t) \subseteq Allowed(sNetworkState)
        /\ todo[t] # <<>> => Do("stop") \notin Items(Tail(todo[t]))
        /\ Do("stop") \in Work(t) => Pin("network", "off") \in Work(t)

PairedInv ==
    boot = "running" /\ sNetworkState = "Paired" =>
        /\ sBlinkTimer = "stopped" \/ Pending(Do("stop"))
        /\ ~led["network"] \/ Pending(Pin("network", "off"))
        /\ \A l \in {"red", "blue"} :
               ~led[l] \/ Pending(Do("render")) \/ Pending(Pin(l, "off"))

BlinkInv ==
    boot = "running" /\ sNetworkState # "Paired" =>
        \/ sBlinkTimer = Interval(sNetworkState)
        \/ Pending(Start(Interval(sNetworkState)))

Inv == TypeInv /\ BootInv /\ WorkInv /\ PairedInv /\ BlinkInv

\* Which items are which.
LEMMA Distinct ==
    /\ \A l, from : Do("stop") # Pin(l, from) /\ Do("render") # Pin(l, from)
    /\ \A l, from : Do("blink") # Pin(l, from)
    /\ \A i, l, from : Start(i) # Pin(l, from)
    /\ \A i : Start(i) # Do("stop") /\ Start(i) # Do("render") /\ Start(i) # Do("blink")
    /\ Do("stop") # Do("render") /\ Do("stop") # Do("blink") /\ Do("render") # Do("blink")
    /\ \A k, l, from, other : Pin(k, from) = Pin(l, other) => k = l /\ from = other
<1>1. \A l, from : Pin(l, from).do = "pin" /\ Pin(l, from).led = l /\ Pin(l, from).from = from
    BY DEF Pin
<1>2. \A i : Start(i).do = "start"
    BY DEF Start
<1>3. \A what : Do(what).do = what
    BY DEF Do
<1> QED
    BY <1>1, <1>2, <1>3

-----------------------------------------------------------------------------
(***************************************************************************)
(* A call begins.                                                          *)
(***************************************************************************)

\* StatusLedSetNetworkState(), called when no work is left over.
LEMMA NetworkCallBegins ==
    ASSUME TypeInv, sInitialised, NEW t \in Threads, NEW network \in NetworkLedState,
           \A u \in Threads : todo[u] = <<>>,
           sRendered' = TRUE, sNetworkState' = network,
           todo'[t] = NetworkCall(network),
           \A u \in Threads \ {t} : todo'[u] = todo[u]
    PROVE  WorkInv' /\ PairedInv' /\ BlinkInv'
<1> DEFINE w == NetworkCall(network)
<1>1. \A u \in Threads \ {t} : Work(u)' = {} /\ todo'[u] = <<>>
    BY NoItems DEF Work
<1>2. Work(t)' = Items(w) /\ w # <<>>
    BY NetworkCallItems DEF Work
<1>3. CASE network = "Paired"
    <2>1. /\ Items(w) = {Do("stop"), Pin("network", "off"), Do("render")}
          /\ Items(Tail(w)) = {Pin("network", "off"), Do("render")}
        BY <1>3, NetworkCallItems
    <2>2. Items(w) \subseteq Allowed(network)
        BY <1>3, <2>1 DEF Allowed
    <2>3. Do("stop") \notin Items(Tail(w))
        BY <2>1, Distinct
    <2>4. Pin("network", "off") \in Items(w)
        BY <2>1
    <2>5. WorkInv'
        BY <1>1, <1>2, <2>2, <2>3, <2>4 DEF WorkInv
    <2>6. /\ Pending(Do("stop"))' /\ Pending(Pin("network", "off"))'
          /\ Pending(Do("render"))'
        BY <1>2, <2>1 DEF Pending
    <2>7. PairedInv'
        BY <2>6 DEF PairedInv
    <2>8. BlinkInv'
        BY <1>3 DEF BlinkInv
    <2> QED
        BY <2>5, <2>7, <2>8
<1>4. CASE network # "Paired"
    <2>1. Items(w) = {Do("blink"), Pin("network", "on"), Do("render"), Start(Interval(network))}
        BY <1>4, NetworkCallItems
    <2>2. Items(w) \subseteq Allowed(network)
        BY <1>4, <2>1 DEF Allowed
    <2>3. Do("stop") \notin Items(w)
        BY <2>1, Distinct
    <2>4. Do("stop") \notin Items(Tail(w))
        BY <1>2, <2>3, NetworkCallItems, FirstItem
    <2>5. WorkInv'
        BY <1>1, <1>2, <2>2, <2>3, <2>4 DEF WorkInv
    <2>6. Pending(Start(Interval(network)))'
        BY <1>2, <2>1 DEF Pending
    <2>7. BlinkInv'
        BY <2>6 DEF BlinkInv, Pending
    <2>8. PairedInv'
        BY <1>4 DEF PairedInv
    <2> QED
        BY <2>5, <2>7, <2>8
<1> QED
    BY <1>3, <1>4

\* A render that is added to a thread with no work takes nothing away.
LEMMA RelayCallBegins ==
    ASSUME Inv, NEW t \in Threads, NEW relayOn \in BOOLEAN, StatusLedSetRelayState(t, relayOn)
    PROVE  WorkInv' /\ PairedInv' /\ BlinkInv'
<1>1. /\ boot = "running" /\ todo[t] = <<>>
      /\ UNCHANGED <<boot, sNetworkState, sBlinkTimer, led>>
    BY DEF StatusLedSetRelayState
<1>2. todo'[t] = <<Do("render")>> /\ \A u \in Threads \ {t} : todo'[u] = todo[u]
    BY DEF StatusLedSetRelayState, Inv, TypeInv
<1>3. Work(t)' = {Do("render")}
    BY <1>2, OneItem DEF Work
<1>4. Work(t) = {}
    BY <1>1, NoItems DEF Work
<1>5. \A u \in Threads \ {t} : Work(u)' = Work(u)
    BY <1>2 DEF Work
<1>6. \A x : Pending(x) => Pending(x)'
    BY <1>4, <1>5 DEF Pending
<1>7. Do("render") \in Allowed(sNetworkState) /\ Do("stop") # Do("render")
    BY Distinct DEF Allowed
<1>8. Items(Tail(<<Do("render")>>)) = {}
    <2>1. Tail(<<Do("render")>>) = <<>>
        OBVIOUS
    <2> QED
        BY Zenon, <2>1, NoItems
<1>9. WorkInv'
    <2> SUFFICES ASSUME NEW u \in Threads
                 PROVE  /\ Work(u)' \subseteq Allowed(sNetworkState)
                        /\ todo'[u] # <<>> => Do("stop") \notin Items(Tail(todo'[u]))
                        /\ Do("stop") \in Work(u)' => Pin("network", "off") \in Work(u)'
        BY <1>1 DEF WorkInv
    <2>1. CASE u = t
        BY <1>2, <1>3, <1>7, <1>8, <2>1
    <2>2. CASE u # t
        BY <1>1, <1>2, <1>5, <2>2 DEF Inv, WorkInv
    <2> QED
        BY <2>1, <2>2
<1>10. PairedInv'
    BY <1>1, <1>6 DEF Inv, PairedInv
<1>11. BlinkInv'
    BY <1>1, <1>6 DEF Inv, BlinkInv
<1> QED
    BY <1>9, <1>10, <1>11

-----------------------------------------------------------------------------
(***************************************************************************)
(* A call goes on.                                                         *)
(***************************************************************************)

\* The first item of a thread's work and what follows it.
First(t) == Head(todo[t])
Others(t) == Items(Tail(todo[t]))

LEMMA FirstOthers ==
    ASSUME Inv, NEW t \in Threads, todo[t] # <<>>
    PROVE  /\ boot = "running" /\ sInitialised
           /\ First(t) \in Item
           /\ Work(t) = {First(t)} \cup Others(t)
           /\ Work(t) \subseteq Allowed(sNetworkState)
           /\ Do("stop") \notin Others(t)
<1>1. todo[t] \in Seq(Item)
    BY DEF Inv, TypeInv
<1>2. boot = "running" /\ sInitialised
    BY DEF Inv, BootInv
<1>3. First(t) \in Item /\ Work(t) = {First(t)} \cup Others(t)
    BY <1>1, FirstItem DEF First, Others, Work
<1> QED
    BY <1>2, <1>3 DEF Inv, WorkInv, Others

\* If what replaces the first item is allowed, so is the work that is left.
LEMMA WorkStep ==
    ASSUME Inv, NEW t \in Threads, todo[t] # <<>>, NEW new,
           new \subseteq Allowed(sNetworkState), Do("stop") \notin new,
           todo' \in [Threads -> Seq(Item)],
           Work(t)' = new \cup Others(t),
           \A u \in Threads \ {t} : todo'[u] = todo[u],
           UNCHANGED <<boot, sNetworkState>>
    PROVE  /\ WorkInv'
           /\ \A x : Pending(x) => Pending(x)' \/ x = First(t)
           /\ \A x \in new : Pending(x)'
<1>1. /\ boot = "running" /\ Work(t) = {First(t)} \cup Others(t)
      /\ Others(t) \subseteq Allowed(sNetworkState) /\ Do("stop") \notin Others(t)
    BY FirstOthers
<1>2. \A u \in Threads \ {t} : Work(u)' = Work(u)
    BY DEF Work
<1>3. WorkInv'
    <2> SUFFICES ASSUME NEW u \in Threads
                 PROVE  /\ Work(u)' \subseteq Allowed(sNetworkState)
                        /\ todo'[u] # <<>> => Do("stop") \notin Items(Tail(todo'[u]))
                        /\ Do("stop") \in Work(u)' => Pin("network", "off") \in Work(u)'
        BY DEF WorkInv
    <2>1. CASE u = t
        <3>1. Work(t)' \subseteq Allowed(sNetworkState) /\ Do("stop") \notin Work(t)'
            BY <1>1
        <3>2. ASSUME todo'[t] # <<>> PROVE Items(Tail(todo'[t])) \subseteq Work(t)'
            <4>1. todo'[t] \in Seq(Item)
                OBVIOUS
            <4>2. Items(todo'[t]) = {Head(todo'[t])} \cup Items(Tail(todo'[t]))
                BY <3>2, <4>1, FirstItem
            <4> QED
                BY <4>2 DEF Work
        <3> QED
            BY <2>1, <3>1, <3>2
    <2>2. CASE u # t
        BY <1>1, <1>2, <2>2 DEF Inv, WorkInv
    <2> QED
        BY <2>1, <2>2
<1>4. ASSUME NEW x, Pending(x) PROVE Pending(x)' \/ x = First(t)
    BY <1>1, <1>2, <1>4 DEF Pending
<1>5. ASSUME NEW x \in new PROVE Pending(x)'
    BY <1>5 DEF Pending
<1> QED
    BY <1>3, <1>4, <1>5

\* The first item goes and nothing takes its place.
LEMMA PopStep ==
    ASSUME Inv, NEW t \in Threads, todo[t] # <<>>, todo' = Rest(t),
           UNCHANGED <<boot, sNetworkState>>
    PROVE  /\ WorkInv'
           /\ \A x : Pending(x) => Pending(x)' \/ x = First(t)
<1> DEFINE new == {}
<1>1. /\ todo' \in [Threads -> Seq(Item)]
      /\ todo'[t] = Tail(todo[t])
      /\ \A u \in Threads \ {t} : todo'[u] = todo[u]
    BY Shrink DEF Inv
<1>2. Work(t)' = new \cup Others(t)
    BY <1>1 DEF Others, Work
<1>3. new \subseteq Allowed(sNetworkState) /\ Do("stop") \notin new
    OBVIOUS
<1> HIDE DEF new
<1> QED
    BY <1>1, <1>2, <1>3, WorkStep

\* Nothing but the step of its own item takes a promise away.
LEMMA PromisesStep ==
    ASSUME Inv, NEW t \in Threads, todo[t] # <<>>,
           UNCHANGED <<boot, sNetworkState, sBlinkTimer, led>>,
           \A x : Pending(x) => Pending(x)' \/ x = First(t),
           First(t) # Do("stop"),
           \A i : First(t) # Start(i),
           First(t) # Pin("network", "off"),
           sNetworkState = "Paired" => \A l \in {"red", "blue"} :
               First(t) \in {Do("render"), Pin(l, "off")} => Pending(Pin(l, "off"))'
    PROVE  PairedInv' /\ BlinkInv'
<1>1. BlinkInv'
    BY DEF Inv, BlinkInv
<1>2. ASSUME boot' = "running", sNetworkState' = "Paired", NEW l \in {"red", "blue"}
      PROVE  ~led'[l] \/ Pending(Do("render"))' \/ Pending(Pin(l, "off"))'
    BY <1>2 DEF Inv, PairedInv
<1>3. ASSUME boot' = "running", sNetworkState' = "Paired"
      PROVE  /\ sBlinkTimer' = "stopped" \/ Pending(Do("stop"))'
             /\ ~led'["network"] \/ Pending(Pin("network", "off"))'
    BY <1>3 DEF Inv, PairedInv
<1>4. PairedInv'
    BY <1>2, <1>3 DEF PairedInv
<1> QED
    BY <1>1, <1>4
\* What a first item of a kind must be in a network state.
LEMMA AllowedShapes ==
    ASSUME NEW network, NEW h \in Allowed(network)
    PROVE  /\ h.do = "pin" /\ network = "Paired" =>
                  \/ h \in {Pin("network", "off"), Pin("red", "off"), Pin("blue", "off")}
                  \/ \E from \in {"on", "off", "relay"} : h = Pin("green", from)
           /\ h.do = "pin" /\ network # "Paired" =>
                  \/ h = Pin("network", "on")
                  \/ \E l \in {"red", "green", "blue"}, from \in {"on", "off", "blink"} :
                         h = Pin(l, from)
           /\ h.do = "render" => h = Do("render")
           /\ h.do = "blink" => h = Do("blink")
           /\ h.do = "start" => network # "Paired" /\ h = Start(Interval(network))
           /\ h.do = "stop" => network = "Paired" /\ h = Do("stop")
<1>1. \A l, from : Pin(l, from).do = "pin"
    BY DEF Pin
<1>2. \A i : Start(i).do = "start"
    BY DEF Start
<1>3. \A what : Do(what).do = what
    BY DEF Do
<1>4. CASE network = "Paired"
    BY <1>1, <1>2, <1>3, <1>4 DEF Allowed
<1>5. CASE network # "Paired"
    BY <1>1, <1>2, <1>3, <1>5 DEF Allowed, RgbPins
<1> QED
    BY <1>4, <1>5

LEMMA LoadValueKeeps ==
    ASSUME Inv, NEW t \in Threads, todo[t] # <<>>, LoadValue(t), UNCHANGED boot
    PROVE  WorkInv' /\ PairedInv' /\ BlinkInv'
<1> DEFINE h == First(t)
<1>1. h \in Allowed(sNetworkState) /\ h.do = "pin" /\ h.from \in {"blink", "relay"}
    BY FirstOthers DEF LoadValue, First
<1>2. /\ todo' \in [Threads -> Seq(Item)]
      /\ Work(t)' = {Loaded(h)} \cup Others(t)
      /\ \A u \in Threads \ {t} : todo'[u] = todo[u]
      /\ \E from \in {"on", "off"} : Loaded(h) = Pin(h.led, from)
    BY LoadValueStep DEF Inv, First, Others, Work
<1>3. UNCHANGED <<boot, sNetworkState, sBlinkTimer, led>>
    BY DEF LoadValue, state
<1>4. \A l, from : Pin(l, from).led = l /\ Pin(l, from).from = from
    BY DEF Pin
<1>5. Loaded(h) \in Allowed(sNetworkState)
    <2>1. CASE sNetworkState = "Paired"
        <3>1. h = Pin("green", "relay")
            BY <1>1, <1>4, <2>1, AllowedShapes
        <3>2. h.led = "green"
            BY <1>4, <3>1
        <3> QED
            BY <1>2, <2>1, <3>2 DEF Allowed
    <2>2. CASE sNetworkState # "Paired"
        <3>1. \E l \in {"red", "green", "blue"} : h = Pin(l, "blink")
            BY <1>1, <1>4, <2>2, AllowedShapes
        <3>2. h.led \in {"red", "green", "blue"}
            BY <1>4, <3>1
        <3> QED
            BY <1>2, <2>2, <3>2 DEF Allowed, RgbPins
    <2> QED
        BY <2>1, <2>2
<1>6. Do("stop") \notin {Loaded(h)}
    BY <1>2, Distinct
<1>7. WorkInv' /\ \A x : Pending(x) => Pending(x)' \/ x = h
    BY <1>2, <1>3, <1>5, <1>6, WorkStep
<1>8. /\ h # Do("stop") /\ h # Do("render") /\ \A i : h # Start(i)
      /\ \A l : h # Pin(l, "off")
    <2>1. h # Do("stop") /\ h # Do("render") /\ \A i : h # Start(i)
        BY <1>1 DEF Do, Start
    <2> QED
        BY <1>1, <1>4, <2>1
<1> QED
    BY <1>3, <1>7, <1>8, PromisesStep

\* While provisioned every pin but green's is written dark.
LEMMA SetPinKeeps ==
    ASSUME Inv, NEW t \in Threads, todo[t] # <<>>, SetPin(t), UNCHANGED boot
    PROVE  WorkInv' /\ PairedInv' /\ BlinkInv'
<1> DEFINE h == First(t)
<1>1. h \in Allowed(sNetworkState) /\ h.do = "pin"
    BY FirstOthers DEF SetPin, First
<1>2. todo' = Rest(t)
    BY DEF SetPin
<1>3. UNCHANGED <<boot, sNetworkState, sBlinkTimer>>
    BY DEF SetPin, state
<1>4. WorkInv' /\ \A x : Pending(x) => Pending(x)' \/ x = h
    BY <1>2, <1>3, PopStep
<1>5. h # Do("stop") /\ h # Do("render") /\ \A i : h # Start(i)
    BY <1>1 DEF Do, Start
<1>6. BlinkInv'
    BY <1>3, <1>4, <1>5 DEF Inv, BlinkInv
<1>7. ASSUME sNetworkState = "Paired", NEW l \in {"network", "red", "blue"}
      PROVE  \/ ~led'[l]
             \/ led'[l] = led[l] /\ h # Pin(l, "off")
    <2>1. led' = [led EXCEPT ![h.led] = (h.from = "on")] /\ led \in [Leds -> BOOLEAN]
        BY DEF SetPin, First, Inv, TypeInv, TypeOK
    <2>2. /\ Pin(l, "off").led = l /\ Pin(l, "off").from = "off"
          /\ \A from : Pin("green", from).led = "green"
        BY DEF Pin
    <2>3. h.led = l => h.from = "off"
        <3>1. \A k, from : Pin(k, from).led = k /\ Pin(k, from).from = from
            BY DEF Pin
        <3> QED
            BY <1>1, <1>7, <3>1, AllowedShapes
    <2>4. CASE h.led = l
        BY <2>1, <2>3, <2>4 DEF Leds
    <2>5. CASE h.led # l
        BY <2>1, <2>2, <2>5 DEF Leds
    <2> QED
        BY <2>4, <2>5
<1>8. PairedInv'
    <2> SUFFICES ASSUME boot = "running", sNetworkState = "Paired"
                 PROVE  /\ sBlinkTimer' = "stopped" \/ Pending(Do("stop"))'
                        /\ ~led'["network"] \/ Pending(Pin("network", "off"))'
                        /\ \A l \in {"red", "blue"} :
                               ~led'[l] \/ Pending(Do("render"))' \/ Pending(Pin(l, "off"))'
        BY <1>3 DEF PairedInv
    <2>1. PairedInv
        BY DEF Inv
    <2>2. sBlinkTimer' = "stopped" \/ Pending(Do("stop"))'
        BY <1>3, <1>4, <1>5, <2>1 DEF PairedInv
    <2>3. ~led'["network"] \/ Pending(Pin("network", "off"))'
        BY <1>4, <1>7, <2>1 DEF PairedInv
    <2>4. ASSUME NEW l \in {"red", "blue"}
          PROVE  ~led'[l] \/ Pending(Do("render"))' \/ Pending(Pin(l, "off"))'
        BY <1>4, <1>5, <1>7, <2>1 DEF PairedInv
    <2> QED
        BY <2>2, <2>3, <2>4
<1> QED
    BY <1>4, <1>6, <1>8

LEMMA RenderKeeps ==
    ASSUME Inv, NEW t \in Threads, todo[t] # <<>>, RenderRgb(t), UNCHANGED boot
    PROVE  WorkInv' /\ PairedInv' /\ BlinkInv'
<1> DEFINE h == First(t)
           new == Items(Rgb(sNetworkState))
<1>1. h \in Allowed(sNetworkState) /\ h.do = "render" /\ sInitialised
    BY FirstOthers DEF RenderRgb, First
<1>2. /\ todo' \in [Threads -> Seq(Item)]
      /\ Work(t)' = new \cup Others(t)
      /\ \A u \in Threads \ {t} : todo'[u] = todo[u]
    BY <1>1, RenderStep DEF Inv, Others, Work
<1>3. UNCHANGED <<boot, sNetworkState, sBlinkTimer, led>>
    BY DEF RenderRgb, state
<1>4. sNetworkState \in NetworkLedState
    BY DEF Inv, TypeInv, TypeOK
<1>5. new \subseteq Allowed(sNetworkState)
    BY <1>4, RgbItems
<1>6. Do("stop") \notin new
    <2>1. CASE sNetworkState = "Paired"
        BY <1>4, <2>1, RgbItems, Distinct
    <2>2. CASE sNetworkState # "Paired"
        <3>1. Do("stop").do = "stop"
            BY DEF Do
        <3> QED
            BY <1>5, <2>2, <3>1, AllowedShapes
    <2> QED
        BY <2>1, <2>2
<1>7. /\ WorkInv' /\ \A x : Pending(x) => Pending(x)' \/ x = h
      /\ \A x \in new : Pending(x)'
    BY <1>2, <1>3, <1>5, <1>6, WorkStep
<1>8. h # Do("stop") /\ (\A i : h # Start(i)) /\ h # Pin("network", "off")
    BY <1>1 DEF Do, Start, Pin
<1>9. sNetworkState = "Paired" => \A l \in {"red", "blue"} : Pending(Pin(l, "off"))'
    BY <1>4, <1>7, RgbItems
<1> QED
    BY <1>3, <1>7, <1>8, <1>9, PromisesStep

LEMMA SetBlinkOnKeeps ==
    ASSUME Inv, NEW t \in Threads, todo[t] # <<>>, SetBlinkOn(t), UNCHANGED boot
    PROVE  WorkInv' /\ PairedInv' /\ BlinkInv'
<1>1. First(t).do = "blink"
    BY DEF SetBlinkOn, First
<1>2. todo' = Rest(t)
    BY DEF SetBlinkOn
<1>3. UNCHANGED <<boot, sNetworkState, sBlinkTimer, led>>
    BY DEF SetBlinkOn
<1>4. WorkInv' /\ \A x : Pending(x) => Pending(x)' \/ x = First(t)
    BY <1>2, <1>3, PopStep
<1>5. /\ First(t) # Do("stop") /\ First(t) # Do("render") /\ \A i : First(t) # Start(i)
      /\ \A l : First(t) # Pin(l, "off")
    BY <1>1 DEF Do, Start, Pin
<1> QED
    BY <1>3, <1>4, <1>5, PromisesStep

LEMMA StartTimerKeeps ==
    ASSUME Inv, NEW t \in Threads, todo[t] # <<>>, StartTimer(t), UNCHANGED boot
    PROVE  WorkInv' /\ PairedInv' /\ BlinkInv'
<1>1. First(t) \in Allowed(sNetworkState) /\ First(t).do = "start"
    BY FirstOthers DEF StartTimer, First
<1>2. todo' = Rest(t)
    BY DEF StartTimer
<1>3. UNCHANGED <<boot, sNetworkState>> /\ sBlinkTimer' = First(t).interval
    BY DEF StartTimer, state, First
<1>4. WorkInv'
    BY <1>2, <1>3, PopStep
<1>5. sNetworkState # "Paired" /\ First(t) = Start(Interval(sNetworkState))
    BY <1>1, AllowedShapes
<1>6. sBlinkTimer' = Interval(sNetworkState)
    BY <1>3, <1>5 DEF Start
<1>7. BlinkInv' /\ PairedInv'
    BY <1>3, <1>5, <1>6 DEF BlinkInv, PairedInv
<1> QED
    BY <1>4, <1>7

LEMMA StopTimerKeeps ==
    ASSUME Inv, NEW t \in Threads, todo[t] # <<>>, StopTimer(t), UNCHANGED boot
    PROVE  WorkInv' /\ PairedInv' /\ BlinkInv'
<1>1. First(t) \in Allowed(sNetworkState) /\ First(t).do = "stop"
    BY FirstOthers DEF StopTimer, First
<1>2. todo' = Rest(t)
    BY DEF StopTimer
<1>3. UNCHANGED <<boot, sNetworkState, led>> /\ sBlinkTimer' = "stopped"
    BY DEF StopTimer, state
<1>4. WorkInv' /\ \A x : Pending(x) => Pending(x)' \/ x = First(t)
    BY <1>2, <1>3, PopStep
<1>5. sNetworkState = "Paired" /\ First(t) = Do("stop")
    BY <1>1, AllowedShapes
<1>6. First(t) # Do("render") /\ \A l : First(t) # Pin(l, "off")
    BY <1>5, Distinct
<1>7. PairedInv'
    BY <1>3, <1>4, <1>6 DEF PairedInv, Inv
<1>8. BlinkInv'
    BY <1>3, <1>5 DEF BlinkInv
<1> QED
    BY <1>4, <1>7, <1>8

LEMMA ContinueKeeps ==
    ASSUME Inv, NEW t \in Threads, Continue(t)
    PROVE  BootInv' /\ WorkInv' /\ PairedInv' /\ BlinkInv'
<1>1. todo[t] # <<>> /\ UNCHANGED <<boot, deviceState>>
    BY DEF Continue
<1>2. boot = "running" /\ sInitialised
    BY <1>1, FirstOthers
<1>3. UNCHANGED <<sNetworkState, sInitialised>>
    BY DEF Continue, LoadValue, SetPin, RenderRgb, SetBlinkOn, StartTimer, StopTimer, state
<1>4. BootInv'
    BY <1>1, <1>2, <1>3 DEF BootInv, Inv
<1>5. WorkInv' /\ PairedInv' /\ BlinkInv'
    BY <1>1, LoadValueKeeps, SetPinKeeps, RenderKeeps, SetBlinkOnKeeps, StartTimerKeeps,
        StopTimerKeeps DEF Continue
<1> QED
    BY <1>4, <1>5

-----------------------------------------------------------------------------
(***************************************************************************)
(* The invariant.                                                          *)
(***************************************************************************)

\* The interrupt writes the network LED only while the timer runs; then either
\* the network is not Paired or the pin is still to be put out.
LEMMA BlinkKeeps ==
    ASSUME Inv, BlinkTimerHandler
    PROVE  BootInv' /\ WorkInv' /\ PairedInv' /\ BlinkInv'
<1>1. /\ UNCHANGED <<boot, deviceState, sNetworkState, sInitialised, sBlinkTimer, todo>>
      /\ sBlinkTimer # "stopped"
    BY DEF BlinkTimerHandler
<1>2. BootInv' /\ WorkInv' /\ BlinkInv'
    BY <1>1 DEF Inv, BootInv, WorkInv, BlinkInv, Pending, Work
<1>3. \A x : Pending(x)' <=> Pending(x)
    BY <1>1 DEF Pending, Work
<1>4. ASSUME boot = "running", sNetworkState = "Paired"
      PROVE  /\ Pending(Do("stop")) /\ Pending(Pin("network", "off"))
             /\ ~led'["red"] /\ ~led'["blue"]
    <2>1. Pending(Do("stop"))
        BY <1>1, <1>4 DEF Inv, PairedInv
    <2>2. Pending(Pin("network", "off"))
        BY <1>4, <2>1 DEF Inv, WorkInv, Pending
    <2>3. ~led'["red"] /\ ~led'["blue"]
        BY <1>4 DEF BlinkTimerHandler, Leds
    <2> QED
        BY <2>1, <2>2, <2>3
<1>5. PairedInv'
    BY <1>1, <1>3, <1>4 DEF PairedInv
<1> QED
    BY <1>2, <1>5

\* The boot call, and every later change of the device state: the Matter thread
\* makes it while the app task is in no call.
LEMMA BoardInitKeeps ==
    ASSUME Inv, BoardInit
    PROVE  BootInv' /\ WorkInv' /\ PairedInv' /\ BlinkInv'
<1> DEFINE network == NetworkOf(deviceState)
<1>1. network \in NetworkLedState /\ "app" \in Threads
    BY NetworkOfType DEF Threads
<1>2. /\ boot = "board" /\ boot' = "running" /\ UNCHANGED deviceState
      /\ StatusLedSetNetworkState("app", network)
    BY DEF BoardInit
<1>3. sInitialised /\ ~sRendered /\ \A u \in Threads : todo[u] = <<>>
    BY <1>2 DEF Inv, BootInv, TypeInv, TypeOK
<1>4. /\ sRendered' = TRUE /\ sNetworkState' = network
      /\ todo'["app"] = NetworkCall(network)
      /\ \A u \in Threads \ {"app"} : todo'[u] = todo[u]
      /\ UNCHANGED sInitialised
    BY <1>1, <1>2, <1>3, SetNetworkCases DEF Inv
<1>5. WorkInv' /\ PairedInv' /\ BlinkInv'
    BY <1>1, <1>3, <1>4, NetworkCallBegins DEF Inv
<1>6. BootInv'
    BY <1>2, <1>3, <1>4 DEF BootInv
<1> QED
    BY <1>5, <1>6

LEMMA UpdateDeviceStateKeeps ==
    ASSUME AppOutranksMatter, Inv, UpdateDeviceState
    PROVE  BootInv' /\ WorkInv' /\ PairedInv' /\ BlinkInv'
<1>1. /\ boot = "running" /\ todo["matter"] = <<>> /\ todo["app"] = <<>>
      /\ UNCHANGED <<boot, sBlinkTimer, led>>
    BY DEF UpdateDeviceState, MayRun
<1>2. PICK device \in DeviceStates :
          deviceState' = device /\ StatusLedSetNetworkState("matter", NetworkOf(device))
    BY DEF UpdateDeviceState
<1> DEFINE network == NetworkOf(device)
<1>3. network \in NetworkLedState /\ "matter" \in Threads
    BY NetworkOfType DEF Threads
<1>4. sInitialised /\ \A u \in Threads : todo[u] = <<>>
    BY <1>1 DEF Inv, BootInv, Threads
<1>5. \/ sRendered /\ network = sNetworkState /\ UNCHANGED <<state, todo>>
      \/ /\ sRendered' = TRUE /\ sNetworkState' = network
         /\ sInitialised => todo'["matter"] = NetworkCall(network)
         /\ \A u \in Threads \ {"matter"} : todo'[u] = todo[u]
         /\ UNCHANGED <<sRelayOn, sInitialised, sBlinkOn>>
    BY <1>2, <1>3, SetNetworkCases DEF Inv
<1>6. CASE sRendered /\ network = sNetworkState /\ UNCHANGED <<state, todo>>
    <2>1. UNCHANGED <<sNetworkState, sInitialised, todo>>
        BY <1>6 DEF state
    <2>2. WorkInv' /\ PairedInv' /\ BlinkInv'
        BY <1>1, <2>1 DEF Inv, WorkInv, PairedInv, BlinkInv, Pending, Work
    <2>3. BootInv'
        BY <1>1, <1>2, <1>4, <1>6, <2>1 DEF BootInv
    <2> QED
        BY <2>2, <2>3
<1>7. CASE /\ sRendered' = TRUE /\ sNetworkState' = network
           /\ sInitialised => todo'["matter"] = NetworkCall(network)
           /\ \A u \in Threads \ {"matter"} : todo'[u] = todo[u]
           /\ UNCHANGED <<sRelayOn, sInitialised, sBlinkOn>>
    <2>1. WorkInv' /\ PairedInv' /\ BlinkInv'
        BY <1>3, <1>4, <1>7, NetworkCallBegins DEF Inv
    <2>2. BootInv'
        BY <1>1, <1>2, <1>4, <1>7 DEF BootInv
    <2> QED
        BY <2>1, <2>2
<1> QED
    BY <1>5, <1>6, <1>7

LEMMA InvStep == ASSUME AppOutranksMatter, Inv, [Next]_vars PROVE Inv'
<1> SUFFICES BootInv' /\ WorkInv' /\ PairedInv' /\ BlinkInv'
    BY TypeStep DEF Inv
<1>1. CASE StatusLedInit
    <2>1. boot = "leds" /\ boot' \in {"board", "failed"} /\ UNCHANGED todo
          /\ (boot' = "board" => sInitialised') /\ UNCHANGED deviceState
        BY <1>1 DEF StatusLedInit
    <2>2. boot' # "running"
        BY <2>1
    <2>3. WorkInv' /\ PairedInv' /\ BlinkInv'
        BY <2>2 DEF WorkInv, PairedInv, BlinkInv
    <2>4. BootInv'
        BY <2>1, <2>2 DEF Inv, BootInv
    <2> QED
        BY <2>3, <2>4
<1>2. CASE BoardInit
    BY <1>2, BoardInitKeeps
<1>3. CASE UpdateDeviceState
    BY <1>3, UpdateDeviceStateKeeps
<1>4. ASSUME NEW t \in Threads, NEW relayOn \in BOOLEAN, StatusLedSetRelayState(t, relayOn)
      PROVE  BootInv' /\ WorkInv' /\ PairedInv' /\ BlinkInv'
    <2>1. BootInv'
        BY <1>4 DEF Inv, BootInv, StatusLedSetRelayState
    <2> QED
        BY <1>4, <2>1, RelayCallBegins
<1>5. ASSUME NEW t \in Threads, Continue(t)
      PROVE  BootInv' /\ WorkInv' /\ PairedInv' /\ BlinkInv'
    BY <1>5, ContinueKeeps
<1>6. CASE BlinkTimerHandler
    BY <1>6, BlinkKeeps
<1>7. CASE UNCHANGED vars
    BY <1>7 DEF Inv, BootInv, WorkInv, PairedInv, BlinkInv, Pending, Work, vars, state
<1> QED
    BY <1>1, <1>2, <1>3, <1>4, <1>5, <1>6, <1>7 DEF Next

LEMMA InvHolds == AppOutranksMatter => (Spec => []Inv)
<1>1. Init => Inv
    <2> SUFFICES ASSUME Init PROVE BootInv /\ WorkInv /\ PairedInv /\ BlinkInv
        BY InitType DEF Inv
    <2>1. boot = "leds" /\ deviceState = "Disconnected" /\ \A t \in Threads : todo[t] = <<>>
        BY DEF Init
    <2> QED
        BY <2>1 DEF BootInv, WorkInv, PairedInv, BlinkInv
<1>2. AppOutranksMatter /\ Inv /\ [Next]_vars => Inv'
    BY InvStep
<1>3. SUFFICES ASSUME AppOutranksMatter PROVE Spec => []Inv
    OBVIOUS
<1>4. Inv /\ [Next]_vars => Inv'
    BY <1>2, <1>3
<1> QED
    BY <1>1, <1>4, PTL DEF Spec

-----------------------------------------------------------------------------
(***************************************************************************)
(* The theorems.  Both need the app task to outrank the Matter thread; with *)
(* every call returned, nothing is pending and the promises are kept.      *)
(***************************************************************************)

LEMMA AtRestNothingPending == AtRest => \A x : ~Pending(x)
BY NoItems DEF AtRest, Pending, Work

\* Between calls LED 2 shows the device state, whatever was preempted where
\* (StatusLedSetNetworkState, BlinkTimerHandler).
THEOREM NetworkCorrect == AppOutranksMatter => (Spec => []NetworkLedShown)
<1>1. Inv => NetworkLedShown
    <2> SUFFICES ASSUME Inv, boot = "running", AtRest
                 PROVE  IF deviceState = "Provisioned"
                        THEN sBlinkTimer = "stopped" /\ ~led["network"]
                        ELSE sBlinkTimer = Interval(NetworkOf(deviceState))
        BY DEF NetworkLedShown
    <2>1. sNetworkState = NetworkOf(deviceState) /\ \A x : ~Pending(x)
        BY AtRestNothingPending DEF Inv, BootInv
    <2>2. deviceState = "Provisioned" <=> sNetworkState = "Paired"
        BY <2>1 DEF NetworkOf
    <2>3. CASE deviceState = "Provisioned"
        BY <2>1, <2>2, <2>3 DEF Inv, PairedInv
    <2>4. CASE deviceState # "Provisioned"
        BY <2>1, <2>2, <2>4 DEF Inv, BlinkInv
    <2> QED
        BY <2>3, <2>4
<1> QED
    BY <1>1, InvHolds, PTL

\* Once provisioned no network colour is left on the RGB (RenderRgb).
THEOREM ColoursCorrect == AppOutranksMatter => (Spec => []ColoursGiveWay)
<1>1. Inv => ColoursGiveWay
    <2> SUFFICES ASSUME Inv, AtRest, deviceState = "Provisioned"
                 PROVE  ~led["red"] /\ ~led["blue"]
        BY DEF ColoursGiveWay
    <2>1. \A x : ~Pending(x)
        BY AtRestNothingPending
    <2>2. CASE boot = "running"
        <3>1. sNetworkState = "Paired"
            BY <2>2 DEF Inv, BootInv, NetworkOf
        <3> QED
            BY <2>1, <2>2, <3>1 DEF Inv, PairedInv
    <2>3. CASE boot # "running"
        BY <2>3 DEF Inv, BootInv
    <2> QED
        BY <2>2, <2>3
<1> QED
    BY <1>1, InvHolds, PTL
=============================================================================
