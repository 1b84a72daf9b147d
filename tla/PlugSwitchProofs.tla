-------------------------- MODULE PlugSwitchProofs --------------------------
(***************************************************************************)
(* Theorems about PlugSwitch, for every depth of the queue, every trip     *)
(* count, every outcome of the calls that can fail and both behaviours of  *)
(* the attribute store.                                                    *)
(***************************************************************************)
EXTENDS PlugSwitch, TLAPS

\* How far the boot sequence has come: the Matter thread exists only after
\* StartServer(), which RelayInit() precedes.
Booted ==
    /\ pc[Matter] = "down" <=> pc[App] \in {"init", "start", "halted"}
    /\ pc[Matter] = "restore" => pc[App] = "await"
    /\ pc[App] = "init" => relayPin = FALSE /\ sOn = FALSE /\ sRelayOn = FALSE
    /\ pc[App] \in {"init", "halted"} \/ sInitialised

\* The app task has moved sOn, or a lambda has not read it yet: a write of
\* the attribute with the current value is still to come.
WriteOwed == lambdas > 0 \/ pc[App] \in {"led", "reread", "ledAgain", "sched"}

\* The Matter thread is about to bring the attribute and sOn together itself.
MatterWill ==
    \/ pc[Matter] \in {"down", "restore"}
    \/ pc[Matter] = "set" /\ arg[Matter] = sOn
    \/ pc[Matter] \in {"pin", "son"}

AttributeInv ==
    /\ ~fault /\ onOff # sOn => WriteOwed \/ MatterWill
    /\ pc[Matter] \in {"pin", "son"} => arg[Matter] = onOff

Alone == ~overlap => ~(Updating(App) /\ Updating(Matter))

\* While the threads do not overlap, the pin runs ahead of sOn only between
\* the two writes of one RelaySet().
PinInv ==
    ~overlap =>
        /\ \A t \in Thread : pc[t] = "son" => relayPin = arg[t]
        /\ (\A t \in Thread : pc[t] # "son") => relayPin = sOn

\* The LED's copy in turn runs behind sOn only inside one relay update.
LedInv ==
    ~overlap /\ ~fault =>
        /\ \A t \in Thread : pc[t] \in {"led", "ledAgain"} => arg[t] = sOn
        /\ (\A t \in Thread : pc[t] \notin {"son", "led"}) => sRelayOn = sOn

Inv == TypeOK /\ Booted /\ AttributeInv /\ Alone /\ PinInv /\ LedInv
-----------------------------------------------------------------------------
\* A tactic-free way to name the actions: a step is one of these.
LEMMA StepCases ==
    ASSUME [Next]_vars
    PROVE  \/ \E t \in Thread : RelaySetPin(t) /\ Observe /\ Note
           \/ \E t \in Thread : RelaySetOn(t) /\ Observe /\ Note
           \/ \E t \in Thread : RelaySetLed(t) /\ Observe /\ Note
           \/ \E t \in Thread : LedAgain(t) /\ Observe /\ Note
           \/ RelayInit /\ Observe /\ Note
           \/ StartServer /\ Observe /\ Note
           \/ ServerReady /\ Observe /\ Note
           \/ ButtonReread /\ Observe /\ Note
           \/ UpdateClusterState /\ Observe /\ Note
           \/ RestoreOnOff /\ Observe /\ Note
           \/ RunLambda /\ Observe /\ Note
           \/ WriteOnOff /\ Observe /\ Note
           \/ MeterPoll /\ Note
           \/ ButtonEventHandler /\ Observe /\ Note
           \/ (\E c \in DOMAIN CommandValue : DispatchServerCommand(c)) /\ Observe /\ Note
           \/ ChangeLoad /\ Observe /\ Note
           \/ BecomeCalm /\ Observe /\ Note
           \/ PowerCut
           \/ UNCHANGED vars
BY DEF Next, AppStep, MatterStep, Request, RelaySetStep, Thread

\* The meter's window and the ghosts keep their types.
LEMMA ObserveType ==
    ASSUME TypeOK, Observe
    PROVE  drawn' \in SUBSET BOOLEAN /\ drawn' # {}
<1>1. (heavy' /\ relayPin') \in BOOLEAN
    BY Zenon
<1> QED
    BY <1>1 DEF TypeOK, Observe

LEMMA NoteType == ASSUME Note PROVE overlap' \in BOOLEAN
BY Zenon DEF Note

LEMMA TypeStep == Inv /\ [Next]_vars => TypeOK'
<1> SUFFICES ASSUME Inv, [Next]_vars PROVE TypeOK'
    OBVIOUS
<1> USE SwitchAssumption DEF Inv, TypeOK, AppPc, MatterPc, InRelaySet, Thread, App, Matter
<1>1. ASSUME NEW t \in Thread, RelaySetPin(t) /\ Observe /\ Note PROVE TypeOK'
    <2>1. drawn' \in SUBSET BOOLEAN /\ drawn' # {} /\ overlap' \in BOOLEAN
        BY <1>1, ObserveType, NoteType
    <2>2. CASE relayPin' = arg[t] /\ Goto(t, "son") /\ UNCHANGED fault
        BY <1>1, <2>1, <2>2 DEF RelaySetPin, Goto, world
    <2>3. CASE Goto(t, Return(t)) /\ fault' = (fault \/ t = Matter) /\ UNCHANGED relayPin
        <3>1. fault' \in BOOLEAN
            BY Zenon, <2>3
        <3> QED
            BY <1>1, <2>1, <2>3, <3>1 DEF RelaySetPin, Return, Goto, world
    <2> QED
        BY <1>1, <2>2, <2>3 DEF RelaySetPin
<1>2. ASSUME NEW t \in Thread, RelaySetOn(t) /\ Observe /\ Note PROVE TypeOK'
    BY <1>2 DEF RelaySetOn, Goto, Observe, Note, Updating, device, threads, world
<1>3. ASSUME NEW t \in Thread, RelaySetLed(t) /\ Observe /\ Note PROVE TypeOK'
    BY <1>3 DEF RelaySetLed, Return, Goto, Observe, Note, Updating, device, threads, world
<1>4. ASSUME NEW t \in Thread, LedAgain(t) /\ Observe /\ Note PROVE TypeOK'
    BY <1>4 DEF LedAgain, Goto, Observe, Note, Updating, device, threads, world
<1>5. CASE RelayInit /\ Observe /\ Note
    <2>1. drawn' \in SUBSET BOOLEAN /\ drawn' # {} /\ overlap' \in BOOLEAN
        BY <1>5, ObserveType, NoteType
    <2>2. relayPin' \in BOOLEAN /\ sInitialised' \in BOOLEAN /\ sOn' \in BOOLEAN
        BY Zenon, <1>5 DEF RelayInit
    <2>3. pc' = [pc EXCEPT ![App] = "start"] \/ pc' = [pc EXCEPT ![App] = "halted"]
        BY <1>5 DEF RelayInit, Goto
    <2>4. UNCHANGED <<sRelayOn, onOff, lambdas, overSamples, arg, task, world, fault>>
        BY <1>5 DEF RelayInit
    <2> QED
        BY <2>1, <2>2, <2>3, <2>4 DEF world
<1>6. CASE StartServer /\ Observe /\ Note
    BY <1>6 DEF StartServer, Observe, Note, Updating, device, threads, world
<1>7. CASE ServerReady /\ Observe /\ Note
    BY <1>7 DEF ServerReady, Goto, Observe, Note, Updating, device, threads, world
<1>8. CASE ButtonReread /\ Observe /\ Note
    BY <1>8 DEF ButtonReread, Call, Goto, Observe, Note, Updating, device, threads, world
<1>9. CASE UpdateClusterState /\ Observe /\ Note
    BY <1>9 DEF UpdateClusterState, Goto, Observe, Note, Updating, device, threads, world
<1>10. CASE RestoreOnOff /\ Observe /\ Note
    <2>1. drawn' \in SUBSET BOOLEAN /\ drawn' # {} /\ overlap' \in BOOLEAN
        BY <1>10, ObserveType, NoteType
    <2>2. fault' \in BOOLEAN
        BY Zenon, <1>10 DEF RestoreOnOff
    <2> QED
        BY <1>10, <2>1, <2>2 DEF RestoreOnOff, Call, Goto, device, world
<1>11. CASE RunLambda /\ Observe /\ Note
    BY <1>11 DEF RunLambda, Call, Goto, Observe, Note, Updating, device, threads, world
<1>12. CASE WriteOnOff /\ Observe /\ Note
    <2>1. drawn' \in SUBSET BOOLEAN /\ drawn' # {} /\ overlap' \in BOOLEAN
        BY <1>12, ObserveType, NoteType
    <2>2. fault' \in BOOLEAN
        BY Zenon, <1>12 DEF WriteOnOff
    <2>3. onOff' \in BOOLEAN
        BY <1>12 DEF WriteOnOff
    <2>4. pc' = [pc EXCEPT ![Matter] = "pin"] \/ pc' = [pc EXCEPT ![Matter] = "idle"]
        BY <1>12 DEF WriteOnOff, Goto
    <2>5. UNCHANGED <<relayPin, sInitialised, sOn, sRelayOn, lambdas, overSamples, arg, task,
                      world>>
        BY <1>12 DEF WriteOnOff
    <2> QED
        BY <2>1, <2>2, <2>3, <2>4, <2>5 DEF world
<1>13. CASE MeterPoll /\ Note
    <2>1. drawn' \in SUBSET BOOLEAN /\ drawn' # {} /\ overlap' \in BOOLEAN
        <3>1. (heavy /\ relayPin) \in BOOLEAN
            BY Zenon
        <3> QED
            BY <1>13, <3>1, NoteType DEF MeterPoll
    <2>2. PICK above \in drawn : CheckOverPower(above)
        BY <1>13 DEF MeterPoll
    <2>3. UNCHANGED <<device, lambdas, world, fault>>
        BY <1>13 DEF MeterPoll
    <2>4. overSamples' \in 0..(OverPowerSamples - 1)
        <3>1. \/ overSamples' = 0
              \/ overSamples' = overSamples + 1 /\ overSamples + 1 < OverPowerSamples
            BY Zenon, <2>2 DEF CheckOverPower
        <3> QED
            BY <3>1
    <2>5. pc' = pc \/ pc' = [pc EXCEPT ![App] = "pin"]
        BY <2>2 DEF CheckOverPower, Call, Goto
    <2>6. arg' = arg \/ arg' = [arg EXCEPT ![App] = FALSE]
        BY <2>2 DEF CheckOverPower, Call
    <2>7. task' = task \/ task' = "trip"
        BY <2>2 DEF CheckOverPower
    <2>8. pc' \in [Thread -> AppPc \cup MatterPc] /\ pc'[App] \in AppPc /\ pc'[Matter] \in MatterPc
        BY <2>5
    <2>9. arg' \in [Thread -> BOOLEAN]
        BY <2>6
    <2> QED
        BY <2>1, <2>3, <2>4, <2>7, <2>8, <2>9 DEF device, world
<1>14. CASE ButtonEventHandler /\ Observe /\ Note
    BY <1>14 DEF ButtonEventHandler, Call, Goto, Observe, Note, Updating, device, threads, world
<1>15. ASSUME NEW c \in DOMAIN CommandValue, DispatchServerCommand(c) /\ Observe /\ Note PROVE TypeOK'
    <2>1. drawn' \in SUBSET BOOLEAN /\ drawn' # {} /\ overlap' \in BOOLEAN
        BY <1>15, ObserveType, NoteType
    <2>2. CommandValue[c] \in BOOLEAN
        <3>1. c \in {"Off", "On", "Toggle"}
            BY <1>15 DEF CommandValue
        <3>2. /\ CommandValue["Off"] = FALSE
              /\ CommandValue["On"] = TRUE
              /\ CommandValue["Toggle"] = ~onOff
            BY DEF CommandValue
        <3> QED
            BY Zenon, <3>1, <3>2
    <2> QED
        BY <1>15, <2>1, <2>2 DEF DispatchServerCommand, Call, Goto, device, world
<1>16. CASE ChangeLoad /\ Observe /\ Note
    BY <1>16 DEF ChangeLoad, Observe, Note, Updating, device, threads, world
<1>17. CASE BecomeCalm /\ Observe /\ Note
    BY <1>17 DEF BecomeCalm, Observe, Note, Updating, device, threads, world
<1>18. CASE PowerCut
    <2>1. drawn' \in SUBSET BOOLEAN /\ drawn' # {}
        BY <1>18 DEF PowerCut
    <2>2. pc' \in [Thread -> AppPc \cup MatterPc] /\ pc'[App] \in AppPc /\ pc'[Matter] \in MatterPc
        BY <1>18 DEF PowerCut
    <2>3. /\ relayPin' \in BOOLEAN /\ sInitialised' \in BOOLEAN /\ sOn' \in BOOLEAN
          /\ sRelayOn' \in BOOLEAN /\ fault' \in BOOLEAN /\ overlap' \in BOOLEAN
        BY Zenon, <1>18 DEF PowerCut
    <2>4. arg' \in [Thread -> BOOLEAN]
        BY <1>18 DEF PowerCut
    <2>5. lambdas' = 0 /\ overSamples' = 0 /\ task' = "none" /\ UNCHANGED <<onOff, world>>
        BY <1>18 DEF PowerCut
    <2> QED
        BY <2>1, <2>2, <2>3, <2>4, <2>5 DEF world
<1>19. CASE UNCHANGED vars
    BY <1>19 DEF vars, device, threads, world, ghosts, Updating
<1> QED
    BY <1>1, <1>2, <1>3, <1>4, <1>5, <1>6, <1>7, <1>8, <1>9, <1>10, <1>11, <1>12, <1>13, <1>14, <1>15, <1>16, <1>17, <1>18, <1>19, StepCases

LEMMA BootedStep == Inv /\ [Next]_vars => Booted'
<1> SUFFICES ASSUME Inv, [Next]_vars PROVE Booted'
    OBVIOUS
<1> USE SwitchAssumption DEF Inv, TypeOK, Booted, InRelaySet, Thread, App, Matter
<1>1. ASSUME NEW t \in Thread, RelaySetPin(t) /\ Observe /\ Note PROVE Booted'
    BY <1>1 DEF RelaySetPin, Return, Outcomes, Goto, Observe, Note, Updating, device, threads, world
<1>2. ASSUME NEW t \in Thread, RelaySetOn(t) /\ Observe /\ Note PROVE Booted'
    BY <1>2 DEF RelaySetOn, Goto, Observe, Note, Updating, device, threads, world
<1>3. ASSUME NEW t \in Thread, RelaySetLed(t) /\ Observe /\ Note PROVE Booted'
    BY <1>3 DEF RelaySetLed, Return, Goto, Observe, Note, Updating, device, threads, world
<1>4. ASSUME NEW t \in Thread, LedAgain(t) /\ Observe /\ Note PROVE Booted'
    BY <1>4 DEF LedAgain, Goto, Observe, Note, Updating, device, threads, world
<1>5. CASE RelayInit /\ Observe /\ Note
    BY <1>5 DEF RelayInit, Outcomes, Goto, Observe, Note, Updating, device, threads, world
<1>6. CASE StartServer /\ Observe /\ Note
    BY <1>6 DEF StartServer, Observe, Note, Updating, device, threads, world
<1>7. CASE ServerReady /\ Observe /\ Note
    BY <1>7 DEF ServerReady, Goto, Observe, Note, Updating, device, threads, world
<1>8. CASE ButtonReread /\ Observe /\ Note
    BY <1>8 DEF ButtonReread, Call, Goto, Observe, Note, Updating, device, threads, world
<1>9. CASE UpdateClusterState /\ Observe /\ Note
    BY <1>9 DEF UpdateClusterState, Goto, Observe, Note, Updating, device, threads, world
<1>10. CASE RestoreOnOff /\ Observe /\ Note
    BY <1>10 DEF RestoreOnOff, Outcomes, Call, Goto, Observe, Note, Updating, device, threads, world
<1>11. CASE RunLambda /\ Observe /\ Note
    BY <1>11 DEF RunLambda, Call, Goto, Observe, Note, Updating, device, threads, world
<1>12. CASE WriteOnOff /\ Observe /\ Note
    BY <1>12 DEF WriteOnOff, Goto, Observe, Note, Updating, device, threads, world
<1>13. CASE MeterPoll /\ Note
    BY <1>13 DEF MeterPoll, CheckOverPower, Call, Goto, Observe, Note, Updating, device, threads, world
<1>14. CASE ButtonEventHandler /\ Observe /\ Note
    BY <1>14 DEF ButtonEventHandler, Call, Goto, Observe, Note, Updating, device, threads, world
<1>15. ASSUME NEW c \in DOMAIN CommandValue, DispatchServerCommand(c) /\ Observe /\ Note PROVE Booted'
    BY <1>15 DEF DispatchServerCommand, CommandValue, Call, Goto, Observe, Note, Updating, device, threads, world
<1>16. CASE ChangeLoad /\ Observe /\ Note
    BY <1>16 DEF ChangeLoad, Observe, Note, Updating, device, threads, world
<1>17. CASE BecomeCalm /\ Observe /\ Note
    BY <1>17 DEF BecomeCalm, Observe, Note, Updating, device, threads, world
<1>18. CASE PowerCut
    BY <1>18 DEF PowerCut, Observe, Note, Updating, device, threads, world
<1>19. CASE UNCHANGED vars
    BY <1>19 DEF vars, device, threads, world, ghosts, Updating
<1> QED
    BY <1>1, <1>2, <1>3, <1>4, <1>5, <1>6, <1>7, <1>8, <1>9, <1>10, <1>11, <1>12, <1>13, <1>14, <1>15, <1>16, <1>17, <1>18, <1>19, StepCases

LEMMA AttributeStep == Inv /\ [Next]_vars => AttributeInv'
<1> SUFFICES ASSUME Inv, [Next]_vars PROVE AttributeInv'
    OBVIOUS
<1> USE SwitchAssumption DEF Inv, TypeOK, Booted, AttributeInv, WriteOwed, MatterWill, Thread, App, Matter
<1>1. ASSUME NEW t \in Thread, RelaySetPin(t) /\ Observe /\ Note PROVE AttributeInv'
    BY <1>1 DEF RelaySetPin, Return, Outcomes, Goto, Observe, Note, Updating, device, threads, world
<1>2. ASSUME NEW t \in Thread, RelaySetOn(t) /\ Observe /\ Note PROVE AttributeInv'
    BY <1>2 DEF RelaySetOn, Goto, Observe, Note, Updating, device, threads, world
<1>3. ASSUME NEW t \in Thread, RelaySetLed(t) /\ Observe /\ Note PROVE AttributeInv'
    BY <1>3 DEF RelaySetLed, Return, Goto, Observe, Note, Updating, device, threads, world
<1>4. ASSUME NEW t \in Thread, LedAgain(t) /\ Observe /\ Note PROVE AttributeInv'
    BY <1>4 DEF LedAgain, Goto, Observe, Note, Updating, device, threads, world
<1>5. CASE RelayInit /\ Observe /\ Note
    BY <1>5 DEF RelayInit, Outcomes, Goto, Observe, Note, Updating, device, threads, world
<1>6. CASE StartServer /\ Observe /\ Note
    BY <1>6 DEF StartServer, Observe, Note, Updating, device, threads, world
<1>7. CASE ServerReady /\ Observe /\ Note
    BY <1>7 DEF ServerReady, Goto, Observe, Note, Updating, device, threads, world
<1>8. CASE ButtonReread /\ Observe /\ Note
    BY <1>8 DEF ButtonReread, Call, Goto, Observe, Note, Updating, device, threads, world
<1>9. CASE UpdateClusterState /\ Observe /\ Note
    BY <1>9 DEF UpdateClusterState, Goto, Observe, Note, Updating, device, threads, world
<1>10. CASE RestoreOnOff /\ Observe /\ Note
    BY <1>10 DEF RestoreOnOff, Outcomes, Call, Goto, Observe, Note, Updating, device, threads, world
<1>11. CASE RunLambda /\ Observe /\ Note
    BY <1>11 DEF RunLambda, Call, Goto, Observe, Note, Updating, device, threads, world
<1>12. CASE WriteOnOff /\ Observe /\ Note
    BY <1>12 DEF WriteOnOff, Goto, Observe, Note, Updating, device, threads, world
<1>13. CASE MeterPoll /\ Note
    BY <1>13 DEF MeterPoll, CheckOverPower, Call, Goto, Observe, Note, Updating, device, threads, world
<1>14. CASE ButtonEventHandler /\ Observe /\ Note
    BY <1>14 DEF ButtonEventHandler, Call, Goto, Observe, Note, Updating, device, threads, world
<1>15. ASSUME NEW c \in DOMAIN CommandValue, DispatchServerCommand(c) /\ Observe /\ Note PROVE AttributeInv'
    BY <1>15 DEF DispatchServerCommand, CommandValue, Call, Goto, Observe, Note, Updating, device, threads, world
<1>16. CASE ChangeLoad /\ Observe /\ Note
    BY <1>16 DEF ChangeLoad, Observe, Note, Updating, device, threads, world
<1>17. CASE BecomeCalm /\ Observe /\ Note
    BY <1>17 DEF BecomeCalm, Observe, Note, Updating, device, threads, world
<1>18. CASE PowerCut
    BY <1>18 DEF PowerCut, Observe, Note, Updating, device, threads, world
<1>19. CASE UNCHANGED vars
    BY <1>19 DEF vars, device, threads, world, ghosts, Updating
<1> QED
    BY <1>1, <1>2, <1>3, <1>4, <1>5, <1>6, <1>7, <1>8, <1>9, <1>10, <1>11, <1>12, <1>13, <1>14, <1>15, <1>16, <1>17, <1>18, <1>19, StepCases

LEMMA AloneStep == Inv /\ [Next]_vars => Alone'
<1> SUFFICES ASSUME Inv, [Next]_vars PROVE Alone'
    OBVIOUS
<1> USE SwitchAssumption DEF Inv, TypeOK, Booted, Alone, Thread, App, Matter
<1>1. ASSUME NEW t \in Thread, RelaySetPin(t) /\ Observe /\ Note PROVE Alone'
    BY <1>1 DEF RelaySetPin, Return, Outcomes, Goto, Observe, Note, Updating, device, threads, world
<1>2. ASSUME NEW t \in Thread, RelaySetOn(t) /\ Observe /\ Note PROVE Alone'
    BY <1>2 DEF RelaySetOn, Goto, Observe, Note, Updating, device, threads, world
<1>3. ASSUME NEW t \in Thread, RelaySetLed(t) /\ Observe /\ Note PROVE Alone'
    BY <1>3 DEF RelaySetLed, Return, Goto, Observe, Note, Updating, device, threads, world
<1>4. ASSUME NEW t \in Thread, LedAgain(t) /\ Observe /\ Note PROVE Alone'
    BY <1>4 DEF LedAgain, Goto, Observe, Note, Updating, device, threads, world
<1>5. CASE RelayInit /\ Observe /\ Note
    BY <1>5 DEF RelayInit, Outcomes, Goto, Observe, Note, Updating, device, threads, world
<1>6. CASE StartServer /\ Observe /\ Note
    BY <1>6 DEF StartServer, Observe, Note, Updating, device, threads, world
<1>7. CASE ServerReady /\ Observe /\ Note
    BY <1>7 DEF ServerReady, Goto, Observe, Note, Updating, device, threads, world
<1>8. CASE ButtonReread /\ Observe /\ Note
    BY <1>8 DEF ButtonReread, Call, Goto, Observe, Note, Updating, device, threads, world
<1>9. CASE UpdateClusterState /\ Observe /\ Note
    BY <1>9 DEF UpdateClusterState, Goto, Observe, Note, Updating, device, threads, world
<1>10. CASE RestoreOnOff /\ Observe /\ Note
    BY <1>10 DEF RestoreOnOff, Outcomes, Call, Goto, Observe, Note, Updating, device, threads, world
<1>11. CASE RunLambda /\ Observe /\ Note
    BY <1>11 DEF RunLambda, Call, Goto, Observe, Note, Updating, device, threads, world
<1>12. CASE WriteOnOff /\ Observe /\ Note
    BY <1>12 DEF WriteOnOff, Goto, Observe, Note, Updating, device, threads, world
<1>13. CASE MeterPoll /\ Note
    BY <1>13 DEF MeterPoll, CheckOverPower, Call, Goto, Observe, Note, Updating, device, threads, world
<1>14. CASE ButtonEventHandler /\ Observe /\ Note
    BY <1>14 DEF ButtonEventHandler, Call, Goto, Observe, Note, Updating, device, threads, world
<1>15. ASSUME NEW c \in DOMAIN CommandValue, DispatchServerCommand(c) /\ Observe /\ Note PROVE Alone'
    BY <1>15 DEF DispatchServerCommand, CommandValue, Call, Goto, Observe, Note, Updating, device, threads, world
<1>16. CASE ChangeLoad /\ Observe /\ Note
    BY <1>16 DEF ChangeLoad, Observe, Note, Updating, device, threads, world
<1>17. CASE BecomeCalm /\ Observe /\ Note
    BY <1>17 DEF BecomeCalm, Observe, Note, Updating, device, threads, world
<1>18. CASE PowerCut
    BY <1>18 DEF PowerCut, Observe, Note, Updating, device, threads, world
<1>19. CASE UNCHANGED vars
    BY <1>19 DEF vars, device, threads, world, ghosts, Updating
<1> QED
    BY <1>1, <1>2, <1>3, <1>4, <1>5, <1>6, <1>7, <1>8, <1>9, <1>10, <1>11, <1>12, <1>13, <1>14, <1>15, <1>16, <1>17, <1>18, <1>19, StepCases

LEMMA PinStep == Inv /\ [Next]_vars => PinInv'
<1> SUFFICES ASSUME Inv, [Next]_vars PROVE PinInv'
    OBVIOUS
<1> USE SwitchAssumption DEF Inv, TypeOK, Booted, Alone, PinInv, Thread, App, Matter
<1>1. ASSUME NEW t \in Thread, RelaySetPin(t) /\ Observe /\ Note PROVE PinInv'
    BY <1>1 DEF RelaySetPin, Return, Outcomes, Goto, Observe, Note, Updating, device, threads, world
<1>2. ASSUME NEW t \in Thread, RelaySetOn(t) /\ Observe /\ Note PROVE PinInv'
    BY <1>2 DEF RelaySetOn, Goto, Observe, Note, Updating, device, threads, world
<1>3. ASSUME NEW t \in Thread, RelaySetLed(t) /\ Observe /\ Note PROVE PinInv'
    BY <1>3 DEF RelaySetLed, Return, Goto, Observe, Note, Updating, device, threads, world
<1>4. ASSUME NEW t \in Thread, LedAgain(t) /\ Observe /\ Note PROVE PinInv'
    BY <1>4 DEF LedAgain, Goto, Observe, Note, Updating, device, threads, world
<1>5. CASE RelayInit /\ Observe /\ Note
    BY <1>5 DEF RelayInit, Outcomes, Goto, Observe, Note, Updating, device, threads, world
<1>6. CASE StartServer /\ Observe /\ Note
    BY <1>6 DEF StartServer, Observe, Note, Updating, device, threads, world
<1>7. CASE ServerReady /\ Observe /\ Note
    BY <1>7 DEF ServerReady, Goto, Observe, Note, Updating, device, threads, world
<1>8. CASE ButtonReread /\ Observe /\ Note
    BY <1>8 DEF ButtonReread, Call, Goto, Observe, Note, Updating, device, threads, world
<1>9. CASE UpdateClusterState /\ Observe /\ Note
    BY <1>9 DEF UpdateClusterState, Goto, Observe, Note, Updating, device, threads, world
<1>10. CASE RestoreOnOff /\ Observe /\ Note
    BY <1>10 DEF RestoreOnOff, Outcomes, Call, Goto, Observe, Note, Updating, device, threads, world
<1>11. CASE RunLambda /\ Observe /\ Note
    BY <1>11 DEF RunLambda, Call, Goto, Observe, Note, Updating, device, threads, world
<1>12. CASE WriteOnOff /\ Observe /\ Note
    BY <1>12, ZenonT(60) DEF WriteOnOff, Goto, Observe, Note, Updating, device, threads, world
<1>13. CASE MeterPoll /\ Note
    BY <1>13 DEF MeterPoll, CheckOverPower, Call, Goto, Observe, Note, Updating, device, threads, world
<1>14. CASE ButtonEventHandler /\ Observe /\ Note
    BY <1>14 DEF ButtonEventHandler, Call, Goto, Observe, Note, Updating, device, threads, world
<1>15. ASSUME NEW c \in DOMAIN CommandValue, DispatchServerCommand(c) /\ Observe /\ Note PROVE PinInv'
    BY <1>15 DEF DispatchServerCommand, CommandValue, Call, Goto, Observe, Note, Updating, device, threads, world
<1>16. CASE ChangeLoad /\ Observe /\ Note
    BY <1>16 DEF ChangeLoad, Observe, Note, Updating, device, threads, world
<1>17. CASE BecomeCalm /\ Observe /\ Note
    BY <1>17 DEF BecomeCalm, Observe, Note, Updating, device, threads, world
<1>18. CASE PowerCut
    BY <1>18 DEF PowerCut, Observe, Note, Updating, device, threads, world
<1>19. CASE UNCHANGED vars
    BY <1>19 DEF vars, device, threads, world, ghosts, Updating
<1> QED
    BY <1>1, <1>2, <1>3, <1>4, <1>5, <1>6, <1>7, <1>8, <1>9, <1>10, <1>11, <1>12, <1>13, <1>14, <1>15, <1>16, <1>17, <1>18, <1>19, StepCases

LEMMA LedStep == Inv /\ [Next]_vars => LedInv'
<1> SUFFICES ASSUME Inv, [Next]_vars PROVE LedInv'
    OBVIOUS
<1> USE SwitchAssumption DEF Inv, TypeOK, Booted, Alone, LedInv, Thread, App, Matter
<1>1. ASSUME NEW t \in Thread, RelaySetPin(t) /\ Observe /\ Note PROVE LedInv'
    BY <1>1 DEF RelaySetPin, Return, Outcomes, Goto, Observe, Note, Updating, device, threads, world
<1>2. ASSUME NEW t \in Thread, RelaySetOn(t) /\ Observe /\ Note PROVE LedInv'
    BY <1>2 DEF RelaySetOn, Goto, Observe, Note, Updating, device, threads, world
<1>3. ASSUME NEW t \in Thread, RelaySetLed(t) /\ Observe /\ Note PROVE LedInv'
    BY <1>3 DEF RelaySetLed, Return, Goto, Observe, Note, Updating, device, threads, world
<1>4. ASSUME NEW t \in Thread, LedAgain(t) /\ Observe /\ Note PROVE LedInv'
    BY <1>4 DEF LedAgain, Goto, Observe, Note, Updating, device, threads, world
<1>5. CASE RelayInit /\ Observe /\ Note
    <2>1. sOn' = FALSE \/ sOn' = sOn
        BY <1>5 DEF RelayInit
    <2>2. sOn' = sOn
        BY Zenon, <1>5, <2>1 DEF RelayInit
    <2>3. pc'[Matter] = "down" /\ pc'[App] \in {"start", "halted"}
        BY <1>5 DEF RelayInit, Goto
    <2> QED
        BY <1>5, <2>2, <2>3 DEF RelayInit
<1>6. CASE StartServer /\ Observe /\ Note
    BY <1>6 DEF StartServer, Observe, Note, Updating, device, threads, world
<1>7. CASE ServerReady /\ Observe /\ Note
    BY <1>7 DEF ServerReady, Goto, Observe, Note, Updating, device, threads, world
<1>8. CASE ButtonReread /\ Observe /\ Note
    BY <1>8 DEF ButtonReread, Call, Goto, Observe, Note, Updating, device, threads, world
<1>9. CASE UpdateClusterState /\ Observe /\ Note
    BY <1>9 DEF UpdateClusterState, Goto, Observe, Note, Updating, device, threads, world
<1>10. CASE RestoreOnOff /\ Observe /\ Note
    BY <1>10 DEF RestoreOnOff, Outcomes, Call, Goto, Observe, Note, Updating, device, threads, world
<1>11. CASE RunLambda /\ Observe /\ Note
    BY <1>11 DEF RunLambda, Call, Goto, Observe, Note, Updating, device, threads, world
<1>12. CASE WriteOnOff /\ Observe /\ Note
    BY <1>12, ZenonT(60) DEF WriteOnOff, Goto, Observe, Note, Updating, device, threads, world
<1>13. CASE MeterPoll /\ Note
    BY <1>13 DEF MeterPoll, CheckOverPower, Call, Goto, Observe, Note, Updating, device, threads, world
<1>14. CASE ButtonEventHandler /\ Observe /\ Note
    BY <1>14 DEF ButtonEventHandler, Call, Goto, Observe, Note, Updating, device, threads, world
<1>15. ASSUME NEW c \in DOMAIN CommandValue, DispatchServerCommand(c) /\ Observe /\ Note PROVE LedInv'
    BY <1>15 DEF DispatchServerCommand, CommandValue, Call, Goto, Observe, Note, Updating, device, threads, world
<1>16. CASE ChangeLoad /\ Observe /\ Note
    BY <1>16 DEF ChangeLoad, Observe, Note, Updating, device, threads, world
<1>17. CASE BecomeCalm /\ Observe /\ Note
    BY <1>17 DEF BecomeCalm, Observe, Note, Updating, device, threads, world
<1>18. CASE PowerCut
    BY <1>18 DEF PowerCut, Observe, Note, Updating, device, threads, world
<1>19. CASE UNCHANGED vars
    BY <1>19 DEF vars, device, threads, world, ghosts, Updating
<1> QED
    BY <1>1, <1>2, <1>3, <1>4, <1>5, <1>6, <1>7, <1>8, <1>9, <1>10, <1>11, <1>12, <1>13, <1>14, <1>15, <1>16, <1>17, <1>18, <1>19, StepCases

-----------------------------------------------------------------------------
LEMMA InitInv == Init => Inv
<1> SUFFICES ASSUME Init PROVE Inv
    OBVIOUS
<1> USE SwitchAssumption DEF Thread, App, Matter
<1>1. TypeOK
    <2>1. /\ relayPin \in BOOLEAN /\ sInitialised \in BOOLEAN /\ sOn \in BOOLEAN
          /\ sRelayOn \in BOOLEAN /\ onOff \in BOOLEAN /\ calm \in BOOLEAN
          /\ fault \in BOOLEAN /\ overlap \in BOOLEAN
        BY Zenon DEF Init
    <2>2. heavy \in BOOLEAN /\ drawn \in SUBSET BOOLEAN /\ drawn # {}
        BY DEF Init
    <2>3. /\ pc \in [Thread -> AppPc \cup MatterPc] /\ arg \in [Thread -> BOOLEAN]
          /\ pc[App] \in AppPc /\ pc[Matter] \in MatterPc
        BY DEF Init, AppPc, MatterPc
    <2>4. lambdas \in 0..QueueDepth /\ overSamples \in 0..(OverPowerSamples - 1)
        BY DEF Init
    <2>5. task \in {"none", "button", "trip"}
        BY DEF Init
    <2> QED
        BY <2>1, <2>2, <2>3, <2>4, <2>5 DEF TypeOK
<1>2. pc[App] = "init" /\ pc[Matter] = "down"
    BY DEF Init
<1>3. relayPin = sOn /\ sRelayOn = sOn
    BY Zenon DEF Init
<1>4. Booted
    BY <1>2 DEF Init, Booted
<1>5. AttributeInv /\ Alone
    BY <1>2 DEF AttributeInv, MatterWill, Alone, Updating
<1>6. PinInv /\ LedInv
    BY <1>2, <1>3 DEF PinInv, LedInv
<1> QED
    BY <1>1, <1>4, <1>5, <1>6 DEF Inv

\* The strengthened invariant holds in every state of every behaviour.
THEOREM Invariance == Spec => []Inv
<1>1. Inv /\ [Next]_vars => Inv'
    BY TypeStep, BootedStep, AttributeStep, AloneStep, PinStep, LedStep DEF Inv
<1> QED
    BY InitInv, <1>1, PTL DEF Spec

-----------------------------------------------------------------------------
\* Type correctness: in particular the queue of lambdas never exceeds its
\* depth and the trip counter never reaches OverPowerSamples.
THEOREM TypeCorrect == Spec => []TypeOK
<1>1. Inv => TypeOK
    BY DEF Inv
<1> QED
    BY Invariance, <1>1, PTL

\* At rest the OnOff attribute is what RelayIsOn() answers, whatever the
\* interleaving, unless a failed call has lost an update: app_task.cpp:103-112.
THEOREM AttributeCorrect == Spec => []AttributeAgrees
<1>1. Inv => AttributeAgrees
    BY DEF Inv, TypeOK, AttributeInv, WriteOwed, MatterWill, AttributeAgrees, AtRest
<1> QED
    BY Invariance, <1>1, PTL

\* At rest the relay pin is what RelayIsOn() answers, unless RelaySet() calls
\* of the two threads have interleaved: relay.cpp:47-71.
THEOREM PinCorrect == Spec => []PinAgrees
<1>1. Inv => PinAgrees
    BY DEF Inv, PinInv, PinAgrees, AtRest, Thread
<1> QED
    BY Invariance, <1>1, PTL

\* At rest the LED shows what RelayIsOn() answers, unless updates have
\* interleaved or a call has failed: zcl_callbacks.cpp:26-30.
THEOREM LedCorrect == Spec => []LedAgrees
<1>1. Inv => LedAgrees
    BY DEF Inv, LedInv, LedAgrees, AtRest, Thread
<1> QED
    BY Invariance, <1>1, PTL

\* RelaySet() never runs before RelayInit(), and no input is served before
\* the attribute is restored: app_task.cpp:114-158, zcl_callbacks.cpp:42-55.
THEOREM BootCorrect == Spec => []BootOrder
<1>1. Inv => BootOrder
    BY DEF Inv, TypeOK, Booted, BootOrder, InRelaySet, AppPc, Thread, App, Matter
<1> QED
    BY Invariance, <1>1, PTL

-----------------------------------------------------------------------------
(***************************************************************************)
(* The echoes die out.  Chores decreases with every step but a trip,       *)
(* whatever fails and calls back.  That trips end as well (TripsLeft and   *)
(* Work) needs that no call fails and that a write of the same value does  *)
(* not call back; with either, a trip and its echo can close the relay     *)
(* again without end.                                                      *)
(***************************************************************************)

\* The tables of the measure, entry by entry.
LEMMA StepsTables ==
    /\ AppSteps["init"] = 3 /\ AppSteps["start"] = 2 /\ AppSteps["await"] = 1
    /\ AppSteps["idle"] = 0 /\ AppSteps["halted"] = 0
    /\ AppSteps["pin"] = 12 /\ AppSteps["son"] = 11 /\ AppSteps["led"] = 10
    /\ AppSteps["reread"] = 9 /\ AppSteps["ledAgain"] = 8 /\ AppSteps["sched"] = 7
    /\ MatterSteps["down"] = 6 /\ MatterSteps["restore"] = 5 /\ MatterSteps["set"] = 5
    /\ MatterSteps["pin"] = 4 /\ MatterSteps["son"] = 3 /\ MatterSteps["led"] = 2
    /\ MatterSteps["ledAgain"] = 1 /\ MatterSteps["idle"] = 0
BY DEF AppSteps, MatterSteps

\* Every term of Work is a natural number, and there are at most four trips.
LEMMA WorkType ==
    ASSUME TypeOK
    PROVE  /\ TripsLeft \in 0..4 /\ lambdas \in Nat
           /\ AppSteps[pc[App]] \in 0..12 /\ MatterSteps[pc[Matter]] \in 0..6
<1>1. TripsLeft \in 0..4
    BY DEF TripsLeft, Bit, Setting
<1>2. AppSteps[pc[App]] \in 0..12
    BY StepsTables DEF TypeOK, AppPc, InRelaySet
<1>3. MatterSteps[pc[Matter]] \in 0..6
    BY StepsTables DEF TypeOK, MatterPc, InRelaySet
<1> QED
    BY <1>1, <1>2, <1>3, SwitchAssumption DEF TypeOK

LEMMA SixTimes == ASSUME NEW n \in Nat PROVE 6 * n \in Nat
OBVIOUS

LEMMA ChoresType ==
    ASSUME TypeOK
    PROVE  TripsLeft \in Nat /\ Chores \in Nat
<1>1. /\ TripsLeft \in Nat /\ lambdas \in Nat
      /\ AppSteps[pc[App]] \in Nat /\ MatterSteps[pc[Matter]] \in Nat
    BY WorkType
<1> QED
    BY <1>1, SixTimes DEF Chores

\* What each step of the threads does to Chores, once nobody asks for anything:
\* whatever fails, and whether or not an unchanged value calls back.
LEMMA EchoStep ==
    ASSUME Inv, calm, [Next]_vars, ~Trips
    PROVE  Chores' < Chores \/ UNCHANGED <<device, lambdas, threads>>
<1> USE DEF Thread, App, Matter
<1>p. /\ pc \in [Thread -> AppPc \cup MatterPc] /\ arg \in [Thread -> BOOLEAN]
      /\ onOff \in BOOLEAN /\ sOn \in BOOLEAN /\ lambdas \in Nat
    BY SwitchAssumption DEF Inv, TypeOK
<1>t. AppSteps[pc[App]] \in Nat /\ MatterSteps[pc[Matter]] \in Nat
    BY WorkType DEF Inv
<1> DEFINE Fewer == 6 * lambdas' + AppSteps[pc'[App]] + MatterSteps[pc'[Matter]]
                        < 6 * lambdas + AppSteps[pc[App]] + MatterSteps[pc[Matter]]
<1>s. Fewer => Chores' < Chores
    BY DEF Chores
<1> USE DEF Goto, device, world, threads
<1>1. ASSUME NEW t \in Thread, RelaySetPin(t) PROVE Fewer
    <2>1. pc[t] = "pin" /\ UNCHANGED lambdas
        BY <1>1 DEF RelaySetPin
    <2>2. \/ pc' = [pc EXCEPT ![t] = "son"]
          \/ pc' = [pc EXCEPT ![t] = Return(t)]
        BY <1>1 DEF RelaySetPin
    <2>3. Return(t) = IF t = Matter THEN "ledAgain" ELSE IF task = "button" THEN "reread" ELSE "sched"
        BY DEF Return
    <2> QED
        BY <1>p, <1>t, <2>1, <2>2, <2>3, StepsTables
<1>2. ASSUME NEW t \in Thread, RelaySetOn(t) PROVE Fewer
    BY <1>2, <1>p, <1>t, StepsTables DEF RelaySetOn
<1>3. ASSUME NEW t \in Thread, RelaySetLed(t) PROVE Fewer
    <2>1. Return(t) = IF t = Matter THEN "ledAgain" ELSE IF task = "button" THEN "reread" ELSE "sched"
        BY DEF Return
    <2> QED
        BY <1>3, <1>p, <1>t, <2>1, StepsTables DEF RelaySetLed
<1>4. ASSUME NEW t \in Thread, LedAgain(t) PROVE Fewer
    BY <1>4, <1>p, <1>t, StepsTables DEF LedAgain
<1>5. ASSUME RelayInit PROVE Fewer
    <2>1. pc[App] = "init" /\ UNCHANGED lambdas
        BY <1>5 DEF RelayInit
    <2>2. \/ pc' = [pc EXCEPT ![App] = "start"]
          \/ pc' = [pc EXCEPT ![App] = "halted"]
        BY <1>5 DEF RelayInit
    <2> QED
        BY <1>p, <1>t, <2>1, <2>2, StepsTables
<1>6. ASSUME StartServer PROVE Fewer
    <2>1. pc[Matter] = "down"
        BY <1>6 DEF StartServer, Inv, Booted
    <2> QED
        BY <1>6, <1>p, <1>t, <2>1, StepsTables DEF StartServer
<1>7. ASSUME ServerReady PROVE Fewer
    BY <1>7, <1>p, <1>t, StepsTables DEF ServerReady
<1>8. ASSUME ButtonReread PROVE Fewer
    BY <1>8, <1>p, <1>t, StepsTables DEF ButtonReread, Call
<1>9. ASSUME UpdateClusterState PROVE Fewer
    <2>1. pc' = [pc EXCEPT ![App] = "idle"] /\ pc[App] = "sched"
        BY <1>9 DEF UpdateClusterState
    <2>2. lambdas' \in {lambdas, lambdas + 1}
        BY <1>9 DEF UpdateClusterState
    <2> QED
        BY <1>p, <1>t, <2>1, <2>2, StepsTables
<1>10. ASSUME RestoreOnOff PROVE Fewer
    <2>1. pc[Matter] = "restore" /\ UNCHANGED lambdas
        BY <1>10 DEF RestoreOnOff
    <2>2. \/ pc' = [pc EXCEPT ![Matter] = "pin"]
          \/ pc' = [pc EXCEPT ![Matter] = "idle"]
        BY <1>10 DEF RestoreOnOff, Call
    <2> QED
        BY <1>p, <1>t, <2>1, <2>2, StepsTables
<1>11. ASSUME RunLambda PROVE Fewer
    <2>1. pc' = [pc EXCEPT ![Matter] = "set"] /\ pc[Matter] = "idle" /\ lambdas' = lambdas - 1
        BY <1>11 DEF RunLambda, Call
    <2> QED
        BY <1>p, <1>t, <2>1, StepsTables
<1>12. ASSUME WriteOnOff PROVE Fewer
    <2>1. pc[Matter] = "set" /\ UNCHANGED lambdas
        BY <1>12 DEF WriteOnOff
    <2>2. \/ pc' = [pc EXCEPT ![Matter] = "pin"]
          \/ pc' = [pc EXCEPT ![Matter] = "idle"]
        BY <1>12 DEF WriteOnOff
    <2> QED
        BY <1>p, <1>t, <2>1, <2>2, StepsTables
<1>13. CASE MeterPoll
    <2>1. UNCHANGED <<device, lambdas>> /\ pc[App] = "idle"
        BY <1>13 DEF MeterPoll
    <2>2. UNCHANGED <<pc, arg, task>>
        <3>1. ~Call(App, "pin", FALSE)
            BY <1>p, <2>1 DEF Call, Trips
        <3> QED
            BY <1>13, <3>1 DEF MeterPoll, CheckOverPower
    <2> QED
        BY <2>1, <2>2
<1>14. CASE UNCHANGED vars
    BY <1>14 DEF vars
<1>15. ~ButtonEventHandler /\ ~ChangeLoad /\ ~BecomeCalm /\ ~PowerCut
    BY DEF ButtonEventHandler, ChangeLoad, BecomeCalm, PowerCut
<1>16. ~ \E c \in DOMAIN CommandValue : DispatchServerCommand(c)
    BY DEF DispatchServerCommand
<1> QED
    BY <1>s, <1>1, <1>2, <1>3, <1>4, <1>5, <1>6, <1>7, <1>8, <1>9, <1>10, <1>11, <1>12,
       <1>13, <1>14, <1>15, <1>16, StepCases

\* Nothing but a poll that trips takes the idle app task into RelaySet().
LEMMA TripIsPoll ==
    ASSUME Inv, calm, [Next]_vars, Trips
    PROVE  MeterPoll
<1> USE DEF Thread, App, Matter
<1>p. /\ pc \in [Thread -> AppPc \cup MatterPc] /\ arg \in [Thread -> BOOLEAN]
      /\ onOff \in BOOLEAN /\ sOn \in BOOLEAN /\ lambdas \in Nat
    BY SwitchAssumption DEF Inv, TypeOK
<1>1. pc[App] = "idle" /\ pc'[App] = "pin"
    BY DEF Trips
<1> QED
    BY <1>1, <1>p, StepCases
       DEF Goto, Call, threads, vars, RelaySetPin, RelaySetOn, RelaySetLed, LedAgain,
           RelayInit, StartServer, ServerReady, ButtonReread, UpdateClusterState,
           RestoreOnOff, RunLambda, WriteOnOff, ButtonEventHandler, ChangeLoad,
           BecomeCalm, PowerCut, DispatchServerCommand

\* A trip begins with an idle app task and gives it its twelve steps to do.
LEMMA TripChores ==
    ASSUME Inv, calm, [Next]_vars, Trips
    PROVE  Chores' = Chores + 12
<1> USE DEF Thread, App, Matter
<1>p. /\ pc \in [Thread -> AppPc \cup MatterPc] /\ arg \in [Thread -> BOOLEAN]
      /\ onOff \in BOOLEAN /\ sOn \in BOOLEAN /\ lambdas \in Nat
    BY SwitchAssumption DEF Inv, TypeOK
<1>1. MeterPoll
    BY TripIsPoll
<1>2. pc[App] = "idle" /\ pc' = [pc EXCEPT ![App] = "pin"] /\ lambdas' = lambdas
    BY <1>1, <1>p DEF Trips, MeterPoll, CheckOverPower, Call, Goto
<1>3. /\ AppSteps[pc[App]] = 0 /\ AppSteps[pc'[App]] = 12
      /\ MatterSteps[pc'[Matter]] = MatterSteps[pc[Matter]]
    BY <1>p, <1>2, StepsTables
<1>4. MatterSteps[pc[Matter]] \in Nat /\ 6 * lambdas \in Nat
    BY <1>p, WorkType, SixTimes DEF Inv
<1> DEFINE l == 6 * lambdas
           m == MatterSteps[pc[Matter]]
<1>5. Chores = l + 0 + m /\ Chores' = l + 12 + m
    BY <1>2, <1>3 DEF Chores
<1> HIDE DEF l, m
<1> QED
    BY <1>4, <1>5 DEF l, m

\* What each step does to TripsLeft, if calls succeed and only a change calls
\* back: a trip uses up one of those left, nothing else adds one.
LEMMA TripStep ==
    ASSUME Inv, calm, [Next]_vars, ~CallsMayFail, UnchangedNotifies = {FALSE}
    PROVE  TripsLeft' <= TripsLeft /\ (Trips => TripsLeft' + 1 = TripsLeft)
<1> USE DEF Thread, App, Matter
<1>p. /\ pc \in [Thread -> AppPc \cup MatterPc] /\ arg \in [Thread -> BOOLEAN]
      /\ onOff \in BOOLEAN /\ sOn \in BOOLEAN /\ lambdas \in Nat
    BY SwitchAssumption DEF Inv, TypeOK
<1>0. Outcomes = {TRUE}
    BY DEF Outcomes
<1>q. (pc[Matter] \in {"pin", "son"} => arg[Matter] = onOff) /\ Booted
    BY DEF Inv, AttributeInv
<1>t. TripsLeft \in Nat
    BY WorkType DEF Inv
<1> DEFINE Kept == TripsLeft' <= TripsLeft
<1> USE DEF Goto, device, world, threads
<1>1. ASSUME NEW t \in Thread, RelaySetPin(t) PROVE Kept
    <2>1. pc' = [pc EXCEPT ![t] = "son"] /\ pc[t] = "pin"
        BY <1>1, <1>0, <1>p, <1>q DEF RelaySetPin, Booted
    <2>2. UNCHANGED <<sOn, onOff, lambdas, arg>>
        BY <1>1 DEF RelaySetPin
    <2> QED
        BY <1>p, <2>1, <2>2 DEF TripsLeft, Bit, Setting, MatterCloses
<1>2. ASSUME NEW t \in Thread, RelaySetOn(t) PROVE Kept
    <2>1. pc' = [pc EXCEPT ![t] = "led"] /\ pc[t] = "son"
        BY <1>2 DEF RelaySetOn
    <2>2. UNCHANGED <<onOff, lambdas, arg>> /\ sOn' = arg[t]
        BY <1>2 DEF RelaySetOn
    <2> QED
        BY <1>p, <1>q, <2>1, <2>2 DEF TripsLeft, Bit, Setting, MatterCloses
<1>3. ASSUME NEW t \in Thread, RelaySetLed(t) PROVE Kept
    <2>1. pc' = [pc EXCEPT ![t] = Return(t)] /\ pc[t] = "led"
        BY <1>3 DEF RelaySetLed
    <2>2. UNCHANGED <<sOn, onOff, lambdas, arg>>
        BY <1>3 DEF RelaySetLed
    <2> QED
        BY <1>p, <2>1, <2>2 DEF TripsLeft, Bit, Setting, MatterCloses, Return
<1>4. ASSUME NEW t \in Thread, LedAgain(t) PROVE Kept
    <2>1. pc' = [pc EXCEPT ![t] = IF t = App THEN "sched" ELSE "idle"] /\ pc[t] = "ledAgain"
        BY <1>4 DEF LedAgain
    <2>2. UNCHANGED <<sOn, onOff, lambdas, arg>>
        BY <1>4 DEF LedAgain
    <2> QED
        BY <1>p, <2>1, <2>2 DEF TripsLeft, Bit, Setting, MatterCloses
<1>5. ASSUME RelayInit PROVE Kept
    <2>1. pc' = [pc EXCEPT ![App] = "start"] /\ pc[App] = "init" /\ ~sOn /\ ~sOn'
        BY <1>5, <1>0, <1>q DEF RelayInit, Booted
    <2>2. UNCHANGED <<onOff, lambdas, arg>>
        BY <1>5 DEF RelayInit
    <2> QED
        BY <1>p, <2>1, <2>2 DEF TripsLeft, Bit, Setting, MatterCloses
<1>6. ASSUME StartServer PROVE Kept
    BY <1>6, <1>p, <1>q DEF StartServer, Call, Booted, TripsLeft, Bit, Setting, MatterCloses
<1>7. ASSUME ServerReady PROVE Kept
    BY <1>7, <1>p, <1>q DEF ServerReady, Call, Booted, TripsLeft, Bit, Setting, MatterCloses
<1>8. ASSUME ButtonReread PROVE Kept
    BY <1>8, <1>p, <1>q DEF ButtonReread, Call, Booted, TripsLeft, Bit, Setting, MatterCloses
<1>9. ASSUME UpdateClusterState PROVE Kept
    <2>1. pc' = [pc EXCEPT ![App] = "idle"] /\ pc[App] = "sched"
        BY <1>9 DEF UpdateClusterState
    <2>2. UNCHANGED <<sOn, onOff, arg>> /\ lambdas' \in {lambdas, lambdas + 1}
        BY <1>9 DEF UpdateClusterState
    <2> QED
        BY <1>p, <2>1, <2>2 DEF TripsLeft, Bit, Setting, MatterCloses
<1>10. ASSUME RestoreOnOff PROVE Kept
    <2>1. /\ pc' = [pc EXCEPT ![Matter] = "pin"] /\ pc[Matter] = "restore"
          /\ arg' = [arg EXCEPT ![Matter] = onOff]
        BY <1>10, <1>0 DEF RestoreOnOff, Call
    <2>2. UNCHANGED <<sOn, onOff, lambdas>>
        BY <1>10 DEF RestoreOnOff
    <2> QED
        BY <1>p, <2>1, <2>2 DEF TripsLeft, Bit, Setting, MatterCloses
<1>11. ASSUME RunLambda PROVE Kept
    <2>1. /\ pc' = [pc EXCEPT ![Matter] = "set"] /\ pc[Matter] = "idle"
          /\ arg' = [arg EXCEPT ![Matter] = sOn]
        BY <1>11 DEF RunLambda, Call
    <2>2. UNCHANGED <<sOn, onOff>> /\ lambdas' = lambdas - 1
        BY <1>11 DEF RunLambda
    <2> QED
        BY <1>p, <2>1, <2>2 DEF TripsLeft, Bit, Setting, MatterCloses
<1>12. ASSUME WriteOnOff PROVE Kept
    <2>1. /\ pc' = [pc EXCEPT ![Matter] = IF arg[Matter] = onOff THEN "idle" ELSE "pin"]
          /\ pc[Matter] = "set" /\ onOff' = arg[Matter]
        BY <1>12 DEF WriteOnOff
    <2>2. UNCHANGED <<sOn, lambdas, arg>>
        BY <1>12 DEF WriteOnOff
    <2> QED
        BY <1>p, <2>1, <2>2 DEF TripsLeft, Bit, Setting, MatterCloses
<1>13. CASE MeterPoll
    <2>1. UNCHANGED <<device, lambdas>> /\ pc[App] = "idle"
        BY <1>13 DEF MeterPoll
    <2>2. CASE UNCHANGED <<pc, arg, task>>
        <3>1. TripsLeft' = TripsLeft
            BY <2>1, <2>2 DEF TripsLeft, Bit, Setting, MatterCloses
        <3> QED
            BY <1>t, <2>1, <2>2, <3>1 DEF Trips
    <2>3. CASE sOn /\ task' = "trip" /\ Call(App, "pin", FALSE)
        <3>1. TripsLeft' + 1 = TripsLeft
            BY <1>p, <2>1, <2>3 DEF Call, TripsLeft, Bit, Setting, MatterCloses
        <3>2. TripsLeft' \in Nat
            BY <1>p, <2>1, <2>3 DEF Call, TripsLeft, Bit, Setting, MatterCloses
        <3> DEFINE n == TripsLeft
                   n1 == TripsLeft'
        <3>3. n1 \in Nat /\ n1 + 1 = n
            BY <3>1, <3>2
        <3>4. n1 <= n
            <4> HIDE DEF n, n1
            <4> QED
                BY ONLY <3>3
        <3> QED
            BY <3>1, <3>4
    <2>4. \E above \in drawn : CheckOverPower(above)
        BY <1>13 DEF MeterPoll
    <2> QED
        BY <2>2, <2>3, <2>4 DEF CheckOverPower
<1>14. ASSUME UNCHANGED vars PROVE Kept
    BY <1>14, <1>t DEF vars, TripsLeft, Bit, Setting, MatterCloses
<1>15. ~ButtonEventHandler /\ ~ChangeLoad /\ ~BecomeCalm /\ ~PowerCut
    BY DEF ButtonEventHandler, ChangeLoad, BecomeCalm, PowerCut
<1>16. ~ \E c \in DOMAIN CommandValue : DispatchServerCommand(c)
    BY DEF DispatchServerCommand
<1>17. CASE ~MeterPoll
    <2>1. ~Trips
        BY <1>17, TripIsPoll
    <2>2. Kept
        BY <1>1, <1>2, <1>3, <1>4, <1>5, <1>6, <1>7, <1>8, <1>9, <1>10, <1>11, <1>12,
           <1>14, <1>15, <1>16, <1>17, StepCases
    <2> QED
        BY <2>1, <2>2
<1> QED
    BY <1>13, <1>17

\* What each step of the threads does to Work, under the same conditions.
LEMMA WorkStep ==
    ASSUME Inv, Inv', calm, [Next]_vars, ~CallsMayFail, UnchangedNotifies = {FALSE}
    PROVE  Work' < Work \/ UNCHANGED <<device, lambdas, threads>>
<1>1. TripsLeft \in Nat /\ Chores \in Nat
    BY ChoresType DEF Inv
<1>2. TripsLeft' \in Nat /\ Chores' \in Nat
    <2>1. (TypeOK => TripsLeft \in Nat /\ Chores \in Nat)'
        BY ChoresType, PTL
    <2> QED
        BY <2>1 DEF Inv
<1> DEFINE t == TripsLeft
           t1 == TripsLeft'
           c == Chores
           c1 == Chores'
<1>3. CASE ~Trips
    <2>1. t1 <= t
        BY TripStep
    <2>2. CASE c1 < c
        <3>1. t \in Nat /\ t1 \in Nat /\ c \in Nat /\ c1 \in Nat
            BY <1>1, <1>2
        <3> HIDE DEF t, t1, c, c1
        <3>2. 13 * t1 + c1 < 13 * t + c
            BY ONLY <2>1, <2>2, <3>1
        <3> QED
            BY <3>2 DEF t, t1, c, c1, Work
    <2> QED
        BY <1>3, <2>2, EchoStep
<1>4. CASE Trips
    <2>1. t1 + 1 = t
        BY <1>4, TripStep
    <2>2. c1 = c + 12
        BY <1>4, TripChores
    <2>3. t \in Nat /\ t1 \in Nat /\ c \in Nat /\ c1 \in Nat
        BY <1>1, <1>2
    <2> HIDE DEF t, t1, c, c1
    <2>4. 13 * t1 + c1 < 13 * t + c
        BY ONLY <2>1, <2>2, <2>3
    <2> QED
        BY <2>4 DEF t, t1, c, c1, Work
<1> QED
    BY <1>3, <1>4

\* Echoes need a trip, for every depth of the queue, full or not, whichever
\* calls fail, and whether or not a write of the same value calls back.
THEOREM EchoesDie == Spec => EchoesNeedTrips
<1>1. Inv /\ [Next]_vars
          => [calm /\ ~Trips => Chores' < Chores \/ UNCHANGED <<device, lambdas, threads>>]_vars
    BY EchoStep
<1> QED
    BY Invariance, <1>1, PTL DEF Spec, EchoesNeedTrips

\* Trips run out: once nothing more is requested, no step of the two threads
\* brings another trip within reach, a write that closes the relay included,
\* and each trip takes one away (bl0937.cpp:155-167).
THEOREM TripsRunOut ==
    ~CallsMayFail /\ UnchangedNotifies = {FALSE} =>
        (Spec => [][calm => /\ TripsLeft' <= TripsLeft
                            /\ Trips => TripsLeft' + 1 = TripsLeft]_vars)
<1> SUFFICES ASSUME ~CallsMayFail, UnchangedNotifies = {FALSE}
             PROVE  Spec => [][calm => /\ TripsLeft' <= TripsLeft
                                       /\ Trips => TripsLeft' + 1 = TripsLeft]_vars
    OBVIOUS
<1>1. Inv /\ [Next]_vars => [calm => /\ TripsLeft' <= TripsLeft
                                     /\ Trips => TripsLeft' + 1 = TripsLeft]_vars
    BY TripStep
<1> QED
    BY Invariance, <1>1, PTL DEF Spec

\* Once nothing more is requested the plug settles: every step of a thread
\* leaves less work, for every depth of the queue, full or not, and every trip
\* count: bl0937.cpp:120-147, app_task.cpp:103-112, zcl_callbacks.cpp:21-30.
THEOREM Settling ==
    ~CallsMayFail /\ UnchangedNotifies = {FALSE} => (Spec => SettlesDown)
<1> SUFFICES ASSUME ~CallsMayFail, UnchangedNotifies = {FALSE} PROVE Spec => SettlesDown
    OBVIOUS
<1>1. Inv /\ Inv' /\ [Next]_vars
          => [calm => Work' < Work \/ UNCHANGED <<device, lambdas, threads>>]_vars
    BY WorkStep
<1> QED
    BY Invariance, <1>1, PTL DEF Spec, SettlesDown
=============================================================================
