---------------------------- MODULE MatterServer ----------------------------
(***************************************************************************)
(* How the plug comes up and what then answers for each cluster:           *)
(* AppTask::Init() on the app task, and on the Matter thread the server's  *)
(* walk over the generated data model, the hook that registers the         *)
(* measurement clusters (PowerMeasurementInit()), the commands and reads   *)
(* of a controller, and the server's shutdown.                             *)
(*                                                                         *)
(* Nothing in the build ties the generated lists to each other or to the   *)
(* hook: a cluster that is in the data model and in no list compiles,      *)
(* boots, and fails its first read.  The relay is here as far as boot and  *)
(* commands move it; the button, the over-power trip and the races of the  *)
(* two threads over it are PlugSwitch's.                                   *)
(***************************************************************************)
EXTENDS DataModel, FiniteSets

CONSTANT MaxBoots   \* power cuts are limited to MaxBoots - 1

ASSUME ServerAssumption == MaxBoots \in Nat \ {0}

VARIABLES
    app,          \* the call AppTask::Init() is in, or how it ended
    failedAt,     \* the call that made Init() return an error
    stack,        \* what the Matter thread is doing
    row,          \* the row of Clusters being initialised or shut down
    pending,      \* callbacks the server has yet to make for that row
    plugins,      \* plugins initialised
    open,         \* code-driven clusters that are registered, with endpoint
    hook,         \* where PowerMeasurementInit() is, or how it ended
    meter,        \* sDelegate, sInstance, sEnergyAttrAccess, EEM's accuracy: what exists
    sInitialised, \* relay.cpp: RelayInit() succeeded
    relayPin,     \* TRUE: the relay is closed
    onOff,        \* the OnOff attribute; persisted
    restored,     \* the restore at boot has read that attribute and driven the pin
    request,      \* what a controller has asked
    reply,        \* what it has been told so far
    done,         \* the request has been dealt with
    boots

boot == <<app, failedAt>>
data == <<plugins, open, row, pending>>
relay == <<sInitialised, relayPin, onOff, restored>>
session == <<request, reply, done>>
vars == <<boot, stack, data, hook, meter, relay, session, boots>>

Stages == {"PrepareServer", "StatusLedInit", "RelayInit", "BoardInit",
           "RegisterEventHandler", "IdentifyInit", "StartServer", "await"}
Outcome == {"polling", "halted"}
Callbacks == {"ember", "codeDriven"}
Rows == 1..Len(Clusters)
Path(r) == <<Clusters[r].endpoint, Clusters[r].cluster>>

None == [kind |-> "none", row |-> 1, item |-> "none"]
Requests ==
    {[kind |-> "read", row |-> r, item |-> s] : r \in Rows, s \in {"ram", "external"}} \cup
    {[kind |-> "accuracy", row |-> r, item |-> "external"] : r \in Rows} \cup
    UNION {{[kind |-> "command", row |-> r, item |-> c] : c \in Accepts(Clusters[r])
                                                             \cup {"unknown"}} : r \in Rows}

Init ==
    /\ app = "PrepareServer" /\ failedAt = "none"
    /\ stack = "down" /\ row = 1 /\ pending = Callbacks
    /\ plugins = {} /\ open = {}
    /\ hook = "epm" /\ meter = {}
    /\ sInitialised = FALSE /\ relayPin = FALSE /\ restored = FALSE
    /\ onOff \in BOOLEAN
    /\ request = None /\ reply = <<>> /\ done = TRUE
    /\ boots = 1

-----------------------------------------------------------------------------
(***************************************************************************)
(* The app task: AppTask::Init() and what follows it.  Every call of it    *)
(* may fail, and Init() then returns at once: main() ends, the relay stays *)
(* as it is, nobody meters.                                                *)
(***************************************************************************)
InitReturnsError(stage) ==
    /\ app = stage
    /\ app' = "halted" /\ failedAt' = stage

\* A call of Init() whose effect is outside this module.
PlainCall(stage, next) ==
    /\ \/ app = stage /\ app' = next /\ UNCHANGED failedAt
       \/ InitReturnsError(stage)
    /\ UNCHANGED <<stack, data, hook, meter, relay, session, boots>>

PrepareServer == PlainCall("PrepareServer", "StatusLedInit")
StatusLedInit == PlainCall("StatusLedInit", "RelayInit")

\* Faulty variant: the pin is configured active.
RelayInitActive ==
    /\ app = "RelayInit"
    /\ \/ /\ app' = "BoardInit"
          /\ sInitialised' = TRUE /\ relayPin' = TRUE
          /\ UNCHANGED <<failedAt, onOff, restored>>
       \/ InitReturnsError("RelayInit") /\ UNCHANGED relay
    /\ UNCHANGED <<stack, data, hook, meter, session, boots>>

\* RelayInit() opens the relay whatever its level was.
RelayInit ==
    /\ app = "RelayInit"
    /\ \/ /\ app' = "BoardInit"
          /\ sInitialised' = TRUE /\ relayPin' = FALSE
          /\ UNCHANGED <<failedAt, onOff, restored>>
       \/ InitReturnsError("RelayInit") /\ UNCHANGED relay
    /\ UNCHANGED <<stack, data, hook, meter, session, boots>>

BoardInit == PlainCall("BoardInit", "RegisterEventHandler")
RegisterEventHandler == PlainCall("RegisterEventHandler", "IdentifyInit")
IdentifyInit == PlainCall("IdentifyInit", "StartServer")

\* StartServer() starts the Matter thread and waits for it.
StartServer ==
    /\ app = "StartServer"
    /\ app' = "await" /\ stack' = "plugins"
    /\ UNCHANGED <<failedAt, data, hook, meter, relay, session, boots>>

\* Faulty variant: Init() waits for a hook that succeeded.
ServerStartedOnly ==
    /\ app = "await" /\ hook = "ok"
    /\ app' = "polling" /\ UNCHANGED failedAt
    /\ UNCHANGED <<stack, data, hook, meter, relay, session, boots>>

\* Faulty variant: the error of StartServer() is not returned.
ServerStartedUnchecked ==
    /\ app = "await" /\ (hook \in {"ok", "failed"} \/ stack = "stopped")
    /\ app' = "polling" /\ UNCHANGED failedAt
    /\ UNCHANGED <<stack, data, hook, meter, relay, session, boots>>

\* StartServer() returns the hook's error, or the server's own.  After a
\* success Init() starts the meter and its timer, which cannot fail.
ServerStarted ==
    /\ app = "await"
    /\ \/ hook = "ok" /\ app' = "polling" /\ UNCHANGED failedAt
       \/ (hook = "failed" \/ stack = "stopped") /\ app' = "halted" /\ failedAt' = "StartServer"
    /\ UNCHANGED <<stack, data, hook, meter, relay, session, boots>>

-----------------------------------------------------------------------------
(***************************************************************************)
(* The Matter thread: starting the server.  It initialises the plugins,    *)
(* then makes two callbacks for every cluster of the data model; in which  *)
(* order is the SDK's business and either is allowed.                      *)
(***************************************************************************)

\* MATTER_PLUGINS_INIT
InitPlugins ==
    /\ stack = "plugins"
    /\ plugins' = Plugins
    /\ stack' = "clusters"
    /\ UNCHANGED <<boot, open, row, pending, hook, meter, relay, session, boots>>

\* ApplyOnOff(), which drops RelaySet()'s error: the pin stays as it is when the
\* relay is not initialised or gpio_pin_set_dt() does not drive it.
ApplyOnOff(on, drives) == relayPin' = IF sInitialised /\ drives THEN on ELSE relayPin

\* Faulty variant: the restore assumes "off" instead of reading the attribute.
RestoreAssumesOff ==
    \E drives \in BOOLEAN :
        /\ ApplyOnOff(FALSE, drives)
        /\ restored' = (restored \/ (sInitialised /\ drives))

\* emberAfOnOffClusterInitCallback(): nothing happens when the read fails.
OnOffClusterInit ==
    \/ \E drives \in BOOLEAN :
         /\ ApplyOnOff(onOff, drives)
         /\ restored' = (restored \/ (sInitialised /\ drives))
    \/ UNCHANGED <<relayPin, restored>>

\* The weak callbacks of every other cluster do nothing.
WeakClusterInit == UNCHANGED <<relayPin, restored>>

\* emberAfClusterInitCallback()
EmberClusterInit ==
    /\ stack = "clusters" /\ row \in Rows /\ "ember" \in pending
    /\ pending' = pending \ {"ember"}
    /\ IF Clusters[row].cluster \in EmberInit /\ Clusters[row].cluster = "OnOff"
       THEN OnOffClusterInit
       ELSE WeakClusterInit
    /\ UNCHANGED <<boot, stack, plugins, open, row, hook, meter, sInitialised, onOff, session,
                   boots>>

\* MatterClusterServerInitCallback()
CodeDrivenClusterInit ==
    /\ stack = "clusters" /\ row \in Rows /\ "codeDriven" \in pending
    /\ pending' = pending \ {"codeDriven"}
    /\ open' = IF Clusters[row].cluster \in CodeDrivenInit THEN open \cup {Path(row)} ELSE open
    /\ UNCHANGED <<boot, stack, plugins, row, hook, meter, relay, session, boots>>

\* Faulty variant: the walk does not stop at the last row.
NextClusterOverrun ==
    /\ stack = "clusters" /\ row \in Rows /\ pending = {}
    /\ pending' = Callbacks /\ row' = row + 1
    /\ UNCHANGED <<boot, stack, plugins, open, hook, meter, relay, session, boots>>

NextCluster ==
    /\ stack = "clusters" /\ row \in Rows /\ pending = {}
    /\ pending' = Callbacks
    /\ IF row < Len(Clusters)
       THEN row' = row + 1 /\ UNCHANGED stack
       ELSE row' = 1 /\ stack' = "hook"
    /\ UNCHANGED <<boot, plugins, open, hook, meter, relay, session, boots>>

\* Server::Init() may give up at any point before the hook.
ServerInitFails ==
    /\ stack \in {"plugins", "clusters"}
    /\ stack' = "stopped"
    /\ UNCHANGED <<boot, data, hook, meter, relay, session, boots>>

-----------------------------------------------------------------------------
(***************************************************************************)
(* PowerMeasurementInit(), the post-server-init hook.                      *)
(***************************************************************************)

\* After an error of the hook the server may go on serving or stop.
HookFails ==
    /\ hook' = "failed"
    /\ stack' \in {"serving", "stopped"}

\* Faulty variant: a failed Init() goes on to serve without an error to return.
InitPowerInstanceSilent ==
    /\ stack = "hook" /\ hook = "epm"
    /\ \/ meter' = {"delegate", "instance"} /\ hook' = "eem" /\ UNCHANGED stack
       \/ meter' = {} /\ stack' = "serving" /\ UNCHANGED hook
    /\ UNCHANGED <<boot, data, relay, session, boots>>

\* EPM's delegate and Instance; both go when Instance::Init() fails.
InitPowerInstance ==
    /\ stack = "hook" /\ hook = "epm"
    /\ \/ meter' = {"delegate", "instance"} /\ hook' = "eem" /\ UNCHANGED stack
       \/ meter' = {} /\ HookFails
    /\ UNCHANGED <<boot, data, relay, session, boots>>

\* Faulty variant: the step that "compiles and boots fine" without.
SkipEnergyAccess ==
    /\ stack = "hook" /\ hook = "eem"
    /\ hook' = "accuracy"
    /\ UNCHANGED <<boot, stack, data, meter, relay, session, boots>>

\* Faulty variant: a failed Init() starts the hook over.
InitEnergyAccessRetried ==
    /\ stack = "hook" /\ hook = "eem"
    /\ \/ meter' = meter \cup {"energyAccess"} /\ hook' = "accuracy" /\ UNCHANGED stack
       \/ meter' = {} /\ hook' = "epm" /\ UNCHANGED stack
    /\ UNCHANGED <<boot, data, relay, session, boots>>

\* EEM's access interface: reset again when its Init() fails; EPM stays.
InitEnergyAccess ==
    /\ stack = "hook" /\ hook = "eem"
    /\ \/ meter' = meter \cup {"energyAccess"} /\ hook' = "accuracy" /\ UNCHANGED stack
       \/ UNCHANGED meter /\ HookFails
    /\ UNCHANGED <<boot, data, relay, session, boots>>

\* SetMeasurementAccuracy(), then LoadCumulativeEnergy(), whose outcome is
\* not an error of the hook (see PowerMeasurement).
SetEnergyAccuracy ==
    /\ stack = "hook" /\ hook = "accuracy"
    /\ \/ meter' = meter \cup {"accuracy"} /\ hook' = "ok" /\ stack' = "serving"
       \/ meter' = meter \ {"energyAccess"} /\ HookFails
    /\ UNCHANGED <<boot, data, relay, session, boots>>

-----------------------------------------------------------------------------
(***************************************************************************)
(* Serving a controller, one request at a time.                            *)
(***************************************************************************)
Receive ==
    /\ stack = "serving" /\ done
    /\ request' \in Requests
    /\ request'.kind = "accuracy" => Clusters[request'.row].cluster = "ElectricalPowerMeasurement"
    /\ request'.kind = "read" =>
         IF request'.item = "ram" THEN Ram(Clusters[request'.row]) # <<>>
         ELSE HasExternal(Clusters[request'.row])
    /\ reply' = <<>> /\ done' = FALSE
    /\ UNCHANGED <<boot, stack, data, hook, meter, relay, boots>>

\* What answers for the external attributes of a cluster.
Answered(r) ==
    \/ Path(r) \in open
    \/ Clusters[r].cluster \in plugins \cap PluginAccess
    \/ Clusters[r].cluster \in PlatformServed
    \/ Clusters[r].cluster = "ElectricalPowerMeasurement" /\ "instance" \in meter
    \/ Clusters[r].cluster = "ElectricalEnergyMeasurement" /\ "energyAccess" \in meter

\* A read that nobody answers for reaches the weak
\* emberAfExternalAttributeReadCallback(), and that fails.
ReadAttribute ==
    /\ stack = "serving" /\ ~done /\ request.kind = "read"
    /\ reply' = IF request.item = "ram" \/ Answered(request.row)
                THEN <<"value">> ELSE <<"Failure">>
    /\ done' = TRUE
    /\ UNCHANGED <<boot, stack, data, hook, meter, relay, request, boots>>

\* kMeasurementSpecs: what the Accuracy attribute of EPM is a list of.
MeasurementSpecs ==
    <<[type |-> "ActivePower", min |-> 0, max |-> 3680000],
      [type |-> "RMSVoltage", min |-> 0, max |-> 300000],
      [type |-> "RMSCurrent", min |-> 0, max |-> 16000]>>

\* Faulty variant: the list ends one entry early.
GetAccuracyByIndexShort(index) ==
    IF index + 1 >= Len(MeasurementSpecs) THEN "exhausted" ELSE MeasurementSpecs[index + 1].type

\* PlugPowerDelegate::GetAccuracyByIndex()
GetAccuracyByIndex(index) ==
    IF index >= Len(MeasurementSpecs) THEN "exhausted" ELSE MeasurementSpecs[index + 1].type

\* The Instance reads the list entry by entry until it is exhausted.
ReadAccuracy ==
    /\ stack = "serving" /\ ~done /\ request.kind = "accuracy"
    /\ IF "instance" \notin meter
       THEN reply' = <<"Failure">> /\ done' = TRUE
       ELSE LET entry == GetAccuracyByIndex(Len(reply))
            IN  IF entry = "exhausted"
                THEN done' = TRUE /\ UNCHANGED reply
                ELSE reply' = Append(reply, entry) /\ UNCHANGED done
    /\ UNCHANGED <<boot, stack, data, hook, meter, relay, request, boots>>

\* DispatchServerCommand() of each cluster: the switch, then the check of the
\* decoding and of the handler's own verdict.
DispatchServerCommand(cluster, command, decodes, wasHandled) ==
    IF command \notin DispatchTable[cluster] THEN "UnsupportedCommand"
    ELSE IF ~decodes \/ ~wasHandled THEN "InvalidCommand"
    ELSE "Success"

\* Faulty variant: a status is added for a success as well.
DispatchStatusAlways(cluster, command, decodes, wasHandled) ==
    IF cluster \in DOMAIN DispatchTable
    THEN <<DispatchServerCommand(cluster, command, decodes, wasHandled)>>
    ELSE <<"UnsupportedCluster">>

\* The status DispatchSingleClusterCommand() adds, if any.
DispatchStatus(cluster, command, decodes, wasHandled) ==
    LET errorStatus == IF cluster \in DOMAIN DispatchTable
                       THEN DispatchServerCommand(cluster, command, decodes, wasHandled)
                       ELSE "UnsupportedCluster"
    IN  IF errorStatus = "Success" THEN <<>> ELSE <<errorStatus>>

\* The attribute write of the OnOff handler: MatterPostAttributeChangeCallback()
\* follows a change, and may follow a write of the same value.
WriteOnOff(on) ==
    /\ onOff' = on
    /\ \/ \E drives \in BOOLEAN : ApplyOnOff(on, drives)
       \/ on = onOff /\ UNCHANGED relayPin
    /\ UNCHANGED <<sInitialised, restored>>

Target(command) ==
    CASE command = "Off" -> FALSE [] command = "On" -> TRUE [] OTHER -> ~onOff

\* DispatchSingleClusterCommand(): the handler is called when the command is
\* known and decodes, and answers itself when it handles it.  Code-driven and
\* platform clusters take their commands before they get here.
DispatchCommand ==
    /\ stack = "serving" /\ ~done /\ request.kind = "command"
    /\ done' = TRUE
    /\ LET cluster == Clusters[request.row].cluster
           command == request.item
       IN  IF Path(request.row) \in open \/ cluster \in PlatformServed
           THEN reply' = <<"answer">> /\ UNCHANGED relay
           ELSE \E decodes, handled \in BOOLEAN :
                  LET called == /\ cluster \in DOMAIN DispatchTable
                                /\ command \in DispatchTable[cluster]
                                /\ decodes
                  IN  /\ reply' = (IF called /\ handled THEN <<"answer">> ELSE <<>>)
                                  \o DispatchStatus(cluster, command, decodes, called /\ handled)
                      /\ IF called /\ handled /\ cluster = "OnOff"
                         THEN WriteOnOff(Target(command))
                         ELSE UNCHANGED relay
    /\ UNCHANGED <<boot, stack, data, hook, meter, request, boots>>

-----------------------------------------------------------------------------
(***************************************************************************)
(* Shutdown of the server, and of the supply.                              *)
(***************************************************************************)
ShutdownServer ==
    /\ stack = "serving" /\ done
    /\ stack' = "closing" /\ row' = 1
    /\ UNCHANGED <<boot, plugins, open, pending, hook, meter, relay, session, boots>>

\* MatterClusterServerShutdownCallback(), for each cluster in turn.
CodeDrivenClusterShutdown ==
    /\ stack = "closing" /\ row \in Rows
    /\ open' = IF Clusters[row].cluster \in CodeDrivenShutdown THEN open \ {Path(row)} ELSE open
    /\ IF row < Len(Clusters)
       THEN row' = row + 1 /\ UNCHANGED stack
       ELSE row' = 1 /\ stack' = "closed"
    /\ UNCHANGED <<boot, plugins, pending, hook, meter, relay, session, boots>>

\* Only the attribute survives.
PowerCut ==
    /\ boots < MaxBoots
    /\ boots' = boots + 1
    /\ app' = "PrepareServer" /\ failedAt' = "none"
    /\ stack' = "down" /\ row' = 1 /\ pending' = Callbacks
    /\ plugins' = {} /\ open' = {}
    /\ hook' = "epm" /\ meter' = {}
    /\ sInitialised' = FALSE /\ relayPin' = FALSE /\ restored' = FALSE
    /\ request' = None /\ reply' = <<>> /\ done' = TRUE
    /\ UNCHANGED onOff

AppTask ==
    \/ PrepareServer \/ StatusLedInit \/ RelayInit \/ BoardInit
    \/ RegisterEventHandler \/ IdentifyInit \/ StartServer \/ ServerStarted

ServerStart ==
    \/ InitPlugins \/ EmberClusterInit \/ CodeDrivenClusterInit \/ NextCluster
    \/ InitPowerInstance \/ InitEnergyAccess \/ SetEnergyAccuracy

Serve == ReadAttribute \/ ReadAccuracy \/ DispatchCommand

Next ==
    \/ AppTask
    \/ ServerStart \/ ServerInitFails
    \/ Receive \/ Serve
    \/ ShutdownServer \/ CodeDrivenClusterShutdown
    \/ PowerCut

Fairness == WF_vars(AppTask) /\ WF_vars(ServerStart) /\ WF_vars(Serve)

Spec == Init /\ [][Next]_vars /\ Fairness

-----------------------------------------------------------------------------
Answers == {"value", "Failure", "answer", "UnsupportedCommand", "InvalidCommand",
            "UnsupportedCluster"} \cup {MeasurementSpecs[i].type : i \in DOMAIN MeasurementSpecs}

\* Every variable holds a value of its kind.
TypeOK ==
    /\ app \in Stages \cup Outcome
    /\ failedAt \in (Stages \ {"await"}) \cup {"none"}
    /\ stack \in {"down", "plugins", "clusters", "hook", "serving", "stopped", "closing", "closed"}
    /\ row \in Rows /\ pending \subseteq Callbacks
    /\ plugins \in {{}, Plugins}
    /\ open \subseteq {Path(r) : r \in Rows}
    /\ hook \in {"epm", "eem", "accuracy", "ok", "failed"}
    /\ meter \subseteq {"delegate", "instance", "energyAccess", "accuracy"}
    /\ sInitialised \in BOOLEAN /\ relayPin \in BOOLEAN /\ onOff \in BOOLEAN
    /\ restored \in BOOLEAN
    /\ request \in Requests \cup {None} /\ reply \in Seq(Answers) /\ done \in BOOLEAN
    /\ boots \in 1..MaxBoots

(***************************************************************************)
(* No read of an attribute the data model declares reaches the weak        *)
(* callback that fails it, unless the hook failed, and then only for the   *)
(* two measurement clusters (power_measurement.cpp:295-300 tells how this  *)
(* went wrong once).                                                       *)
(***************************************************************************)
ReadsAnswered ==
    done /\ reply = <<"Failure">> =>
        /\ hook = "failed"
        /\ Clusters[request.row].cluster \in
             {"ElectricalPowerMeasurement", "ElectricalEnergyMeasurement"}

(***************************************************************************)
(* A command a cluster advertises as accepted is never answered with       *)
(* "unsupported": whatever generated list should have led to its handler   *)
(* does (IMClusterCommandHandler.cpp:205-222).                             *)
(***************************************************************************)
AcceptedDispatched ==
    done /\ request.kind = "command" /\ request.item # "unknown" =>
        \A i \in DOMAIN reply : reply[i] \notin {"UnsupportedCommand", "UnsupportedCluster"}

(***************************************************************************)
(* Every command gets exactly one answer, from its handler or from the     *)
(* dispatcher and never from both (IMClusterCommandHandler.cpp:99-101,     *)
(* 224-226).                                                               *)
(***************************************************************************)
AnsweredOnce == done /\ request.kind = "command" => Len(reply) = 1

(***************************************************************************)
(* The quantities a controller reads from the power cluster (ActivePower   *)
(* and the two optional attributes the hook enables) are the ones its      *)
(* Accuracy list describes (power_measurement.cpp:72-78).                  *)
(***************************************************************************)
AccuracyDeclared ==
    done /\ request.kind = "accuracy" /\ "instance" \in meter =>
        /\ {reply[i] : i \in DOMAIN reply} = {"ActivePower", "RMSVoltage", "RMSCurrent"}
        /\ Len(reply) = 3

(***************************************************************************)
(* When the walk over the clusters is done, and before a controller, the   *)
(* button or a poll can move the relay, it is closed exactly if the        *)
(* attribute of before the power cut says so and could be applied: the     *)
(* callback reads the value rather than assume "off", wherever its cluster *)
(* comes in the walk, and a failed one leaves the load off                 *)
(* (zcl_callbacks.cpp:42-55, relay.cpp:54-58).                             *)
(***************************************************************************)
RelayRestored == stack = "hook" => relayPin = (restored /\ onOff)

(***************************************************************************)
(* The load is off until the Matter stack runs (app_task.cpp:131-132), so  *)
(* a boot that fails leaves it off, with one exception: when StartServer() *)
(* fails the relay stays as the attribute was restored, without metering   *)
(* and so without over-power protection.                                   *)
(***************************************************************************)
LoadOffUntilStarted ==
    relayPin => app \in {"await", "polling"} \/ failedAt = "StartServer"

(***************************************************************************)
(* When the meter is polled everything PowerMeasurementUpdate() needs is   *)
(* there, although another thread made it: no reading is dropped by the    *)
(* "if (!sDelegate)" of power_measurement.cpp:354.                         *)
(***************************************************************************)
UpdateReady ==
    app = "polling" => meter = {"delegate", "instance", "energyAccess", "accuracy"}

(***************************************************************************)
(* What MatterClusterServerInitCallback() registers, on any endpoint,      *)
(* MatterClusterServerShutdownCallback() takes back.                       *)
(***************************************************************************)
ClosedClean == stack = "closed" => open = {}

\* The calls of AppTask::Init() still to come, and the steps of the Matter
\* thread before it serves: three for each cluster of the walk, three for the
\* hook.
CallsLeft ==
    [PrepareServer |-> 8, StatusLedInit |-> 7, RelayInit |-> 6, BoardInit |-> 5,
     RegisterEventHandler |-> 4, IdentifyInit |-> 3, StartServer |-> 2, await |-> 1,
     polling |-> 0, halted |-> 0]
HookLeft == [epm |-> 3, eem |-> 2, accuracy |-> 1, ok |-> 0, failed |-> 0]
StartLeft ==
    CASE stack = "down" -> 3 * Len(Clusters) + 5
      [] stack = "plugins" -> 3 * Len(Clusters) + 4
      [] stack = "clusters" -> 3 * (Len(Clusters) - row) + Cardinality(pending) + 4
      [] stack = "hook" -> HookLeft[hook]
      [] OTHER -> 0
BootLeft == CallsLeft[app] + StartLeft

(***************************************************************************)
(* Between two power cuts the boot only goes forward: every call of        *)
(* Init(), every callback of the walk and every step of the hook leaves    *)
(* fewer to come, an error included; nothing is begun a second time        *)
(* (app_task.cpp:114-158, power_measurement.cpp:277-350).                  *)
(***************************************************************************)
BootAdvances ==
    [][boots' = boots =>
           \/ BootLeft' < BootLeft
           \/ /\ UNCHANGED <<boot, hook, plugins>>
              /\ stack \in {"serving", "closing", "closed"} \/ UNCHANGED <<stack, row, pending>>]_vars

(***************************************************************************)
(* While Init() waits inside StartServer() (app_task.cpp:149-152), either  *)
(* the Matter thread is still starting or what Init() waits for is there,  *)
(* whichever of its steps failed: the two never wait for each other.       *)
(***************************************************************************)
BootNotStuck ==
    app = "await" =>
        stack \in {"plugins", "clusters", "hook", "stopped"} \/ hook \in {"ok", "failed"}

(***************************************************************************)
(* Every boot comes to an end, with the meter polled or with an error      *)
(* returned: Init() never waits for ever for the Matter thread.            *)
(***************************************************************************)
BootEnds == []<>(app \in Outcome)
=============================================================================
