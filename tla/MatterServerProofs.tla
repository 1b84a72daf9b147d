------------------------- MODULE MatterServerProofs -------------------------
(***************************************************************************)
(* Theorems about MatterServer, for any number of power cuts and requests. *)
(* The tables of DataModel are constants of the code, and the facts about  *)
(* them that the proofs need are lemmas evaluated from the tables.         *)
(***************************************************************************)
EXTENDS MatterServer, SequenceTheorems, FiniteSetTheorems, TLAPS

CodeDriven(r) == Clusters[r].cluster \in CodeDrivenInit
Measured == {"ElectricalPowerMeasurement", "ElectricalEnergyMeasurement"}

\* Which calls of AppTask::Init() lie behind, and that the Matter thread
\* exists exactly after StartServer().
BootInv ==
    /\ app = "halted" <=> failedAt # "none"
    /\ stack = "down" <=> (\/ app \in Stages \ {"await"}
                           \/ app = "halted" /\ failedAt # "StartServer")
    /\ app \in {"BoardInit", "RegisterEventHandler", "IdentifyInit", "StartServer", "await",
                "polling"} => sInitialised
    /\ failedAt = "StartServer" => sInitialised
    /\ app = "polling" => hook = "ok"

\* What the hook has made so far, and when it runs.
HookInv ==
    /\ stack \in {"down", "plugins", "clusters"} => hook = "epm"
    /\ stack = "hook" => hook \in {"epm", "eem", "accuracy"}
    /\ stack \in {"serving", "closing", "closed"} => hook \in {"ok", "failed"}
    /\ hook = "epm" => meter = {}
    /\ hook = "eem" => meter = {"delegate", "instance"}
    /\ hook = "accuracy" => meter = {"delegate", "instance", "energyAccess"}
    /\ hook = "ok" => meter = {"delegate", "instance", "energyAccess", "accuracy"}
    /\ hook = "failed" => meter \in {{}, {"delegate", "instance"}}

RelayInv ==
    /\ stack = "down" => relayPin = FALSE /\ restored = FALSE
    /\ stack \in {"plugins", "clusters", "hook"} => relayPin = (restored /\ onOff)

\* The rows the first walk has made the code-driven callback for.
RegisteredSoFar ==
    \A r \in Rows : CodeDriven(r) /\ (r < row \/ (r = row /\ "codeDriven" \notin pending))
                       => Path(r) \in open

\* The walks over the data model: what they have registered or taken back.
OpenInv ==
    /\ open \subseteq {Path(r) : r \in {s \in Rows : CodeDriven(s)}}
    /\ stack \in {"down", "plugins"} => row = 1 /\ pending = Callbacks
    /\ stack \in {"clusters", "hook", "serving"} => plugins = Plugins
    /\ stack = "clusters" => RegisteredSoFar
    /\ stack \in {"hook", "serving"} => \A r \in Rows : CodeDriven(r) => Path(r) \in open
    /\ stack = "closing" => \A r \in Rows : r < row => Path(r) \notin open
    /\ stack = "closed" => open = {}

\* A request is one Receive can make.
RequestInv ==
    /\ request.kind = "accuracy" => Clusters[request.row].cluster = "ElectricalPowerMeasurement"
    /\ request.kind = "read" /\ request.item = "external" => HasExternal(Clusters[request.row])
    /\ ~done => stack = "serving"
    /\ stack \in {"down", "plugins", "clusters", "hook"} => request.kind = "none"

\* What has been told so far.
ReplyInv ==
    /\ ~done /\ request.kind # "accuracy" => reply = <<>>
    /\ request.kind = "accuracy" =>
         \/ reply = <<"Failure">> /\ done /\ "instance" \notin meter
         \/ /\ Len(reply) <= 3
            /\ \A i \in 1..Len(reply) : reply[i] = MeasurementSpecs[i].type
            /\ done => Len(reply) = 3

Inv ==
    /\ TypeOK /\ BootInv /\ HookInv /\ RelayInv /\ OpenInv /\ RequestInv /\ ReplyInv
    /\ ReadsAnswered /\ AcceptedDispatched /\ AnsweredOnce
-----------------------------------------------------------------------------
(***************************************************************************)
(* Facts about the generated tables.                                       *)
(***************************************************************************)
LEMMA RootLength == Len(RootClusters) = 16
BY DEF RootClusters

LEMMA PlugLength == Len(PlugClusters) = 5
BY DEF PlugClusters

LEMMA Concatenation ==
    ASSUME NEW S, NEW s \in Seq(S), NEW t \in Seq(S), Len(s) = 16, Len(t) = 5
    PROVE  /\ Len(s \o t) = 21
           /\ \A i \in 1..21 : (s \o t)[i] = IF i <= 16 THEN s[i] ELSE t[i - 16]
<1> DEFINE u == s \o t
           m == Len(s)
           n == Len(t)
<1>1. Len(u) = m + n
  BY ConcatProperties
<1>2. \A i \in 1..m + n : u[i] = IF i <= m THEN s[i] ELSE t[i - m]
  BY ConcatProperties
<1>3. m = 16 /\ n = 5
  OBVIOUS
<1> HIDE DEF u, m, n
<1>4. Len(u) = 21 /\ \A i \in 1..21 : u[i] = IF i <= 16 THEN s[i] ELSE t[i - 16]
  BY ONLY <1>1, <1>2, <1>3
<1> QED BY <1>4 DEF u

LEMMA ClusterRows ==
    /\ Len(Clusters) = 21
    /\ \A i \in 1..21 :
         Clusters[i] = IF i <= 16 THEN RootClusters[i] ELSE PlugClusters[i - 16]
<1> DEFINE S == {RootClusters[i] : i \in 1..16} \cup {PlugClusters[i] : i \in 1..5}
<1>1. (\A i \in 1..16 : RootClusters[i] \in S) /\ (\A i \in 1..5 : PlugClusters[i] \in S)
  OBVIOUS
<1> HIDE DEF S
<1>2. RootClusters \in Seq(S)
  BY <1>1, RootLength DEF RootClusters
<1>3. PlugClusters \in Seq(S)
  BY <1>1, PlugLength DEF PlugClusters
<1> QED BY <1>2, <1>3, RootLength, PlugLength, Concatenation, ZenonT(60) DEF Clusters

LEMMA RowsAre == Rows = 1..21
BY ClusterRows DEF Rows

\* Every cluster with an attribute outside RAM is in a list that makes
\* something answer for it.
LEMMA ExternalCovered ==
    \A r \in Rows : HasExternal(Clusters[r]) =>
        Clusters[r].cluster \in CodeDrivenInit \cup PluginAccess \cup PlatformServed \cup Measured
<1>1. \A i \in 1..16 :
        \/ RootClusters[i].cluster \in CodeDrivenInit \cup PluginAccess \cup PlatformServed
        \/ /\ RootClusters[i].cluster = "OtaSoftwareUpdateProvider"
           /\ RootClusters[i].attributeCount = 0 /\ RootClusters[i].endpoint = 0
  BY DEF RootClusters, Cluster, CodeDrivenInit, PluginAccess, PlatformServed
<1>2. \A i \in 1..5 :
        \/ PlugClusters[i].cluster \in CodeDrivenInit \cup Measured
        \/ /\ PlugClusters[i].cluster = "OnOff"
           /\ PlugClusters[i].attributeCount = 3 /\ PlugClusters[i].endpoint = 1
  BY DEF PlugClusters, Cluster, CodeDrivenInit, Measured
<1>3. ASSUME NEW r, r.cluster = "OtaSoftwareUpdateProvider", r.attributeCount = 0, r.endpoint = 0
      PROVE  ~HasExternal(r)
  <2>1. Ram(r) = <<>>
    BY <1>3 DEF Ram, RootRam
  <2> QED BY <2>1, <1>3 DEF HasExternal
<1>4. ASSUME NEW r, r.cluster = "OnOff", r.attributeCount = 3, r.endpoint = 1
      PROVE  ~HasExternal(r)
  <2>1. Ram(r) = <<1, 4, 2>>
    BY <1>4 DEF Ram, PlugRam
  <2> QED BY <2>1, <1>4 DEF HasExternal
<1>5. TAKE r \in Rows
<1>6. CASE r <= 16
  BY <1>1, <1>3, <1>6, ClusterRows, RowsAre
<1>7. CASE ~(r <= 16)
  <2>1. r - 16 \in 1..5 /\ Clusters[r] = PlugClusters[r - 16]
    BY <1>7, ClusterRows, RowsAre
  <2> QED BY <2>1, <1>2, <1>4
<1> QED BY <1>6, <1>7

\* A command a cluster accepts has a handler the generated code leads to.
LEMMA AcceptedRouted ==
    ASSUME NEW r, NEW c \in Accepts(r)
    PROVE  \/ r.cluster \in CodeDrivenInit \cup PlatformServed
           \/ r.cluster \in DOMAIN DispatchTable /\ c \in DispatchTable[r.cluster]
BY DEF Accepts, AcceptedCommands, CodeDrivenInit, PlatformServed, DispatchTable, OnOffDispatch,
       OtaRequestorDispatch, ThreadDiagnosticsDispatch

LEMMA UnknownNotAccepted == \A r : "unknown" \notin Accepts(r)
BY DEF Accepts, AcceptedCommands

LEMMA SameCases == CodeDrivenShutdown = CodeDrivenInit
BY DEF CodeDrivenShutdown, CodeDrivenInit

LEMMA SpecTypes ==
    /\ Len(MeasurementSpecs) = 3 /\ DOMAIN MeasurementSpecs = 1..3
    /\ MeasurementSpecs[1].type = "ActivePower"
    /\ MeasurementSpecs[2].type = "RMSVoltage"
    /\ MeasurementSpecs[3].type = "RMSCurrent"
BY DEF MeasurementSpecs
-----------------------------------------------------------------------------
(***************************************************************************)
(* The first state, and one lemma per part of the invariant.               *)
(***************************************************************************)
LEMMA NoneIsOne == 1 \in Rows /\ None.row = 1 /\ None.kind = "none" /\ None.item = "none"
BY RowsAre DEF None

LEMMA InitInv == Init => Inv
<1> SUFFICES ASSUME Init PROVE Inv
  OBVIOUS
<1>1. TypeOK
  <2>1. reply \in Seq(Answers)
    BY DEF Init
  <2>2. boots \in 1..MaxBoots
    BY ServerAssumption DEF Init
  <2> QED BY <2>1, <2>2, NoneIsOne DEF Init, TypeOK, Stages, Callbacks
<1>2. BootInv
  BY DEF Init, BootInv, Stages
<1>3. HookInv /\ RelayInv
  BY DEF Init, HookInv, RelayInv
<1>4. OpenInv
  BY DEF Init, OpenInv
<1>5. RequestInv /\ ReplyInv
  BY NoneIsOne DEF Init, RequestInv, ReplyInv
<1>6. ReadsAnswered /\ AcceptedDispatched /\ AnsweredOnce
  <2>1. reply # <<"Failure">>
    BY DEF Init
  <2> QED BY <2>1, NoneIsOne DEF Init, ReadsAnswered, AcceptedDispatched, AnsweredOnce
<1> QED BY <1>1, <1>2, <1>3, <1>4, <1>5, <1>6 DEF Inv

LEMMA BootStep == TypeOK /\ BootInv /\ HookInv /\ [Next]_vars => BootInv'
<1> SUFFICES ASSUME TypeOK, BootInv, HookInv, [Next]_vars PROVE BootInv'
  OBVIOUS
<1> USE DEF BootInv, Stages
<1>1. CASE AppTask
  <2>1. CASE RelayInit
    BY <2>1 DEF RelayInit, InitReturnsError, relay
  <2>2. CASE StartServer
    BY <2>2 DEF StartServer, relay
  <2>3. CASE ServerStarted
    BY <2>3, HookInv DEF ServerStarted, HookInv, relay
  <2>4. ASSUME NEW s \in Stages, NEW t \in Stages, PlainCall(s, t),
               <<s, t>> \in {<<"PrepareServer", "StatusLedInit">>, <<"StatusLedInit", "RelayInit">>,
                             <<"BoardInit", "RegisterEventHandler">>,
                             <<"RegisterEventHandler", "IdentifyInit">>,
                             <<"IdentifyInit", "StartServer">>}
        PROVE  BootInv'
    BY <2>4 DEF PlainCall, InitReturnsError, relay
  <2> QED BY <1>1, <2>1, <2>2, <2>3, <2>4 DEF AppTask, PrepareServer, StatusLedInit, BoardInit,
                                               RegisterEventHandler, IdentifyInit
<1>2. CASE ServerStart
  BY <1>2, HookInv DEF ServerStart, InitPlugins, EmberClusterInit, CodeDrivenClusterInit,
       NextCluster, InitPowerInstance, InitEnergyAccess, SetEnergyAccuracy, HookFails, HookInv,
       boot, relay
<1>3. CASE ServerInitFails \/ ShutdownServer \/ CodeDrivenClusterShutdown
  BY <1>3 DEF ServerInitFails, ShutdownServer, CodeDrivenClusterShutdown, boot, relay
<1>4. CASE Receive
  BY <1>4 DEF Receive, boot, relay
<1>5. CASE Serve
  BY <1>5 DEF Serve, ReadAttribute, ReadAccuracy, DispatchCommand, WriteOnOff, boot, relay
<1>6. CASE PowerCut
  BY <1>6 DEF PowerCut
<1>7. CASE UNCHANGED vars
  BY <1>7 DEF vars, boot, relay
<1> QED BY <1>1, <1>2, <1>3, <1>4, <1>5, <1>6, <1>7 DEF Next

LEMMA HookStep == TypeOK /\ BootInv /\ HookInv /\ [Next]_vars => HookInv'
<1> SUFFICES ASSUME TypeOK, BootInv, HookInv, [Next]_vars PROVE HookInv'
  OBVIOUS
<1> USE DEF HookInv
<1>1. CASE AppTask
  BY <1>1, BootInv DEF BootInv, Stages, AppTask, PrepareServer, StatusLedInit, RelayInit, BoardInit,
       RegisterEventHandler, IdentifyInit, StartServer, ServerStarted, PlainCall, InitReturnsError
<1>2. CASE InitPlugins \/ EmberClusterInit \/ CodeDrivenClusterInit \/ NextCluster
  BY <1>2 DEF InitPlugins, EmberClusterInit, CodeDrivenClusterInit, NextCluster
<1>3. CASE InitPowerInstance
  BY <1>3 DEF InitPowerInstance, HookFails
<1>4. CASE InitEnergyAccess
  BY <1>4 DEF InitEnergyAccess, HookFails
<1>5. CASE SetEnergyAccuracy
  BY <1>5 DEF SetEnergyAccuracy, HookFails
<1>6. CASE ServerInitFails \/ ShutdownServer \/ CodeDrivenClusterShutdown \/ Receive \/ Serve
  BY <1>6 DEF ServerInitFails, ShutdownServer, CodeDrivenClusterShutdown, Receive, Serve,
       ReadAttribute, ReadAccuracy, DispatchCommand
<1>7. CASE PowerCut
  BY <1>7 DEF PowerCut
<1>8. CASE UNCHANGED vars
  BY <1>8 DEF vars
<1> QED BY <1>1, <1>2, <1>3, <1>4, <1>5, <1>6, <1>7, <1>8 DEF Next, ServerStart

LEMMA RelayStep == TypeOK /\ BootInv /\ RelayInv /\ [Next]_vars => RelayInv'
<1> SUFFICES ASSUME TypeOK, BootInv, RelayInv, [Next]_vars PROVE RelayInv'
  OBVIOUS
<1> USE DEF RelayInv
<1>1. CASE AppTask
  <2>1. CASE RelayInit
    <3>1. stack = "down" /\ stack' = stack
      BY <2>1, BootInv DEF RelayInit, BootInv, Stages
    <3> QED BY <2>1, <3>1, Zenon DEF RelayInit, relay
  <2>2. CASE StartServer
    <3>1. stack = "down" /\ stack' = "plugins"
      BY <2>2, BootInv DEF StartServer, BootInv, Stages
    <3>2. relayPin' = FALSE /\ restored' = FALSE
      BY <2>2, <3>1 DEF StartServer, relay
    <3> QED BY <3>1, <3>2
  <2>3. CASE UNCHANGED <<stack, relay>>
    BY <2>3 DEF relay
  <2> QED BY <1>1, <2>1, <2>2, <2>3 DEF AppTask, PrepareServer, StatusLedInit, BoardInit,
       RegisterEventHandler, IdentifyInit, ServerStarted, PlainCall
<1>2. CASE EmberClusterInit
  <2>1. stack = "clusters" /\ stack' = "clusters" /\ onOff' = onOff
    BY <1>2 DEF EmberClusterInit
  <2>2. \/ UNCHANGED <<relayPin, restored>>
        \/ relayPin' = onOff /\ restored' = TRUE
        \/ relayPin' = relayPin /\ restored' = restored
    <3>1. sInitialised
      BY <1>2, BootInv DEF EmberClusterInit, BootInv, TypeOK, Stages, Outcome
    <3>2. restored \in BOOLEAN
      BY DEF TypeOK
    <3> QED BY <1>2, <3>1, <3>2, Zenon DEF EmberClusterInit, OnOffClusterInit, WeakClusterInit,
                                           ApplyOnOff
  <2> QED BY <2>1, <2>2 DEF TypeOK
<1>3. CASE InitPlugins \/ CodeDrivenClusterInit \/ NextCluster \/ InitPowerInstance
             \/ InitEnergyAccess \/ SetEnergyAccuracy
  BY <1>3 DEF InitPlugins, CodeDrivenClusterInit, NextCluster, InitPowerInstance,
       InitEnergyAccess, SetEnergyAccuracy, HookFails, relay
<1>4. CASE ServerInitFails \/ ShutdownServer \/ CodeDrivenClusterShutdown \/ Receive
             \/ ReadAttribute \/ ReadAccuracy
  BY <1>4 DEF ServerInitFails, ShutdownServer, CodeDrivenClusterShutdown, Receive,
       ReadAttribute, ReadAccuracy, relay
<1>5. CASE DispatchCommand
  BY <1>5 DEF DispatchCommand
<1>6. CASE PowerCut
  BY <1>6 DEF PowerCut
<1>7. CASE UNCHANGED vars
  BY <1>7 DEF vars, relay
<1> QED BY <1>1, <1>2, <1>3, <1>4, <1>5, <1>6, <1>7 DEF Next, ServerStart, Serve

\* Two rows with one path hold the same cluster.
LEMMA SamePath ==
    ASSUME NEW r \in Rows, NEW q \in Rows, Path(r) = Path(q)
    PROVE  CodeDriven(r) <=> CodeDriven(q)
BY DEF Path, CodeDriven

LEMMA OpenStep == TypeOK /\ BootInv /\ HookInv /\ OpenInv /\ [Next]_vars => OpenInv'
<1> SUFFICES ASSUME TypeOK, BootInv, HookInv, OpenInv, [Next]_vars PROVE OpenInv'
  OBVIOUS
<1>0. row \in Nat /\ Len(Clusters) = 21 /\ Rows = 1..21
  BY RowsAre, ClusterRows DEF TypeOK
<1>1. CASE AppTask
  BY <1>1, BootInv DEF OpenInv, RegisteredSoFar, BootInv, Stages, AppTask, PrepareServer, StatusLedInit, RelayInit,
       BoardInit, RegisterEventHandler, IdentifyInit, StartServer, ServerStarted, PlainCall,
       InitReturnsError, data
<1>2. CASE InitPlugins
  BY <1>2, <1>0 DEF InitPlugins, OpenInv, RegisteredSoFar, Callbacks
<1>3. CASE EmberClusterInit
  BY <1>3 DEF EmberClusterInit, OpenInv, RegisteredSoFar
<1>4. CASE CodeDrivenClusterInit
  <2>1. open' \subseteq {Path(r) : r \in {s \in Rows : CodeDriven(s)}}
    BY <1>4 DEF CodeDrivenClusterInit, OpenInv, CodeDriven
  <2>2. \A r \in Rows : CodeDriven(r) /\ (r < row \/ r = row) => Path(r) \in open'
    <3>1. open \subseteq open' /\ (CodeDriven(row) => Path(row) \in open')
      BY <1>4 DEF CodeDrivenClusterInit, CodeDriven
    <3>2. \A r \in Rows : CodeDriven(r) /\ r < row => Path(r) \in open
      <4>1. stack = "clusters"
        BY <1>4 DEF CodeDrivenClusterInit
      <4>2. RegisteredSoFar
        BY <4>1 DEF OpenInv
      <4> QED BY ONLY <4>2 DEF RegisteredSoFar
    <3> QED BY ONLY <3>1, <3>2
  <2>3. stack' = "clusters" /\ row' = row /\ plugins' = plugins
    BY <1>4 DEF CodeDrivenClusterInit
  <2>4. plugins = Plugins
    BY <1>4 DEF CodeDrivenClusterInit, OpenInv
  <2> QED BY <2>1, <2>2, <2>3, <2>4 DEF OpenInv, RegisteredSoFar
<1>5. CASE NextCluster
  <2>1. \A r \in Rows : CodeDriven(r) /\ r < row + 1 => Path(r) \in open
    BY <1>5, <1>0 DEF NextCluster, OpenInv, RegisteredSoFar
  <2>2. CASE row < Len(Clusters)
    <3>1. row' = row + 1 /\ stack' = "clusters" /\ open' = open /\ plugins' = plugins
            /\ pending' = Callbacks
      BY <1>5, <2>2 DEF NextCluster
    <3>2. "codeDriven" \in pending'
      BY <3>1 DEF Callbacks
    <3> QED BY <1>5, <2>1, <3>1, <3>2 DEF NextCluster, OpenInv, RegisteredSoFar
  <2>3. CASE ~(row < Len(Clusters))
    <3>1. row' = 1 /\ stack' = "hook" /\ open' = open /\ plugins' = plugins
      BY <1>5, <2>3 DEF NextCluster
    <3>2. \A r \in Rows : r < row + 1
      BY <1>0, <2>3
    <3> QED BY <1>5, <2>1, <3>1, <3>2 DEF NextCluster, OpenInv, RegisteredSoFar
  <2> QED BY <2>2, <2>3
<1>6. CASE InitPowerInstance \/ InitEnergyAccess \/ SetEnergyAccuracy \/ ServerInitFails
             \/ Receive \/ Serve
  BY <1>6 DEF InitPowerInstance, InitEnergyAccess, SetEnergyAccuracy, HookFails, OpenInv,
       ServerInitFails, Receive, Serve, ReadAttribute, ReadAccuracy, DispatchCommand, data
<1>7. CASE ShutdownServer
  BY <1>7, <1>0 DEF ShutdownServer, OpenInv
<1>8. CASE CodeDrivenClusterShutdown
  <2>1. open' \subseteq open
    BY <1>8 DEF CodeDrivenClusterShutdown
  <2>2. Path(row) \notin open'
    <3>1. CASE CodeDriven(row)
      BY <1>8, <3>1, SameCases DEF CodeDrivenClusterShutdown, CodeDriven
    <3>2. CASE ~CodeDriven(row)
      BY <3>2, <2>1, SamePath DEF OpenInv, TypeOK
    <3> QED BY <3>1, <3>2
  <2>3. \A r \in Rows : r < row + 1 => Path(r) \notin open'
    BY <1>0, <1>8, <2>1, <2>2 DEF CodeDrivenClusterShutdown, OpenInv
  <2>4. CASE row < Len(Clusters)
    BY <1>8, <2>1, <2>3, <2>4 DEF CodeDrivenClusterShutdown, OpenInv
  <2>5. CASE ~(row < Len(Clusters))
    <3>1. \A r \in Rows : r < row + 1
      BY <1>0, <2>5
    <3>2. open' = {}
      BY <2>1, <2>3, <3>1 DEF OpenInv
    <3>3. stack' = "closed"
      BY <1>8, <2>5 DEF CodeDrivenClusterShutdown
    <3> QED BY <3>2, <3>3 DEF OpenInv
  <2> QED BY <2>4, <2>5
<1>9. CASE PowerCut
  BY <1>9 DEF PowerCut, OpenInv
<1>10. CASE UNCHANGED vars
  BY <1>10 DEF vars, data, OpenInv, RegisteredSoFar
<1> QED BY <1>1, <1>2, <1>3, <1>4, <1>5, <1>6, <1>7, <1>8, <1>9, <1>10 DEF Next, ServerStart

LEMMA RequestStep == TypeOK /\ BootInv /\ RequestInv /\ [Next]_vars => RequestInv'
<1> SUFFICES ASSUME TypeOK, BootInv, RequestInv, [Next]_vars PROVE RequestInv'
  OBVIOUS
<1> USE DEF RequestInv
<1>1. CASE AppTask
  BY <1>1, BootInv DEF BootInv, Stages, AppTask, PrepareServer, StatusLedInit, RelayInit, BoardInit,
       RegisterEventHandler, IdentifyInit, StartServer, ServerStarted, PlainCall, session
<1>2. CASE ServerStart
  BY <1>2 DEF ServerStart, InitPlugins, EmberClusterInit, CodeDrivenClusterInit, NextCluster,
       InitPowerInstance, InitEnergyAccess, SetEnergyAccuracy, HookFails, session
<1>3. CASE ServerInitFails \/ ShutdownServer \/ CodeDrivenClusterShutdown
  BY <1>3 DEF ServerInitFails, ShutdownServer, CodeDrivenClusterShutdown, session
<1>4. CASE Receive
  BY <1>4 DEF Receive
<1>5. CASE Serve
  BY <1>5 DEF Serve, ReadAttribute, ReadAccuracy, DispatchCommand
<1>6. CASE PowerCut
  BY <1>6, NoneIsOne DEF PowerCut
<1>7. CASE UNCHANGED vars
  BY <1>7 DEF vars, session
<1> QED BY <1>1, <1>2, <1>3, <1>4, <1>5, <1>6, <1>7 DEF Next

\* The actions that neither answer nor ask leave the session alone, but for
\* the power cut, which ends it.
SessionIdle == UNCHANGED session

LEMMA SessionCases ==
    ASSUME [Next]_vars
    PROVE  SessionIdle \/ Receive \/ Serve \/ PowerCut
BY DEF SessionIdle, Next, vars, AppTask, PrepareServer, StatusLedInit, RelayInit, BoardInit,
       RegisterEventHandler, IdentifyInit, StartServer, ServerStarted, PlainCall, ServerStart,
       InitPlugins, EmberClusterInit, CodeDrivenClusterInit, NextCluster, InitPowerInstance,
       InitEnergyAccess, SetEnergyAccuracy, ServerInitFails, ShutdownServer,
       CodeDrivenClusterShutdown

\* The measurement objects change only before the server serves.
LEMMA MeterKept ==
    ASSUME [Next]_vars, HookInv
    PROVE  PowerCut \/ stack = "hook" \/ UNCHANGED <<hook, meter>>
BY DEF HookInv, Next, vars, AppTask, PrepareServer, StatusLedInit, RelayInit, BoardInit,
       RegisterEventHandler, IdentifyInit, StartServer, ServerStarted, PlainCall, ServerStart,
       InitPlugins, EmberClusterInit, CodeDrivenClusterInit, NextCluster, InitPowerInstance,
       InitEnergyAccess, SetEnergyAccuracy, ServerInitFails, ShutdownServer,
       CodeDrivenClusterShutdown, Receive, Serve, ReadAttribute, ReadAccuracy, DispatchCommand

LEMMA GetAccuracy ==
    ASSUME NEW n \in Nat
    PROVE  GetAccuracyByIndex(n) = IF n < 3 THEN MeasurementSpecs[n + 1].type ELSE "exhausted"
BY SpecTypes DEF GetAccuracyByIndex

\* How a command is answered, in each of the ways it can go.
LEMMA DispatchAnswers ==
    ASSUME DispatchCommand
    PROVE  \/ /\ Path(request.row) \in open \/ Clusters[request.row].cluster \in PlatformServed
              /\ reply' = <<"answer">>
           \/ /\ ~(Path(request.row) \in open)
              /\ Clusters[request.row].cluster \notin PlatformServed
              /\ \/ reply' = <<"answer">>
                 \/ reply' = <<"InvalidCommand">>
                 \/ /\ reply' = <<"UnsupportedCommand">>
                    /\ Clusters[request.row].cluster \in DOMAIN DispatchTable
                    /\ request.item \notin DispatchTable[Clusters[request.row].cluster]
                 \/ /\ reply' = <<"UnsupportedCluster">>
                    /\ Clusters[request.row].cluster \notin DOMAIN DispatchTable
<1> DEFINE cluster == Clusters[request.row].cluster
           command == request.item
<1>1. CASE Path(request.row) \in open \/ cluster \in PlatformServed
  BY <1>1 DEF DispatchCommand
<1>2. CASE ~(Path(request.row) \in open \/ cluster \in PlatformServed)
  <2>1. PICK decodes, handled \in BOOLEAN :
          LET called == cluster \in DOMAIN DispatchTable /\ command \in DispatchTable[cluster]
                          /\ decodes
          IN  reply' = (IF called /\ handled THEN <<"answer">> ELSE <<>>)
                          \o DispatchStatus(cluster, command, decodes, called /\ handled)
    BY <1>2 DEF DispatchCommand
  <2> DEFINE called == cluster \in DOMAIN DispatchTable /\ command \in DispatchTable[cluster]
                         /\ decodes
  <2>2. CASE called /\ handled
    <3>1. DispatchStatus(cluster, command, decodes, called /\ handled) = <<>>
      BY <2>2 DEF DispatchStatus, DispatchServerCommand
    <3>2. reply' = <<"answer">> \o <<>>
      BY <2>1, <2>2, <3>1
    <3> QED BY <1>2, <3>2
  <2>3. CASE ~(called /\ handled)
    <3>1. reply' = <<>> \o DispatchStatus(cluster, command, decodes, called /\ handled)
      BY <2>1, <2>3
    <3>2. \/ DispatchStatus(cluster, command, decodes, called /\ handled) = <<"InvalidCommand">>
          \/ /\ DispatchStatus(cluster, command, decodes, called /\ handled)
                   = <<"UnsupportedCommand">>
             /\ cluster \in DOMAIN DispatchTable /\ command \notin DispatchTable[cluster]
          \/ /\ DispatchStatus(cluster, command, decodes, called /\ handled)
                   = <<"UnsupportedCluster">>
             /\ cluster \notin DOMAIN DispatchTable
      BY <2>3 DEF DispatchStatus, DispatchServerCommand
    <3> HIDE DEF cluster, command, called
    <3>3. <<>> \o <<"InvalidCommand">> = <<"InvalidCommand">>
      OBVIOUS
    <3>4. <<>> \o <<"UnsupportedCommand">> = <<"UnsupportedCommand">>
      OBVIOUS
    <3>5. <<>> \o <<"UnsupportedCluster">> = <<"UnsupportedCluster">>
      OBVIOUS
    <3> QED BY <1>2, <3>1, <3>2, <3>3, <3>4, <3>5 DEF cluster, command
  <2> QED BY <2>2, <2>3
<1> QED BY <1>1, <1>2

LEMMA ReplyStep == TypeOK /\ HookInv /\ RequestInv /\ ReplyInv /\ [Next]_vars => ReplyInv'
<1> SUFFICES ASSUME TypeOK, HookInv, RequestInv, ReplyInv, [Next]_vars PROVE ReplyInv'
  OBVIOUS
<1>1. CASE SessionIdle
  <2>1. CASE PowerCut
    BY <2>1, NoneIsOne DEF PowerCut, ReplyInv
  <2>2. CASE UNCHANGED <<hook, meter>>
    BY <1>1, <2>2 DEF SessionIdle, session, ReplyInv
  <2>3. CASE stack = "hook" /\ ~PowerCut
    <3>1. done /\ request.kind = "none"
      BY <2>3 DEF RequestInv
    <3> QED BY <1>1, <2>3, <3>1, MeterKept DEF SessionIdle, session, ReplyInv, TypeOK
  <2> QED BY <2>1, <2>2, <2>3, MeterKept
<1>2. CASE Receive
  <2>1. reply' = <<>> /\ done' = FALSE /\ Len(reply') = 0
    BY <1>2 DEF Receive
  <2> QED BY <2>1 DEF ReplyInv
<1>3. CASE ReadAttribute \/ DispatchCommand
  BY <1>3 DEF ReadAttribute, DispatchCommand, ReplyInv
<1>4. CASE ReadAccuracy
  <2>1. request.kind = "accuracy" /\ ~done /\ request' = request /\ meter' = meter
    BY <1>4 DEF ReadAccuracy
  <2>2. /\ Len(reply) <= 3 /\ Len(reply) \in Nat
        /\ \A i \in 1..Len(reply) : reply[i] = MeasurementSpecs[i].type
    BY <2>1 DEF ReplyInv, TypeOK
  <2>3. CASE "instance" \notin meter
    BY <1>4, <2>1, <2>3 DEF ReadAccuracy, ReplyInv
  <2>4. CASE "instance" \in meter /\ Len(reply) < 3
    <3> DEFINE entry == MeasurementSpecs[Len(reply) + 1].type
    <3>1. GetAccuracyByIndex(Len(reply)) = entry /\ entry # "exhausted"
      <4>1. Len(reply) + 1 \in 1..3
        BY <2>2, <2>4
      <4>2. entry \in {"ActivePower", "RMSVoltage", "RMSCurrent"}
        BY <4>1, SpecTypes
      <4> QED BY <2>2, <2>4, <4>2, GetAccuracy
    <3>2. reply' = Append(reply, entry) /\ done' = FALSE
      BY <1>4, <2>1, <2>4, <3>1 DEF ReadAccuracy, TypeOK
    <3> HIDE DEF entry
    <3>3. /\ Len(reply') = Len(reply) + 1
          /\ \A i \in 1..Len(reply) : reply'[i] = reply[i]
          /\ reply'[Len(reply) + 1] = entry
      BY <3>2, AppendProperties DEF TypeOK
    <3>4. \A i \in 1..Len(reply') : reply'[i] = MeasurementSpecs[i].type
      BY <2>2, <3>3 DEF entry
    <3> QED BY <2>1, <2>2, <2>4, <3>2, <3>3, <3>4 DEF ReplyInv
  <2>5. CASE "instance" \in meter /\ ~(Len(reply) < 3)
    <3>1. GetAccuracyByIndex(Len(reply)) = "exhausted"
      BY <2>2, <2>5, GetAccuracy
    <3>2. reply' = reply /\ done' = TRUE
      BY <1>4, <2>1, <2>5, <3>1 DEF ReadAccuracy
    <3>3. Len(reply') = 3 /\ \A i \in 1..Len(reply') : reply'[i] = MeasurementSpecs[i].type
      <4> DEFINE n == Len(reply)
      <4>3. n \in Nat /\ n <= 3 /\ ~(n < 3)
        BY <2>2, <2>5
      <4>4. n = 3
        <5> HIDE DEF n
        <5> QED BY ONLY <4>3
      <4>1. Len(reply) = 3
        BY <4>4
      <4>2. \A i \in 1..Len(reply) : reply[i] = MeasurementSpecs[i].type
        BY <2>2
      <4> QED BY ONLY <3>2, <4>1, <4>2
    <3> QED BY <2>1, <3>2, <3>3 DEF ReplyInv
  <2> QED BY <2>3, <2>4, <2>5
<1>5. CASE PowerCut
  BY <1>5, NoneIsOne DEF PowerCut, ReplyInv
<1> QED BY <1>1, <1>2, <1>3, <1>4, <1>5, SessionCases DEF Serve

\* The three properties about finished requests.
LEMMA ServedStep ==
    /\ TypeOK /\ HookInv /\ OpenInv /\ RequestInv /\ ReplyInv
    /\ ReadsAnswered /\ AcceptedDispatched /\ AnsweredOnce
    /\ [Next]_vars
    => (ReadsAnswered /\ AcceptedDispatched /\ AnsweredOnce)'
<1> SUFFICES ASSUME TypeOK, HookInv, OpenInv, RequestInv, ReplyInv,
                    ReadsAnswered, AcceptedDispatched, AnsweredOnce, [Next]_vars
             PROVE  (ReadsAnswered /\ AcceptedDispatched /\ AnsweredOnce)'
  OBVIOUS
<1>1. CASE SessionIdle
  <2>1. AcceptedDispatched' /\ AnsweredOnce'
    BY <1>1 DEF SessionIdle, session, AcceptedDispatched, AnsweredOnce
  <2>2. ReadsAnswered'
    <3>1. CASE PowerCut
      BY <3>1 DEF PowerCut, ReadsAnswered
    <3>2. CASE UNCHANGED <<hook, meter>>
      BY <1>1, <3>2 DEF SessionIdle, session, ReadsAnswered
    <3>3. CASE stack = "hook" /\ ~PowerCut
      BY <1>1, <3>3 DEF SessionIdle, session, ReadsAnswered, HookInv
    <3> QED BY <3>1, <3>2, <3>3, MeterKept
  <2> QED BY <2>1, <2>2
<1>2. CASE Receive
  BY <1>2 DEF Receive, ReadsAnswered, AcceptedDispatched, AnsweredOnce
<1>3. CASE ReadAttribute
  <2>1. request.kind = "read" /\ request' = request /\ UNCHANGED <<hook, meter>>
          /\ stack = "serving"
    BY <1>3 DEF ReadAttribute
  <2>2. AcceptedDispatched' /\ AnsweredOnce'
    BY <2>1 DEF AcceptedDispatched, AnsweredOnce
  <2>3. ASSUME reply' = <<"Failure">> PROVE hook = "failed" /\ Clusters[request.row].cluster \in Measured
    <3>1. request.item = "external" /\ ~Answered(request.row) /\ request.row \in Rows
      <4>1. request.item # "ram" /\ ~Answered(request.row)
        BY <1>3, <2>3 DEF ReadAttribute
      <4>2. request \in Requests
        BY <2>1, NoneIsOne DEF TypeOK
      <4> QED BY <2>1, <4>1, <4>2 DEF Requests
    <3>2. HasExternal(Clusters[request.row])
      BY <2>1, <3>1 DEF RequestInv
    <3>3. Clusters[request.row].cluster \in Measured
      <4>1. ~CodeDriven(request.row)
        BY <2>1, <3>1 DEF OpenInv, Answered
      <4>2. Clusters[request.row].cluster \notin PluginAccess
        BY <2>1, <3>1 DEF OpenInv, Answered, Plugins, PluginAccess
      <4>3. Clusters[request.row].cluster \notin PlatformServed
        BY <3>1 DEF Answered
      <4> QED BY <3>1, <3>2, <4>1, <4>2, <4>3, ExternalCovered DEF CodeDriven
    <3>4. hook = "failed"
      <4>1. hook \in {"ok", "failed"}
        BY <2>1 DEF HookInv
      <4>2. ~({"instance", "energyAccess"} \subseteq meter)
        BY <3>1, <3>3 DEF Answered, Measured
      <4> QED BY <4>1, <4>2 DEF HookInv
    <3> QED BY <3>3, <3>4
  <2>4. ReadsAnswered'
    BY <2>1, <2>3 DEF ReadsAnswered, Measured
  <2> QED BY <2>2, <2>4
<1>4. CASE ReadAccuracy
  <2>1. request.kind = "accuracy" /\ request' = request /\ UNCHANGED <<hook, meter>>
          /\ stack = "serving" /\ ~done
    BY <1>4 DEF ReadAccuracy
  <2>2. AcceptedDispatched' /\ AnsweredOnce'
    BY <2>1 DEF AcceptedDispatched, AnsweredOnce
  <2>3. ASSUME done', reply' = <<"Failure">> PROVE hook = "failed"
    <3>1. "instance" \notin meter
      <4>1. SUFFICES ASSUME "instance" \in meter PROVE FALSE
        OBVIOUS
      <4>2. reply' = reply \/ done' = done
        BY <1>4, <4>1 DEF ReadAccuracy
      <4>3. reply = <<"Failure">>
        BY <2>1, <2>3, <4>2 DEF TypeOK
      <4>4. reply[1] = "ActivePower"
        BY <2>1, <4>1, <4>3, SpecTypes DEF ReplyInv
      <4> QED BY <4>3, <4>4
    <3> QED BY <2>1, <3>1 DEF HookInv
  <2>4. ReadsAnswered'
    BY <2>1, <2>3 DEF ReadsAnswered, RequestInv
  <2> QED BY <2>2, <2>4
<1>5. CASE DispatchCommand
  <2>1. request.kind = "command" /\ request' = request /\ stack = "serving" /\ request.row \in Rows
          /\ (request.item = "unknown" \/ request.item \in Accepts(Clusters[request.row]))
    <3>1. request.kind = "command" /\ request' = request /\ stack = "serving"
      BY <1>5 DEF DispatchCommand
    <3>2. request \in Requests
      BY <3>1, NoneIsOne DEF TypeOK
    <3> QED BY <3>1, <3>2 DEF Requests
  <2>2. ReadsAnswered' /\ AnsweredOnce'
    BY <1>5, DispatchAnswers DEF ReadsAnswered, AnsweredOnce
  <2>3. AcceptedDispatched'
    <3>1. SUFFICES ASSUME request.item # "unknown"
                   PROVE  reply' = <<"answer">> \/ reply' = <<"InvalidCommand">>
      BY <2>1 DEF AcceptedDispatched
    <3>2. request.item \in Accepts(Clusters[request.row])
      BY <2>1, <3>1
    <3>3. CASE CodeDriven(request.row)
      <4>1. Path(request.row) \in open
        BY <2>1, <3>3 DEF OpenInv
      <4> QED BY <1>5, <4>1, DispatchAnswers
    <3>4. CASE ~CodeDriven(request.row)
      BY <1>5, <3>2, <3>4, DispatchAnswers, AcceptedRouted DEF CodeDriven
    <3> QED BY <3>3, <3>4
  <2> QED BY <2>2, <2>3
<1>6. CASE PowerCut
  BY <1>6, NoneIsOne DEF PowerCut, ReadsAnswered, AcceptedDispatched, AnsweredOnce
<1> QED BY <1>1, <1>2, <1>3, <1>4, <1>5, <1>6, SessionCases DEF Serve
-----------------------------------------------------------------------------
(***************************************************************************)
(* Types.                                                                  *)
(***************************************************************************)
LEMMA ReplyTypes ==
    /\ <<>> \in Seq(Answers) /\ <<"value">> \in Seq(Answers) /\ <<"Failure">> \in Seq(Answers)
    /\ <<"answer">> \in Seq(Answers) /\ <<"InvalidCommand">> \in Seq(Answers)
    /\ <<"UnsupportedCommand">> \in Seq(Answers) /\ <<"UnsupportedCluster">> \in Seq(Answers)
    /\ \A i \in 1..3 : MeasurementSpecs[i].type \in Answers
<1>1. /\ "value" \in Answers /\ "Failure" \in Answers /\ "answer" \in Answers
      /\ "InvalidCommand" \in Answers /\ "UnsupportedCommand" \in Answers
      /\ "UnsupportedCluster" \in Answers
      /\ \A i \in 1..3 : MeasurementSpecs[i].type \in Answers
  BY SpecTypes DEF Answers
<1> QED BY ONLY <1>1

\* The app task's and the relay's variables.
TypeApp ==
    /\ app \in Stages \cup Outcome /\ failedAt \in (Stages \ {"await"}) \cup {"none"}
    /\ boots \in 1..MaxBoots

LEMMA TypeAppStep == TypeApp /\ [Next]_vars => TypeApp'
<1> SUFFICES ASSUME TypeApp, [Next]_vars PROVE TypeApp'
  OBVIOUS
<1>1. CASE AppTask
  BY <1>1 DEF TypeApp, AppTask, PrepareServer, StatusLedInit, RelayInit, BoardInit,
       RegisterEventHandler, IdentifyInit, StartServer, ServerStarted, PlainCall,
       InitReturnsError, Stages, Outcome
<1>2. CASE PowerCut
  <2>1. boots' \in 1..MaxBoots
    BY <1>2, ServerAssumption DEF TypeApp, PowerCut
  <2> QED BY <1>2, <2>1 DEF TypeApp, PowerCut, Stages
<1>3. CASE ~AppTask /\ ~PowerCut
  BY <1>3 DEF TypeApp, boot, vars, Next, ServerStart, InitPlugins, EmberClusterInit,
       CodeDrivenClusterInit, NextCluster, InitPowerInstance, InitEnergyAccess,
       SetEnergyAccuracy, ServerInitFails, ShutdownServer, CodeDrivenClusterShutdown, Receive,
       Serve, ReadAttribute, ReadAccuracy, DispatchCommand
<1> QED BY <1>1, <1>2, <1>3

TypeRelay ==
    sInitialised \in BOOLEAN /\ relayPin \in BOOLEAN /\ onOff \in BOOLEAN /\ restored \in BOOLEAN

LEMMA TypeRelayStep == TypeRelay /\ [Next]_vars => TypeRelay'
<1> SUFFICES ASSUME TypeRelay, [Next]_vars PROVE TypeRelay'
  OBVIOUS
<1> USE DEF TypeRelay
<1>1. CASE RelayInit
  BY <1>1, Zenon DEF RelayInit, relay
<1>2. CASE EmberClusterInit
  BY <1>2, Zenon DEF EmberClusterInit, OnOffClusterInit, WeakClusterInit, ApplyOnOff
<1>3. CASE DispatchCommand
  <2>1. CASE UNCHANGED relay
    BY <2>1, Zenon DEF relay
  <2>2. CASE WriteOnOff(Target(request.item))
    <3>1. Target(request.item) \in BOOLEAN
      BY Zenon DEF Target
    <3>2. ASSUME NEW on \in BOOLEAN, WriteOnOff(on) PROVE TypeRelay'
      BY <3>2, Zenon DEF WriteOnOff, ApplyOnOff
    <3> QED BY <2>2, <3>1, <3>2
  <2> QED BY <1>3, <2>1, <2>2 DEF DispatchCommand
<1>4. CASE PowerCut
  BY <1>4, Zenon DEF PowerCut
<1>5. CASE UNCHANGED relay
  BY <1>5, Zenon DEF relay
<1>6. RelayInit \/ EmberClusterInit \/ DispatchCommand \/ PowerCut \/ UNCHANGED relay
  BY DEF vars, relay, Next, AppTask, PrepareServer, StatusLedInit, BoardInit,
       RegisterEventHandler, IdentifyInit, StartServer, ServerStarted, PlainCall, ServerStart,
       InitPlugins, CodeDrivenClusterInit, NextCluster, InitPowerInstance, InitEnergyAccess,
       SetEnergyAccuracy, ServerInitFails, ShutdownServer, CodeDrivenClusterShutdown, Receive,
       Serve, ReadAttribute, ReadAccuracy
<1> QED BY <1>1, <1>2, <1>3, <1>4, <1>5, <1>6

TypeServer ==
    /\ stack \in {"down", "plugins", "clusters", "hook", "serving", "stopped", "closing", "closed"}
    /\ row \in Rows /\ pending \subseteq Callbacks
    /\ plugins \in {{}, Plugins}
    /\ open \subseteq {Path(r) : r \in Rows}
    /\ hook \in {"epm", "eem", "accuracy", "ok", "failed"}
    /\ meter \subseteq {"delegate", "instance", "energyAccess", "accuracy"}

LEMMA TypeServerStep == TypeServer /\ [Next]_vars => TypeServer'
<1> SUFFICES ASSUME TypeServer, [Next]_vars PROVE TypeServer'
  OBVIOUS
<1> USE DEF TypeServer
<1>1. CASE InitPlugins \/ StartServer \/ ServerInitFails
  BY <1>1 DEF InitPlugins, StartServer, ServerInitFails, data
<1>2. CASE EmberClusterInit
  BY <1>2 DEF EmberClusterInit
<1>3. CASE CodeDrivenClusterInit
  BY <1>3 DEF CodeDrivenClusterInit
<1>4. CASE NextCluster \/ CodeDrivenClusterShutdown \/ ShutdownServer
  <2>1. row' \in Rows
    BY <1>4, RowsAre, ClusterRows DEF NextCluster, CodeDrivenClusterShutdown, ShutdownServer
  <2> QED BY <1>4, <2>1 DEF NextCluster, CodeDrivenClusterShutdown, ShutdownServer
<1>5. CASE InitPowerInstance
  BY <1>5 DEF InitPowerInstance, HookFails, data
<1>6. CASE InitEnergyAccess
  BY <1>6 DEF InitEnergyAccess, HookFails, data
<1>7. CASE SetEnergyAccuracy
  BY <1>7 DEF SetEnergyAccuracy, HookFails, data
<1>8. CASE PowerCut
  BY <1>8, NoneIsOne DEF PowerCut
<1>9. CASE UNCHANGED <<stack, data, hook, meter>>
  BY <1>9 DEF data
<1>10. \/ InitPlugins \/ StartServer \/ ServerInitFails \/ EmberClusterInit
       \/ CodeDrivenClusterInit \/ NextCluster \/ CodeDrivenClusterShutdown \/ ShutdownServer
       \/ InitPowerInstance \/ InitEnergyAccess \/ SetEnergyAccuracy \/ PowerCut
       \/ UNCHANGED <<stack, data, hook, meter>>
  BY DEF vars, data, Next, AppTask, PrepareServer, StatusLedInit, RelayInit, BoardInit,
       RegisterEventHandler, IdentifyInit, ServerStarted, PlainCall, ServerStart, Receive,
       Serve, ReadAttribute, ReadAccuracy, DispatchCommand
<1> QED BY <1>1, <1>2, <1>3, <1>4, <1>5, <1>6, <1>7, <1>8, <1>9, <1>10

TypeSession ==
    request \in Requests \cup {None} /\ reply \in Seq(Answers) /\ done \in BOOLEAN

LEMMA TypeSessionStep == TypeSession /\ ReplyInv /\ [Next]_vars => TypeSession'
<1> SUFFICES ASSUME TypeSession, ReplyInv, [Next]_vars PROVE TypeSession'
  OBVIOUS
<1>1. CASE SessionIdle
  BY <1>1 DEF SessionIdle, session, TypeSession
<1>2. CASE Receive \/ PowerCut
  BY <1>2, ReplyTypes DEF Receive, PowerCut, TypeSession
<1>3. CASE ReadAttribute
  BY <1>3, ReplyTypes DEF ReadAttribute, TypeSession
<1>4. CASE DispatchCommand
  BY <1>4, ReplyTypes, DispatchAnswers DEF DispatchCommand, TypeSession
<1>5. CASE ReadAccuracy
  <2>1. request' = request /\ done' \in BOOLEAN
    BY <1>5 DEF ReadAccuracy, TypeSession
  <2>2. reply' \in Seq(Answers)
    <3>1. CASE reply' = reply \/ reply' = <<"Failure">>
      BY <3>1, ReplyTypes DEF TypeSession
    <3>2. CASE reply' = Append(reply, GetAccuracyByIndex(Len(reply)))
                 /\ GetAccuracyByIndex(Len(reply)) # "exhausted"
      <4>1. Len(reply) \in Nat
        BY DEF TypeSession
      <4>2. Len(reply) < 3
        BY <3>2, <4>1, GetAccuracy
      <4>3. GetAccuracyByIndex(Len(reply)) \in Answers
        BY <4>1, <4>2, GetAccuracy, ReplyTypes
      <4> QED BY <3>2, <4>3, AppendProperties DEF TypeSession
    <3> QED BY <1>5, <3>1, <3>2 DEF ReadAccuracy
  <2> QED BY <2>1, <2>2 DEF TypeSession
<1> QED BY <1>1, <1>2, <1>3, <1>4, <1>5, SessionCases DEF Serve

LEMMA TypeParts == TypeOK <=> TypeApp /\ TypeRelay /\ TypeServer /\ TypeSession
BY DEF TypeOK, TypeApp, TypeRelay, TypeServer, TypeSession

LEMMA Inductive == Inv /\ [Next]_vars => Inv'
<1> SUFFICES ASSUME Inv, [Next]_vars PROVE Inv'
  OBVIOUS
<1>1. TypeOK'
  <2>1. TypeApp' /\ TypeRelay' /\ TypeServer' /\ TypeSession'
    BY TypeAppStep, TypeRelayStep, TypeServerStep, TypeSessionStep, TypeParts DEF Inv
  <2> QED BY <2>1 DEF TypeOK, TypeApp, TypeRelay, TypeServer, TypeSession
<1>2. BootInv' /\ HookInv' /\ RelayInv'
  BY BootStep, HookStep, RelayStep DEF Inv
<1>3. OpenInv' /\ RequestInv' /\ ReplyInv'
  BY OpenStep, RequestStep, ReplyStep DEF Inv
<1>4. ReadsAnswered' /\ AcceptedDispatched' /\ AnsweredOnce'
  BY ServedStep DEF Inv
<1> QED BY <1>1, <1>2, <1>3, <1>4 DEF Inv

\* The invariant holds in every state of every behaviour.
LEMMA Invariance == Spec => []Inv
<1>1. Init => Inv
  BY InitInv
<1>2. Inv /\ [Next]_vars => Inv'
  BY Inductive
<1> QED BY <1>1, <1>2, PTL DEF Spec
-----------------------------------------------------------------------------
(***************************************************************************)
(* Theorems.                                                               *)
(***************************************************************************)

\* Every variable keeps its type.
THEOREM TypeCorrect == Spec => []TypeOK
<1>1. Inv => TypeOK
  BY DEF Inv
<1> QED BY <1>1, Invariance, PTL

\* No declared attribute is left without code to answer a read of it, but for
\* the measurement clusters after a failed hook: the generated lists cover
\* the data model and PowerMeasurementInit() covers the rest.
THEOREM ReadsAreAnswered == Spec => []ReadsAnswered
<1>1. Inv => ReadsAnswered
  BY DEF Inv
<1> QED BY <1>1, Invariance, PTL

\* Every advertised command finds its handler.
THEOREM CommandsAreDispatched == Spec => []AcceptedDispatched
<1>1. Inv => AcceptedDispatched
  BY DEF Inv
<1> QED BY <1>1, Invariance, PTL

\* Handler and dispatcher between them answer a command exactly once.
THEOREM CommandsAreAnsweredOnce == Spec => []AnsweredOnce
<1>1. Inv => AnsweredOnce
  BY DEF Inv
<1> QED BY <1>1, Invariance, PTL

\* The Accuracy list read entry by entry is complete.
THEOREM AccuracyIsDeclared == Spec => []AccuracyDeclared
<1>1. Inv => AccuracyDeclared
  <2> SUFFICES ASSUME Inv, done, request.kind = "accuracy", "instance" \in meter
               PROVE  /\ {reply[i] : i \in DOMAIN reply} = {"ActivePower", "RMSVoltage", "RMSCurrent"}
                      /\ Len(reply) = 3
    BY DEF AccuracyDeclared
  <2>1. Len(reply) = 3 /\ \A i \in 1..Len(reply) : reply[i] = MeasurementSpecs[i].type
    BY DEF Inv, ReplyInv
  <2>2. DOMAIN reply = 1..3
    BY <2>1 DEF Inv, TypeOK
  <2> QED BY <2>1, <2>2, SpecTypes
<1> QED BY <1>1, Invariance, PTL

\* The relay comes up as the attribute of before the power cut says, for any
\* number of power cuts, and off where that could not be read or applied.
THEOREM RelayIsRestored == Spec => []RelayRestored
<1>1. Inv => RelayRestored
  BY DEF Inv, RelayInv, RelayRestored
<1> QED BY <1>1, Invariance, PTL

\* A boot that fails before the Matter stack leaves the load off.
THEOREM LoadIsOffUntilStarted == Spec => []LoadOffUntilStarted
<1>1. Inv => LoadOffUntilStarted
  BY DEF Inv, BootInv, RelayInv, TypeOK, Stages, Outcome, LoadOffUntilStarted
<1> QED BY <1>1, Invariance, PTL

\* The meter is never polled before the other thread has made what it feeds.
THEOREM UpdateIsReady == Spec => []UpdateReady
<1>1. Inv => UpdateReady
  BY DEF Inv, BootInv, HookInv, TypeOK, UpdateReady
<1> QED BY <1>1, Invariance, PTL

\* A server that has shut down has no cluster registered.
THEOREM ClosesClean == Spec => []ClosedClean
<1>1. Inv => ClosedClean
  BY DEF Inv, OpenInv, ClosedClean
<1> QED BY <1>1, Invariance, PTL

\* Init() and the Matter thread never wait for each other, whatever failed.
THEOREM NeverStuck == Spec => []BootNotStuck
<1>1. Inv => BootNotStuck
  BY DEF Inv, TypeOK, BootInv, HookInv, Stages, BootNotStuck
<1> QED BY <1>1, Invariance, PTL

-----------------------------------------------------------------------------
(***************************************************************************)
(* The boot goes forward: BootLeft decreases.                              *)
(***************************************************************************)
LEMMA CallsTable ==
    /\ CallsLeft["PrepareServer"] = 8 /\ CallsLeft["StatusLedInit"] = 7
    /\ CallsLeft["RelayInit"] = 6 /\ CallsLeft["BoardInit"] = 5
    /\ CallsLeft["RegisterEventHandler"] = 4 /\ CallsLeft["IdentifyInit"] = 3
    /\ CallsLeft["StartServer"] = 2 /\ CallsLeft["await"] = 1
    /\ CallsLeft["polling"] = 0 /\ CallsLeft["halted"] = 0
BY DEF CallsLeft

LEMMA HookTable ==
    /\ HookLeft["epm"] = 3 /\ HookLeft["eem"] = 2 /\ HookLeft["accuracy"] = 1
    /\ HookLeft["ok"] = 0 /\ HookLeft["failed"] = 0
BY DEF HookLeft

\* How many callbacks are left for a row.
LEMMA PendingCount ==
    ASSUME NEW p \in SUBSET Callbacks
    PROVE  /\ Cardinality(p) \in 0..2 /\ Cardinality({}) = 0
           /\ \A c \in p : Cardinality(p \ {c}) + 1 = Cardinality(p)
<1>1. IsFiniteSet(Callbacks) /\ Cardinality(Callbacks) = 2
  <2>1. IsFiniteSet({"ember"}) /\ Cardinality({"ember"}) = 1
    BY FS_Singleton
  <2>2. Callbacks = {"ember"} \cup {"codeDriven"} /\ "codeDriven" \notin {"ember"}
    BY DEF Callbacks
  <2> QED BY <2>1, <2>2, FS_AddElement
<1>2. IsFiniteSet(p) /\ Cardinality(p) \in Nat /\ Cardinality(p) <= 2
  BY <1>1, FS_Subset, FS_CardinalityType
<1>3. ASSUME NEW c \in p PROVE Cardinality(p \ {c}) + 1 = Cardinality(p)
  <2>1. Cardinality(p \ {c}) = Cardinality(p) - 1
    BY <1>2, FS_RemoveElement
  <2> QED BY <1>2, <2>1
<1> QED BY <1>2, <1>3, FS_EmptySet

LEMMA AllPending == Cardinality(Callbacks) <= 2 /\ Cardinality(Callbacks) \in Nat
BY PendingCount

\* Both terms of BootLeft are natural numbers.
LEMMA BootLeftType ==
    ASSUME TypeOK, HookInv
    PROVE  /\ CallsLeft[app] \in 0..8 /\ StartLeft \in 0..68
           /\ stack = "clusters" => StartLeft \in 4..66
<1>1. CallsLeft[app] \in 0..8
  BY CallsTable DEF TypeOK, Stages, Outcome
<1>2. StartLeft \in 0..68 /\ (stack = "clusters" => StartLeft \in 4..66)
  <2>1. row \in 1..21 /\ Len(Clusters) = 21 /\ Cardinality(pending) \in 0..2
    BY ClusterRows, RowsAre, PendingCount DEF TypeOK
  <2>2. HookLeft[hook] \in 0..3
    BY HookTable DEF TypeOK
  <2> QED BY <2>1, <2>2 DEF StartLeft
<1> QED BY <1>1, <1>2

\* What each step of a boot does to BootLeft.
LEMMA BootLeftStep ==
    ASSUME TypeOK, BootInv, HookInv, TypeOK', HookInv', [Next]_vars, boots' = boots
    PROVE  \/ BootLeft' < BootLeft
           \/ /\ UNCHANGED <<boot, hook, plugins>>
              /\ stack \in {"serving", "closing", "closed"} \/ UNCHANGED <<stack, row, pending>>
<1>0. /\ CallsLeft[app] \in Nat /\ StartLeft \in Nat
      /\ CallsLeft[app'] \in Nat /\ StartLeft' \in Nat
  <2>1. (TypeOK /\ HookInv => CallsLeft[app] \in 0..8 /\ StartLeft \in 0..68)'
    BY BootLeftType, PTL
  <2> QED BY BootLeftType, <2>1
<1>a. ASSUME CallsLeft[app'] < CallsLeft[app], StartLeft' <= StartLeft PROVE BootLeft' < BootLeft
  BY <1>0, <1>a DEF BootLeft
<1>b. ASSUME app' = app, StartLeft' < StartLeft PROVE BootLeft' < BootLeft
  BY <1>0, <1>b DEF BootLeft
<1>c. /\ row \in 1..21 /\ Len(Clusters) = 21 /\ Rows = 1..21
      /\ Cardinality(pending) \in 0..2 /\ pending \in SUBSET Callbacks
  BY ClusterRows, RowsAre, PendingCount DEF TypeOK
<1>1. CASE AppTask
  <2>1. CASE StartServer
    <3>1. app = "StartServer" /\ app' = "await" /\ stack' = "plugins"
      BY <2>1 DEF StartServer
    <3>2. stack = "down"
      BY <3>1 DEF BootInv, Stages
    <3>3. StartLeft' <= StartLeft
      BY <3>1, <3>2, <1>c DEF StartLeft
    <3> QED BY <3>1, <3>3, <1>a, CallsTable
  <2>2. CASE ServerStarted
    <3>1. app = "await" /\ app' \in {"polling", "halted"} /\ UNCHANGED <<stack, row, pending, hook>>
      BY <2>2 DEF ServerStarted, data
    <3>2. StartLeft' = StartLeft
      BY <3>1 DEF StartLeft
    <3> QED BY <3>1, <3>2, <1>0, <1>a, CallsTable
  <2>3. CASE RelayInit
    <3>1. /\ app = "RelayInit" /\ app' \in {"BoardInit", "halted"}
          /\ UNCHANGED <<stack, row, pending, hook>>
      BY <2>3 DEF RelayInit, InitReturnsError, data
    <3>2. StartLeft' = StartLeft
      BY <3>1 DEF StartLeft
    <3> QED BY <3>1, <3>2, <1>0, <1>a, CallsTable
  <2>4. ASSUME NEW s \in Stages, NEW t \in Stages, PlainCall(s, t), CallsLeft[t] < CallsLeft[s],
               0 < CallsLeft[s]
        PROVE  BootLeft' < BootLeft
    <3>1. app = s /\ app' \in {t, "halted"} /\ UNCHANGED <<stack, row, pending, hook>>
      BY <2>4 DEF PlainCall, InitReturnsError, data
    <3>2. StartLeft' = StartLeft
      BY <3>1 DEF StartLeft
    <3> QED BY <2>4, <3>1, <3>2, <1>0, <1>a, CallsTable
  <2> QED BY <1>1, <2>1, <2>2, <2>3, <2>4, CallsTable
          DEF AppTask, PrepareServer, StatusLedInit, BoardInit, RegisterEventHandler,
              IdentifyInit, Stages
<1>2. CASE InitPlugins
  <2>1. stack = "plugins" /\ stack' = "clusters" /\ app' = app /\ UNCHANGED <<row, pending>>
    BY <1>2 DEF InitPlugins, boot
  <2>2. StartLeft' < StartLeft
    BY <2>1, <1>c DEF StartLeft
  <2> QED BY <2>1, <2>2, <1>b
<1>3. CASE EmberClusterInit \/ CodeDrivenClusterInit
  <2>1. /\ stack = "clusters" /\ UNCHANGED <<app, stack, row>>
        /\ \E c \in pending : pending' = pending \ {c}
    BY <1>3 DEF EmberClusterInit, CodeDrivenClusterInit, boot
  <2>2. Cardinality(pending') + 1 = Cardinality(pending) /\ Cardinality(pending') \in Nat
    BY <2>1, PendingCount, TypeOK' DEF TypeOK
  <2>3. StartLeft' < StartLeft
    BY <2>1, <2>2, <1>c DEF StartLeft
  <2> QED BY <2>1, <2>3, <1>b
<1>4. CASE NextCluster
  <2>1. stack = "clusters" /\ pending = {} /\ pending' = Callbacks /\ UNCHANGED <<app, hook>>
    BY <1>4 DEF NextCluster, boot
  <2>2. Cardinality(pending) = 0 /\ Cardinality(pending') <= 2 /\ Cardinality(pending') \in Nat
    BY <2>1, FS_EmptySet, AllPending
  <2>3. CASE row < 21
    <3>1. row' = row + 1 /\ stack' = "clusters"
      BY <1>4, <2>1, <2>3, <1>c DEF NextCluster
    <3>2. StartLeft' < StartLeft
      BY <2>1, <2>2, <3>1, <1>c DEF StartLeft
    <3> QED BY <2>1, <3>2, <1>b
  <2>4. CASE ~(row < 21)
    <3>1. stack' = "hook" /\ hook' = "epm" /\ row = 21
      BY <1>4, <2>1, <2>4, <1>c DEF NextCluster, HookInv
    <3>2. StartLeft' < StartLeft
      BY <2>1, <2>2, <3>1, <1>c, HookTable DEF StartLeft
    <3> QED BY <2>1, <3>2, <1>b
  <2> QED BY <2>3, <2>4
<1>5. CASE ServerInitFails
  <2>1. stack \in {"plugins", "clusters"} /\ stack' = "stopped" /\ app' = app
    BY <1>5 DEF ServerInitFails, boot
  <2>2. StartLeft' < StartLeft
    BY <2>1, <1>c DEF StartLeft
  <2> QED BY <2>1, <2>2, <1>b
<1>6. CASE InitPowerInstance \/ InitEnergyAccess \/ SetEnergyAccuracy
  <2>1. /\ stack = "hook" /\ app' = app
        /\ \/ stack' = "hook" /\ <<hook, hook'>> \in {<<"epm", "eem">>, <<"eem", "accuracy">>}
           \/ stack' \in {"serving", "stopped"} /\ hook \in {"epm", "eem", "accuracy"}
    BY <1>6 DEF InitPowerInstance, InitEnergyAccess, SetEnergyAccuracy, HookFails, boot
  <2>2. StartLeft' < StartLeft
    BY <2>1, HookTable DEF StartLeft
  <2> QED BY <2>1, <2>2, <1>b
<1>7. CASE ShutdownServer \/ CodeDrivenClusterShutdown
  BY <1>7 DEF ShutdownServer, CodeDrivenClusterShutdown, boot
<1>8. CASE Receive \/ Serve
  BY <1>8 DEF Receive, Serve, ReadAttribute, ReadAccuracy, DispatchCommand, data, boot
<1>9. CASE UNCHANGED vars
  BY <1>9 DEF vars, data, boot
<1>10. ~PowerCut
  BY DEF PowerCut, TypeOK
<1> QED BY <1>1, <1>2, <1>3, <1>4, <1>5, <1>6, <1>7, <1>8, <1>9, <1>10 DEF Next, ServerStart

\* Between two power cuts the boot only goes forward, errors included:
\* app_task.cpp:114-158, power_measurement.cpp:277-350.
THEOREM BootGoesForward == Spec => BootAdvances
<1>1. Inv /\ Inv' /\ [Next]_vars =>
        [boots' = boots =>
             \/ BootLeft' < BootLeft
             \/ /\ UNCHANGED <<boot, hook, plugins>>
                /\ stack \in {"serving", "closing", "closed"} \/ UNCHANGED <<stack, row, pending>>]_vars
  BY BootLeftStep DEF Inv
<1> QED BY <1>1, Invariance, PTL DEF Spec, BootAdvances
=============================================================================
