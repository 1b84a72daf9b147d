----------------------------- MODULE DataModel ------------------------------
(***************************************************************************)
(* The generated data model of the plug (src/default_zap/zap-generated):   *)
(* the clusters of its two endpoints, where their attributes are stored,   *)
(* the commands they advertise, and the lists of clusters each generated   *)
(* callback knows.  MatterServer is the machine that walks them.           *)
(*                                                                         *)
(* A cluster is named as in the source.  Types, defaults and masks other   *)
(* than EXTERNAL_STORAGE are left out, as are event lists: nothing in the  *)
(* application depends on them.                                            *)
(***************************************************************************)
EXTENDS Naturals, Sequences

Cluster(endpoint, cluster, attributeCount, clusterSize) ==
    [endpoint |-> endpoint, cluster |-> cluster,
     attributeCount |-> attributeCount, clusterSize |-> clusterSize]

\* GENERATED_CLUSTERS, the rows of endpoint 0.
RootClusters ==
    <<Cluster(0, "Descriptor", 6, 0),
      Cluster(0, "AccessControl", 7, 0),
      Cluster(0, "BasicInformation", 19, 0),
      Cluster(0, "OtaSoftwareUpdateProvider", 0, 0),
      Cluster(0, "OtaSoftwareUpdateRequestor", 6, 9),
      Cluster(0, "GeneralCommissioning", 7, 0),
      Cluster(0, "NetworkCommissioning", 13, 0),
      Cluster(0, "DiagnosticLogs", 2, 0),
      Cluster(0, "GeneralDiagnostics", 8, 0),
      Cluster(0, "SoftwareDiagnostics", 4, 0),
      Cluster(0, "ThreadNetworkDiagnostics", 65, 4),
      Cluster(0, "WiFiNetworkDiagnostics", 12, 6),
      Cluster(0, "AdministratorCommissioning", 5, 4),
      Cluster(0, "OperationalCredentials", 8, 0),
      Cluster(0, "GroupKeyManagement", 6, 0),
      Cluster(0, "IcdManagement", 5, 2)>>

\* GENERATED_CLUSTERS, the rows of endpoint 1.
PlugClusters ==
    <<Cluster(1, "Identify", 4, 0),
      Cluster(1, "OnOff", 3, 7),
      Cluster(1, "Descriptor", 6, 0),
      Cluster(1, "ElectricalPowerMeasurement", 8, 2),
      Cluster(1, "ElectricalEnergyMeasurement", 4, 2)>>

Clusters == RootClusters \o PlugClusters

\* GENERATED_ENDPOINT_TYPES: how many rows, and how many bytes, each has.
EndpointTypes == <<[clusters |-> 16, size |-> 25], [clusters |-> 5, size |-> 11]>>

(***************************************************************************)
(* GENERATED_ATTRIBUTES: the sizes of the attributes that are kept in RAM. *)
(* Every other attribute has EXTERNAL_STORAGE, and a read of it needs code *)
(* that answers for its cluster.                                           *)
(***************************************************************************)
RootRam ==
    [OtaSoftwareUpdateRequestor |-> <<1, 1, 1, 4, 2>>,
     ThreadNetworkDiagnostics |-> <<4>>,
     WiFiNetworkDiagnostics |-> <<4, 2>>,
     AdministratorCommissioning |-> <<4>>,
     IcdManagement |-> <<2>>]

PlugRam ==
    [OnOff |-> <<1, 4, 2>>,
     ElectricalPowerMeasurement |-> <<2>>,
     ElectricalEnergyMeasurement |-> <<2>>]

Ram(r) ==
    CASE r.endpoint = 0 /\ r.cluster \in DOMAIN RootRam -> RootRam[r.cluster]
      [] r.endpoint = 1 /\ r.cluster \in DOMAIN PlugRam -> PlugRam[r.cluster]
      [] OTHER -> <<>>

HasExternal(r) == r.attributeCount > Len(Ram(r))

\* GENERATED_COMMANDS: the AcceptedCommandList of each cluster that has one.
AcceptedCommands ==
    [OtaSoftwareUpdateRequestor |-> {"AnnounceOTAProvider"},
     GeneralCommissioning |-> {"ArmFailSafe", "SetRegulatoryConfig", "CommissioningComplete"},
     NetworkCommissioning |->
        {"ScanNetworks", "AddOrUpdateWiFiNetwork", "AddOrUpdateThreadNetwork", "RemoveNetwork",
         "ConnectNetwork", "ReorderNetwork"},
     DiagnosticLogs |-> {"RetrieveLogsRequest"},
     GeneralDiagnostics |-> {"TestEventTrigger", "TimeSnapshot"},
     ThreadNetworkDiagnostics |-> {"ResetCounts"},
     AdministratorCommissioning |->
        {"OpenCommissioningWindow", "OpenBasicCommissioningWindow", "RevokeCommissioning"},
     OperationalCredentials |->
        {"AttestationRequest", "CertificateChainRequest", "CSRRequest", "AddNOC", "UpdateNOC",
         "UpdateFabricLabel", "RemoveFabric", "AddTrustedRootCertificate",
         "SetVIDVerificationStatement", "SignVIDVerificationRequest"},
     GroupKeyManagement |->
        {"KeySetWrite", "KeySetRead", "KeySetRemove", "KeySetReadAllIndices"},
     Identify |-> {"Identify"},
     OnOff |-> {"Off", "On", "Toggle"}]

Accepts(r) ==
    IF r.cluster \in DOMAIN AcceptedCommands THEN AcceptedCommands[r.cluster] ELSE {}

-----------------------------------------------------------------------------
(***************************************************************************)
(* Which clusters the generated switches know.                             *)
(***************************************************************************)

\* Faulty variant: MatterClusterServerInitCallback() has lost a case.
CodeDrivenInitWithoutIdentify ==
    {"Descriptor", "AccessControl", "BasicInformation", "GeneralCommissioning",
     "DiagnosticLogs", "GeneralDiagnostics", "SoftwareDiagnostics", "WiFiNetworkDiagnostics",
     "AdministratorCommissioning", "OperationalCredentials", "GroupKeyManagement"}

\* The cases of MatterClusterServerInitCallback().
CodeDrivenInit ==
    {"Identify", "Descriptor", "AccessControl", "BasicInformation", "GeneralCommissioning",
     "DiagnosticLogs", "GeneralDiagnostics", "SoftwareDiagnostics", "WiFiNetworkDiagnostics",
     "AdministratorCommissioning", "OperationalCredentials", "GroupKeyManagement"}

\* Faulty variant: MatterClusterServerShutdownCallback() has lost a case.
CodeDrivenShutdownWithoutWiFi == CodeDrivenInit \ {"WiFiNetworkDiagnostics"}

\* The cases of MatterClusterServerShutdownCallback().
CodeDrivenShutdown ==
    {"Identify", "Descriptor", "AccessControl", "BasicInformation", "GeneralCommissioning",
     "DiagnosticLogs", "GeneralDiagnostics", "SoftwareDiagnostics", "WiFiNetworkDiagnostics",
     "AdministratorCommissioning", "OperationalCredentials", "GroupKeyManagement"}

\* The cases of emberAfClusterInitCallback().
EmberInit ==
    {"AccessControl", "AdministratorCommissioning", "BasicInformation", "Descriptor",
     "DiagnosticLogs", "GeneralCommissioning", "GeneralDiagnostics", "GroupKeyManagement",
     "IcdManagement", "Identify", "LevelControl", "NetworkCommissioning",
     "OtaSoftwareUpdateProvider", "OtaSoftwareUpdateRequestor", "OnOff",
     "OperationalCredentials", "SoftwareDiagnostics", "ThreadNetworkDiagnostics",
     "WiFiNetworkDiagnostics"}

\* The calls of MATTER_PLUGINS_INIT.  The measurement clusters are not among
\* them: PowerMeasurementInit() has to register those itself.
Plugins ==
    {"Identify", "OnOff", "Descriptor", "AccessControl", "BasicInformation",
     "OtaSoftwareUpdateRequestor", "GeneralCommissioning", "NetworkCommissioning",
     "DiagnosticLogs", "GeneralDiagnostics", "SoftwareDiagnostics",
     "ThreadNetworkDiagnostics", "WiFiNetworkDiagnostics", "AdministratorCommissioning",
     "OperationalCredentials", "GroupKeyManagement", "IcdManagement"}

\* Of those plugins, the ones whose initialisation registers an access
\* interface for the external attributes of their cluster.
PluginAccess == {"OtaSoftwareUpdateRequestor", "ThreadNetworkDiagnostics", "IcdManagement"}

\* The SDK's platform layer brings its own object for this cluster, which
\* answers both reads and commands.
PlatformServed == {"NetworkCommissioning"}

\* The cases of OnOff::DispatchServerCommand(),
OnOffDispatch == {"Off", "On", "Toggle"}

\* of OtaSoftwareUpdateRequestor::DispatchServerCommand(),
OtaRequestorDispatch == {"AnnounceOTAProvider"}

\* and of ThreadNetworkDiagnostics::DispatchServerCommand().
ThreadDiagnosticsDispatch == {"ResetCounts"}

DispatchTable ==
    [OnOff |-> OnOffDispatch,
     OtaSoftwareUpdateRequestor |-> OtaRequestorDispatch,
     ThreadNetworkDiagnostics |-> ThreadDiagnosticsDispatch]
=============================================================================
