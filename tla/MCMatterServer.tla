--------------------------- MODULE MCMatterServer ---------------------------
(***************************************************************************)
(* MatterServer for TLC, with the check that the generated tables agree    *)
(* with each other.                                                        *)
(***************************************************************************)
EXTENDS MatterServer, SequencesExt

SumOf(s) == FoldSeq(+, 0, s)
SumOver(table, Value(_)) == SumOf([i \in DOMAIN table |-> Value(table[i])])

Endpoint(e) == SelectSeq(Clusters, LAMBDA r : r.endpoint = e)

\* clusterSize is the space of the attributes kept in RAM; the endpoint types,
\* ATTRIBUTE_MAX_SIZE and the counts are the sums they should be
\* (endpoint_config.h:50, 710, 993-1006).
ASSUME TablesAgree ==
    /\ \A i \in DOMAIN Clusters : Clusters[i].clusterSize = SumOf(Ram(Clusters[i]))
    /\ \A e \in 0..1 :
         /\ EndpointTypes[e + 1].clusters = Len(Endpoint(e))
         /\ EndpointTypes[e + 1].size = SumOver(Endpoint(e), LAMBDA r : r.clusterSize)
    /\ SumOver(Clusters, LAMBDA r : r.clusterSize) = 36
    /\ SumOver(Clusters, LAMBDA r : r.attributeCount) = 198
    /\ Len(Clusters) = 21
    /\ DOMAIN AcceptedCommands \subseteq {Clusters[i].cluster : i \in DOMAIN Clusters}
=============================================================================
