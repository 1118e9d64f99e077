--------------------------- MODULE RequestContext ---------------------------
(***************************************************************************)
(* What the plugins find out about a request from the host's properties    *)
(* (extensions/common/context.cc): its destination service, and its peer.  *)
(* upstream has what the proxy knows of the way the request takes:         *)
(*   route     route_name                                                  *)
(*   cluster   cluster_name, "" before one is chosen                       *)
(*   services  whether the cluster's metadata names a service              *)
(*   workload  the parts of the upstream host's workload label, 0: no label*)
(***************************************************************************)
EXTENDS Integers

\* The routes that stand for a cluster of Istio's own, and those clusters.
RouteCluster == [block_all |-> "BlackHoleCluster", allow_any |-> "PassthroughCluster"]
NamedCluster ==
    {"BlackHoleCluster", "PassthroughCluster",
     "InboundPassthroughClusterIpv4", "InboundPassthroughClusterIpv6"}

\* Before the cluster is chosen only the route is known.
Unconnected(upstream) == [upstream EXCEPT !.cluster = "", !.services = FALSE, !.workload = 0]

\* getServiceNameFallback: the local node's canonical service, if it has one.
GetServiceNameFallback(labelled) == IF labelled THEN "canonical" ELSE "unknown"

\* populateDestinationService: the host, and the name, of the service.
PopulateDestinationService(outbound, useHostHeader, urlHost, labelled, upstream) ==
    LET host == IF useHostHeader THEN urlHost
                ELSE IF outbound THEN "unknown" ELSE GetServiceNameFallback(labelled)
    IN  CASE upstream.route \in DOMAIN RouteCluster ->
               [host |-> host, name |-> RouteCluster[upstream.route]]
          [] upstream.route \notin DOMAIN RouteCluster /\ upstream.cluster \in NamedCluster ->
               [host |-> host, name |-> upstream.cluster]
          [] OTHER -> IF upstream.services THEN [host |-> "service_host", name |-> "service"]
                      ELSE [host |-> host, name |-> host]

\* extractPeerMetadataFromUpstreamMetadata: a label of five parts or more.
HasPeerMetadata(upstream) == upstream.workload >= 5

\* PeerNodeInfo, from the peer's id and metadata in the filter state: "found",
\* "none" for the id kMetadataNotFoundValue, "waiting" for no id or no metadata.
\* Only an upstream peer can be in the endpoint's labels.
PeerNode(outbound, peer, upstream) ==
    CASE peer = "found" -> "peer"
      [] peer # "found" /\ outbound /\ HasPeerMetadata(upstream) -> "endpoint"
      [] OTHER -> "unknown"

MaybeWaiting(peer) == peer = "waiting"

=============================================================================
