------------------------------- MODULE Stats -------------------------------
(***************************************************************************)
(* The stats plugin (extensions/stats): one root context, the streams of   *)
(* its VM, and the host's expressions.  Streams collect values in their    *)
(* request info; onTick reports the running ones in the request queue,     *)
(* onLog reports each stream for the last time.  Callbacks do not overlap: *)
(* every action is a whole callback, and what interleaves is their order.  *)
(*                                                                         *)
(* External: the host configures the plugin before it has streams, ends    *)
(* every stream with onLog and calls onDone after that; the metadata       *)
(* exchange finds a stream's peer, or finds that there is none; the        *)
(* stream's cluster becomes known when the proxy connects upstream.        *)
(* Outbound the peer is the upstream one, so it is not known before that;  *)
(* an HTTP response that the proxy makes itself has no cluster.  The       *)
(* grpc_stats filter counts messages.                                      *)
(***************************************************************************)
EXTENDS StatsConfig, RequestContext, FiniteSets

CONSTANTS
    Stream, Proto,  \* the streams and their protocols
    Outbound,       \* outbound_
    Upstream,       \* the route, cluster and endpoint each stream takes
    Labelled,       \* whether the local node has a canonical service
    Config,         \* the configurations that may be loaded
    MaxConfigs,     \* bound: configurations loaded in all
    MaxData         \* bound: units of data, or messages, of a stream

ASSUME StatsAssumption ==
    /\ Proto \in [Stream -> {"TCP"} \cup Http]
    /\ Outbound \in BOOLEAN /\ Labelled \in BOOLEAN
    /\ Upstream \in [Stream -> [route : STRING, cluster : STRING,
                               services : BOOLEAN, workload : Nat]]
    /\ Config \subseteq ConfigType
    /\ \A c \in Config : \A i \in DOMAIN c.metrics : \* the tags are keys of a JSON object
          LET d == c.metrics[i].dimensions
          IN  \A j, k \in DOMAIN d : d[j].tag = d[k].tag => j = k
    /\ MaxConfigs \in Nat /\ MaxData \in Nat

VARIABLES
    alive,        \* FALSE after onDone
    loads,        \* the number of configurations loaded
    lastGood,     \* history: the configuration initializeDimensions saw last
    initialized,  \* initialized_
    useHost,      \* use_host_header_fallback_
    conf,         \* stats_, expressions_ and int_expressions_
    metrics,      \* metrics_: dimensions -> resolved stats
    queue,        \* request_queue_
    info,         \* the request info of each stream
    live, next,   \* the host's expression tokens, and the next one
    stream,       \* the life of each stream
    peer,         \* the peer metadata of each stream
    connected,    \* whether each stream's cluster is known
    carried,      \* data, or messages, each stream has carried
    recorded      \* what each stream has recorded, by metric

config == <<loads, lastGood, initialized, useHost, conf, live, next>>
host == <<peer, connected, carried>>
vars == <<alive, config, metrics, queue, info, stream, host, recorded>>

MetricName ==
    DOMAIN DefaultMetrics \cup
    UNION {{c.definitions[i].name : i \in DOMAIN c.definitions} : c \in Config}

NewRequestInfo ==
    [sent |-> 0, opened |-> 0, closed |-> 0, count |-> 0, last |-> 0,
     urlHost |-> "", populated |-> FALSE, service |-> [host |-> "", name |-> ""]]

Init ==
    /\ alive = TRUE
    /\ loads = 0 /\ lastGood = {} /\ initialized = FALSE
    /\ useHost \in BOOLEAN                  \* not initialized
    /\ conf = Unconfigured /\ live = {} /\ next = 1
    /\ metrics = <<>>
    /\ queue = {}
    /\ info = [s \in Stream |-> NewRequestInfo]
    /\ stream = [s \in Stream |-> "new"]
    /\ peer = [s \in Stream |-> "waiting"]
    /\ connected = [s \in Stream |-> FALSE]
    /\ carried = [s \in Stream |-> 0]
    /\ recorded = [s \in Stream |-> [m \in MetricName |-> 0]]

----------------------------------------------------------------------------
(* onConfigure *)

\* Mutant of Held: the tokens of the definitions are forgotten.
HeldStrings == {conf.expressions[i].token : i \in DOMAIN conf.expressions}

\* The tokens cleanupExpressions deletes.
Held == {conf.expressions[i].token : i \in DOMAIN conf.expressions} \cup conf.ints

\* Not JSON: the plugin stops reporting, with everything else as it was.
ConfigureInvalid(c) ==
    /\ alive /\ loads < MaxConfigs
    /\ ~ c.json
    /\ loads' = loads + 1
    /\ initialized' = FALSE
    /\ UNCHANGED <<alive, lastGood, useHost, conf, live, next, metrics, queue, info, stream, host, recorded>>

\* The expressions of the last configuration are deleted and those of the new
\* one created; metrics_ keeps what it has resolved.
Configure(c) ==
    LET r == InitializeDimensions(c, next)
    IN  /\ alive /\ loads < MaxConfigs
        /\ c.json
        /\ loads' = loads + 1
        /\ lastGood' = {c}
        /\ initialized' = TRUE
        /\ useHost' = ~ c.disableHostHeaderFallback
        /\ conf' = [stats |-> r.stats, expressions |-> r.expressions, ints |-> r.ints]
        /\ live' = (live \ Held) \cup (next .. r.next - 1)
        /\ next' = r.next
        /\ UNCHANGED <<alive, metrics, queue, info, stream, host, recorded>>

----------------------------------------------------------------------------
(* report, as an operator on the state it works on: st has the request      *)
(* infos, the cache of resolved stats, and what was recorded.               *)

\* What the proxy knows of stream s by now.
Known(s) == IF connected[s] THEN Upstream[s] ELSE Unconnected(Upstream[s])

Service(i, s) ==
    PopulateDestinationService(Outbound, useHost /\ Proto[s] # "TCP", i.urlHost, Labelled, Known(s))

\* populateRequestInfo looks at the route and the cluster once (is_populated) ...
PopulateRequestInfo(i, s) ==
    IF i.populated THEN i ELSE [i EXCEPT !.populated = TRUE, !.service = Service(i, s)]

\* ... while the message counts are read again for every report.
PopulateGRPCInfo(i, s) ==
    [i EXCEPT !.count = IF Proto[s] = "GRPC" THEN carried[s] ELSE @]

\* map, and the expressions: the values of all dimensions.  An expression whose
\* token the host does not know cannot be evaluated.
Dimensions(i, s, endStream) ==
    <<PeerNode(Outbound, peer[s], Known(s)),
      [f \in {"host", "name"} |-> IF i.service[f] = "" THEN "unknown" ELSE i.service[f]],
      Proto[s],
      IF endStream /\ Proto[s] # "TCP" THEN "200" ELSE "0">>
    \o [n \in DOMAIN conf.expressions |->
          IF conf.expressions[n].token \in live THEN "value" ELSE "unknown"]

\* StatGen::resolve for the stats of a protocol.
Resolve(dimensions, protocol) ==
    {[name |-> g.name, recurrent |-> g.recurrent, extractor |-> g.extractor,
      labels |-> [n \in DOMAIN g.tags |-> <<g.tags[n], dimensions[g.indexes[n]]>>]]
     : g \in {x \in conf.stats : protocol \in x.protocols}}

\* The extractors: what a stat records of a request info ...
Value(x, i) ==
    [one |-> 1,
     messages |-> i.count - i.last,
     sent |-> i.sent,
     opened |-> i.opened,
     closed |-> i.closed,
     expression |-> IF x.extractor.token \in live THEN 1 ELSE 0][x.extractor.kind]

\* Mutant of Extracted: the bytes are read and not swapped out.
ExtractedKeepingBytes(i, kinds) ==
    [i EXCEPT !.last = IF "messages" \in kinds THEN i.count ELSE @,
              !.opened = IF "opened" \in kinds THEN 0 ELSE @]

\* ... and what they leave of it.
Extracted(i, kinds) ==
    [i EXCEPT !.last = IF "messages" \in kinds THEN i.count ELSE @,
              !.sent = IF "sent" \in kinds THEN 0 ELSE @,
              !.opened = IF "opened" \in kinds THEN 0 ELSE @]

\* The stats in due record the values of stream s, each under its name.
Recorded(r, due, i) ==
    [m \in MetricName |-> r[m] + SumSet({Value(x, i) : x \in {d \in due : d.name = m}})]

\* Mutant of Waits: also the last report waits for the metadata.
WaitsToTheEnd(s, endStream) == Proto[s] = "TCP" /\ MaybeWaiting(peer[s])

\* Mutant of Waits: no report waits.
WaitsNever(s, endStream) == FALSE

\* TCP streams are not reported while the peer's metadata may still arrive.
Waits(s, endStream) == Proto[s] = "TCP" /\ MaybeWaiting(peer[s]) /\ ~ endStream

Report(st, s, endStream) ==
    IF ~ initialized \/ Waits(s, endStream) THEN st
    ELSE LET i == PopulateGRPCInfo(PopulateRequestInfo(st.info[s], s), s)
             dimensions == Dimensions(i, s, endStream)
             stats == IF dimensions \in DOMAIN st.metrics
                      THEN st.metrics[dimensions]
                      ELSE Resolve(dimensions, Proto[s])
             due == {x \in stats : endStream \/ x.recurrent}
         IN  [info |-> [st.info EXCEPT ![s] = Extracted(i, {x.extractor.kind : x \in due})],
              metrics |-> [d \in DOMAIN st.metrics \cup {dimensions} |->
                             IF d = dimensions THEN stats ELSE st.metrics[d]],
              recorded |-> [st.recorded EXCEPT ![s] = Recorded(@, due, i)]]

\* onTick's loop over the request queue, in the order of its map, which is not
\* specified.
ReportAll(st) == FoldSet(LAMBDA s, t : Report(t, s, FALSE), st, queue)

Current == [info |-> info, metrics |-> metrics, recorded |-> recorded]

SetCurrent(st) ==
    info' = st.info /\ metrics' = st.metrics /\ recorded' = st.recorded

----------------------------------------------------------------------------
(* The streams *)

Becomes(s, life) == stream' = [stream EXCEPT ![s] = life]

OnNewConnection(s) ==
    /\ alive /\ loads > 0 /\ Proto[s] = "TCP" /\ stream[s] = "new"
    /\ Becomes(s, "open")
    /\ info' = [info EXCEPT ![s].opened = @ + 1]
    /\ queue' = queue \cup {s}
    /\ UNCHANGED <<alive, config, metrics, host, recorded>>

OnRequestHeaders(s) ==
    /\ alive /\ loads > 0 /\ Proto[s] # "TCP" /\ stream[s] = "new"
    /\ Becomes(s, "requested")
    /\ info' = [info EXCEPT ![s].urlHost = IF useHost THEN "header" ELSE @]
    /\ UNCHANGED <<alive, config, metrics, queue, host, recorded>>

OnResponseHeaders(s) ==
    /\ stream[s] = "requested"
    /\ Becomes(s, "open")
    /\ queue' = queue \cup {s}
    /\ UNCHANGED <<alive, config, metrics, info, host, recorded>>

\* onUpstreamData, and onDownstreamData.
OnData(s) ==
    /\ Proto[s] = "TCP" /\ stream[s] = "open"
    /\ carried[s] < MaxData
    /\ carried' = [carried EXCEPT ![s] = @ + 1]
    /\ info' = [info EXCEPT ![s].sent = @ + 1]
    /\ UNCHANGED <<alive, config, metrics, queue, stream, peer, connected, recorded>>

OnTick ==
    /\ alive /\ queue # {}
    /\ SetCurrent(ReportAll(Current))
    /\ UNCHANGED <<alive, config, queue, stream, host>>

\* Mutant of OnLog: the stream stays in the queue.
OnLogQueued(s) ==
    /\ stream[s] \in {"requested", "open"}
    /\ Becomes(s, "logged")
    /\ LET closed == IF Proto[s] = "TCP" THEN 1 ELSE 0
       IN  SetCurrent(Report([Current EXCEPT !.info[s].closed = @ + closed], s, TRUE))
    /\ UNCHANGED <<alive, config, queue, host>>

\* onLog: the stream leaves the queue and is reported for the last time.
OnLog(s) ==
    /\ stream[s] \in {"requested", "open"}
    /\ Becomes(s, "logged")
    /\ queue' = queue \ {s}
    /\ LET closed == IF Proto[s] = "TCP" THEN 1 ELSE 0
       IN  SetCurrent(Report([Current EXCEPT !.info[s].closed = @ + closed], s, TRUE))
    /\ UNCHANGED <<alive, config, host>>

\* onDone, when the streams have ended.
OnDone ==
    /\ alive /\ \A s \in Stream : stream[s] \in {"new", "logged"}
    /\ alive' = FALSE
    /\ live' = live \ Held
    /\ conf' = [stats |-> conf.stats, expressions |-> <<>>, ints |-> {}]
    /\ UNCHANGED <<loads, lastGood, initialized, useHost, next, metrics, queue, info, stream, host, recorded>>

----------------------------------------------------------------------------
(* The host *)

\* The grpc_stats filter sees a message.
Message(s) ==
    /\ Proto[s] = "GRPC" /\ stream[s] \in {"requested", "open"}
    /\ carried[s] < MaxData
    /\ carried' = [carried EXCEPT ![s] = @ + 1]
    /\ UNCHANGED <<alive, config, metrics, queue, info, stream, peer, connected, recorded>>

\* The metadata exchange ends, with the peer's metadata or with the answer that
\* there is none; for HTTP before the response's headers, which carry it.
PeerKnown(s) ==
    /\ stream[s] = IF Proto[s] = "TCP" THEN "open" ELSE "requested"
    /\ peer[s] = "waiting"
    /\ Outbound => connected[s]
    /\ \E p \in {"found", "none"} : peer' = [peer EXCEPT ![s] = p]
    /\ UNCHANGED <<alive, config, metrics, queue, info, stream, connected, carried, recorded>>

\* The proxy connects upstream; a response from upstream comes after that.
Connect(s) ==
    /\ ~ connected[s] /\ Upstream[s].cluster # ""
    /\ stream[s] = IF Proto[s] = "TCP" THEN "open" ELSE "requested"
    /\ connected' = [connected EXCEPT ![s] = TRUE]
    /\ UNCHANGED <<alive, config, metrics, queue, info, stream, peer, carried, recorded>>

Next ==
    \/ \E c \in Config : ConfigureInvalid(c) \/ Configure(c)
    \/ \E s \in Stream :
          \/ OnNewConnection(s) \/ OnRequestHeaders(s) \/ OnResponseHeaders(s)
          \/ OnData(s) \/ OnLog(s) \/ Message(s) \/ PeerKnown(s) \/ Connect(s)
    \/ OnTick \/ OnDone

Spec == Init /\ [][Next]_vars

----------------------------------------------------------------------------
\* The hosts and the names a destination service may have.
UrlHost == {"", "header"}
ServiceHost == UrlHost \cup {"unknown", "canonical", "service_host"}
ServiceName == ServiceHost \cup NamedCluster \cup {"service"}

TypeOK ==
    /\ alive \in BOOLEAN /\ initialized \in BOOLEAN /\ useHost \in BOOLEAN
    /\ loads \in 0 .. MaxConfigs /\ lastGood \subseteq Config
    /\ \A g \in conf.stats :
          /\ g.name \in MetricName
          /\ \A n \in DOMAIN g.tags : alive =>
                g.indexes[n] \in 1 .. CountStandardLabels + Len(conf.expressions)
    /\ \A d \in DOMAIN metrics : \A x \in metrics[d] : x.name \in MetricName
    /\ queue \subseteq Stream
    /\ info \in [Stream -> [sent : 0 .. MaxData, opened : 0 .. 1, closed : 0 .. 1,
                            count : 0 .. MaxData, last : 0 .. MaxData,
                            urlHost : UrlHost, populated : BOOLEAN,
                            service : [host : ServiceHost, name : ServiceName]]]
    /\ live \subseteq 1 .. next - 1
    /\ stream \in [Stream -> {"new", "requested", "open", "logged"}]
    /\ peer \in [Stream -> {"waiting", "found", "none"}]
    /\ connected \in [Stream -> BOOLEAN]
    /\ carried \in [Stream -> 0 .. MaxData]
    /\ recorded \in [Stream -> [MetricName -> Nat]]

\* Over any sequence of good, partly good and bad configurations the host holds
\* exactly the expressions of the configuration in force: none leaks, each is
\* deleted once, and after onDone none is left.  (Metrics that were resolved under
\* an earlier configuration keep their tokens, which are deleted by then.)
TokensHeld ==
    /\ live = {conf.expressions[i].token : i \in DOMAIN conf.expressions} \cup conf.ints
    /\ ~ alive => live = {}

\* onTick reads request infos through the queue's pointers: they are those of
\* the running streams, all of them and no others.
QueueLive == queue = {s \in Stream : stream[s] = "open"}

\* What a stream carries is recorded once, however reports, waiting for the
\* peer and configurations interleave: it is recorded or still in the request
\* info, and a request or the end of a connection counts with the last report.
CountedOnce ==
    \A s \in Stream :
        LET ended == IF stream[s] = "logged" THEN 1 ELSE 0
        IN  /\ Proto[s] = "TCP" =>
                  /\ recorded[s].tcp_sent_bytes_total + info[s].sent = carried[s]
                  /\ recorded[s].tcp_connections_opened_total + info[s].opened =
                        IF stream[s] = "new" THEN 0 ELSE 1
                  /\ recorded[s].tcp_connections_closed_total <= ended
            /\ Proto[s] # "TCP" =>
                  /\ recorded[s].request_messages_total = info[s].last
                  /\ info[s].last <= carried[s]
                  /\ recorded[s].requests_total <= ended

\* The default metrics that no configuration drops or redefines.
AlwaysKept ==
    {m \in DOMAIN DefaultMetrics : \A c \in Config :
        /\ \A i \in DOMAIN c.metrics : c.metrics[i].drop => c.metrics[i].name \notin {"", m}
        /\ \A i \in DOMAIN c.definitions : c.definitions[i].name # m}

Totals(s) ==
    [tcp_sent_bytes_total |-> IF Proto[s] = "TCP" THEN carried[s] ELSE 0,
     tcp_connections_opened_total |-> IF Proto[s] = "TCP" THEN 1 ELSE 0,
     tcp_connections_closed_total |-> IF Proto[s] = "TCP" THEN 1 ELSE 0,
     request_messages_total |-> IF Proto[s] = "GRPC" THEN carried[s] ELSE 0,
     requests_total |-> IF Proto[s] = "TCP" THEN 0 ELSE 1]

\* With its last report a stream has recorded all it carried, also if the peer
\* never became known, it was never ticked, or its dimensions were resolved
\* under an earlier configuration.
FinalReportComplete ==
    [][\A s \in Stream :
         stream[s] # "logged" /\ stream'[s] = "logged" /\ initialized =>
            \A m \in AlwaysKept : recorded'[s][m] = Totals(s)[m]]_vars

\* populateRequestInfo (context.cc) looks once and keeps what it sees, at the
\* first report, which may be a tick long before the end.  A stream that ends
\* with its cluster known is reported under the service of its route or cluster
\* all the same, whichever of ticks, peer metadata and the connection came first.
ServiceAsRouted ==
    [][\A s \in Stream :
         stream[s] # "logged" /\ stream'[s] = "logged" /\ initialized /\ connected[s] =>
            LET u == Upstream[s]
            IN  info'[s].service.name =
                  IF u.route \in DOMAIN RouteCluster THEN RouteCluster[u.route]
                  ELSE IF u.cluster \in NamedCluster THEN u.cluster
                  ELSE IF u.services THEN "service"
                  ELSE info'[s].service.host]_vars

\* config.proto, drop: the metric "will not be generated or reported".
DroppedNotReported ==
    [][\A s \in Stream : \A m \in MetricName :
         recorded'[s][m] > recorded[s][m] => \E g \in conf.stats : g.name = m]_vars

----------------------------------------------------------------------------
(* The reference for a configuration: which metrics it asks for, and where  *)
(* the value of each of their tags comes from.                              *)

Mentions(o, tag) ==
    tag \in ToSet(o.remove) \/ \E n \in DOMAIN o.dimensions : o.dimensions[n].tag = tag

\* The last override that mentions a tag decides.
Sources(c, m, tag) ==
    LET about == {i \in DOMAIN c.metrics :
                    c.metrics[i].name \in {"", m} /\ Mentions(c.metrics[i], tag)}
        d == c.metrics[Max(about)].dimensions
    IN  IF about = {}
        THEN {<<"standard", t>> : t \in {tag} \cap ToSet(InitialTags(m))}
        ELSE {<<"expression", d[n].value>> :
                n \in {k \in DOMAIN d : d[k].tag = tag /\ d[k].value \notin BadExpression}}

WellFormed(c) ==
    \A i \in DOMAIN c.metrics :
        /\ c.metrics[i].object
        /\ Malformed \notin ToSet(c.metrics[i].remove)
        /\ \A n \in DOMAIN c.metrics[i].dimensions :
              c.metrics[i].dimensions[n].value # Malformed

\* config.proto: "Conflicts are resolved by the tag name by overriding previously
\* supplied values".  The tags of every metric, and the dimensions or expressions
\* their indexes lead to, are those the configuration asks for.
DimensionsAsConfigured ==
    \A c \in lastGood : alive /\ WellFormed(c) =>
        LET Tags == ToSet(DefaultTags) \cup
                    UNION {{c.metrics[i].dimensions[n].tag : n \in DOMAIN c.metrics[i].dimensions}
                           : i \in DOMAIN c.metrics}
            Names == DOMAIN DefaultMetrics \cup
                     {d.name : d \in ToSet(Accepted(c.definitions))}
            Source(index) ==
                IF index <= CountStandardLabels
                THEN <<"standard", DefaultTags[index]>>
                ELSE <<"expression", conf.expressions[index - CountStandardLabels].expression>>
        IN  /\ {g.name : g \in conf.stats} =
                  {m \in Names : \A i \in DOMAIN c.metrics :
                                   c.metrics[i].drop => c.metrics[i].name \notin {"", m}}
            /\ \A g \in conf.stats : \A tag \in Tags :
                  {Source(g.indexes[n]) : n \in {k \in DOMAIN g.tags : g.tags[k] = tag}}
                  = Sources(c, g.name, tag)

=============================================================================
