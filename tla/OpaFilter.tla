----------------------------- MODULE OpaFilter -----------------------------
(***************************************************************************)
(* The Open Policy Agent filter (extensions/open_policy_agent): the        *)
(* streams of one VM, the decision cache they share, and the calls to the  *)
(* OPA server.  A callback runs to its end; what interleaves is the        *)
(* arrival of requests, the answers of the calls in any order, and the end *)
(* of streams.                                                             *)
(*                                                                         *)
(* A configuration arrives at any time, into the same root context; the    *)
(* fields it has set stay set when a later field of it is refused.         *)
(*                                                                         *)
(* External: the server answers what it likes (its policy may change), the *)
(* host may refuse a call, and it answers a call that times out with an    *)
(* empty body, which is not valid JSON.  Calls belong to the root context, *)
(* so the answer also comes when the stream has ended.  It makes no call   *)
(* to a cluster it does not know, runs streams once a configuration was    *)
(* accepted, and keeps the plugin when a later one is refused.             *)
(***************************************************************************)
EXTENDS ResultCache, JsonUtil, FiniteSets

CONSTANTS
    Stream,         \* the HTTP streams, by context id
    Payload,        \* records of the four fields a decision depends on
    Config,         \* the configurations that may arrive: texts as JSON values
    Cluster,        \* the clusters the host knows
    MaxClock,       \* bound: the clock stops here
    MaxConfigs      \* bound: configurations of a behaviour

\* A JSON number without a fraction, and the hashes of four strings.
ASSUME OpaAssumption ==
    /\ \A c \in Config :
          HasField(c, "check_result_cache_valid_sec")
          /\ Is("number", c.object.check_result_cache_valid_sec)
          => c.object.check_result_cache_valid_sec.number \in Int
    /\ Payload \subseteq [source_principal : Hash, destination_workload : Hash,
                           request_method : Hash, request_url_path : Hash]
    /\ MaxClock \in Nat /\ MaxConfigs \in Nat

VARIABLES
    config,         \* opa_host_, opa_cluster_, cache_valid_for_sec_ and its nanoseconds
    accepted,       \* has a configuration been accepted?
    loads,          \* the configurations so far
    now,            \* getCurrentTimeNanoseconds()
    cache,          \* cache_
    state,          \* what became of each stream
    calls,          \* the payload of each stream whose OPA call has no answer yet
    vm,             \* "running", "trapped", or "undefined" after a bad iterator
    last,           \* the decision of the last callback, if it made one
    answers         \* history: the decisions received from the OPA server

settings == <<config, accepted, loads>>
vars == <<settings, now, cache, state, calls, vm, last, answers>>

NoDecision == [none |-> TRUE]

\* The cache is valid for ten seconds until it is told otherwise.
Init ==
    /\ config = [host |-> "", cluster |-> "", validSec |-> 0,
                 validFor |-> ValidDuration(10)]
    /\ accepted = FALSE
    /\ loads = 0
    /\ now = 0
    /\ cache = EmptyCache
    /\ state = [s \in Stream |-> "new"]
    /\ calls = <<>>
    /\ vm = "running"
    /\ last = NoDecision
    /\ answers = {}

\* The cache after an operation; the VM's state is anything after a bad one.
SetCache(c) ==
    /\ cache' = c
    /\ vm' = IF c.ok THEN vm ELSE "undefined"

\* continueRequest, or sendLocalResponse with 403 ...
Respond(s, p, allowed, cached) ==
    /\ state' = [state EXCEPT ![s] = "done"]
    /\ last' = [payload |-> p, allowed |-> allowed, cached |-> cached]

\* ... or sendLocalResponse with 500.
RespondError(s) ==
    /\ state' = [state EXCEPT ![s] = "done"]
    /\ last' = NoDecision

----------------------------------------------------------------------------
(* onConfigure -> parseConfiguration *)

\* Each field is read, and set, only if the ones before it were.
HostRead(c) ==
    JsonParses(c) /\ HasField(c, "opa_service_host") /\ IsJsonString(c.object.opa_service_host)

ClusterRead(c) ==
    HostRead(c) /\ HasField(c, "opa_cluster_name") /\ IsJsonString(c.object.opa_cluster_name)

\* The validity is optional.
Parses(c) ==
    /\ ClusterRead(c)
    /\ HasField(c, "check_result_cache_valid_sec") =>
          IsJsonUint(c.object.check_result_cache_valid_sec, TimeModulus)

ProvidesValidity(c) == Parses(c) /\ HasField(c, "check_result_cache_valid_sec")

\* Without one the plugin holds on to the one it has.
ValidSec(c) ==
    IF ProvidesValidity(c)
    THEN JsonUint(c.object.check_result_cache_valid_sec, TimeModulus)
    ELSE config.validSec

\* Mutant of Parsed: the cache is not told its validity.
ParsedForgettingCache(c) ==
    [host |-> IF HostRead(c) THEN c.object.opa_service_host.string ELSE config.host,
     cluster |-> IF ClusterRead(c) THEN c.object.opa_cluster_name.string ELSE config.cluster,
     validSec |-> ValidSec(c),
     validFor |-> config.validFor]

\* The members after a configuration: the fields before one that is refused are
\* set, and the cache is told its validity if none is.
Parsed(c) ==
    [host |-> IF HostRead(c) THEN c.object.opa_service_host.string ELSE config.host,
     cluster |-> IF ClusterRead(c) THEN c.object.opa_cluster_name.string ELSE config.cluster,
     validSec |-> ValidSec(c),
     validFor |-> IF Parses(c) THEN ValidDuration(ValidSec(c)) ELSE config.validFor]

OnConfigure(c) ==
    /\ vm = "running" /\ loads < MaxConfigs
    /\ config' = Parsed(c)
    /\ accepted' = (accepted \/ Parses(c))
    /\ loads' = loads + 1
    /\ last' = NoDecision
    /\ UNCHANGED <<now, cache, state, calls, vm, answers>>

----------------------------------------------------------------------------
(* onRequestHeaders -> check *)

Checked(p) == Check(cache, ComputeHash(p), config.validFor, now)

\* The decision is cached: continue, or a 403.
CheckHit(s, p) ==
    /\ vm = "running" /\ accepted /\ state[s] = "new"
    /\ Checked(p).hit
    /\ SetCache(Checked(p).cache)
    /\ Respond(s, p, Checked(p).allowed, TRUE)
    /\ UNCHANGED <<settings, now, calls, answers>>

\* Not cached: the stream is paused until the OPA server answers.
CheckMiss(s, p) ==
    /\ vm = "running" /\ accepted /\ state[s] = "new"
    /\ ~ Checked(p).hit
    /\ SetCache(Checked(p).cache)
    /\ config.cluster \in Cluster
    /\ calls' = [t \in DOMAIN calls \cup {s} |-> IF t = s THEN p ELSE calls[t]]
    /\ state' = [state EXCEPT ![s] = "waiting"]
    /\ last' = NoDecision
    /\ UNCHANGED <<settings, now, answers>>

\* Not cached, and the host refuses the call: a 500.
CheckMissNoCall(s, p) ==
    /\ vm = "running" /\ accepted /\ state[s] = "new"
    /\ ~ Checked(p).hit
    /\ SetCache(Checked(p).cache)
    /\ RespondError(s)
    /\ UNCHANGED <<settings, now, calls, answers>>

----------------------------------------------------------------------------
(* The callback of the OPA call *)

\* addCache with the hash the callback has captured.
Remember(s, allowed) ==
    /\ SetCache(Add(cache, ComputeHash(calls[s]), allowed, now))
    /\ answers' = answers \cup {[payload |-> calls[s], allowed |-> allowed, at |-> now]}

Answered(s) ==
    /\ vm = "running" /\ s \in DOMAIN calls
    /\ calls' = Restrict(calls, DOMAIN calls \ {s})

\* Mutant of AnswerDecision: the decision is not applied to the stream.
AnswerForgotten(s, allowed) ==
    /\ Answered(s) /\ state[s] = "waiting"
    /\ Remember(s, allowed)
    /\ UNCHANGED <<settings, now, state, last>>

\* The answer holds a decision: cached, then applied to the stream.
AnswerDecision(s, allowed) ==
    /\ Answered(s) /\ state[s] = "waiting"
    /\ Remember(s, allowed)
    /\ Respond(s, calls[s], allowed, FALSE)
    /\ UNCHANGED <<settings, now>>

\* The body is not JSON (a timeout included), or has no boolean result: a 500.
AnswerInvalid(s) ==
    /\ Answered(s) /\ state[s] = "waiting"
    /\ RespondError(s)
    /\ UNCHANGED <<settings, now, cache, vm, answers>>

\* The stream is gone: getContext returns null, and setEffectiveContext on it is
\* undefined.  Either the VM traps ...
AnswerTraps(s) ==
    /\ Answered(s) /\ state[s] = "gone"
    /\ vm' = "trapped"
    /\ last' = NoDecision
    /\ UNCHANGED <<settings, now, cache, state, answers>>

\* ... or the callback goes on and answers no stream, but a decision is cached.
AnswerGone(s) ==
    /\ Answered(s) /\ state[s] = "gone"
    /\ \/ \E allowed \in BOOLEAN : Remember(s, allowed)
       \/ UNCHANGED <<cache, vm, answers>>
    /\ last' = NoDecision
    /\ UNCHANGED <<settings, now, state>>

----------------------------------------------------------------------------
(* The host.  A VM that has trapped takes no callback, and the model ends there. *)

\* A stream that waits for its answer ends: the client went away.
StreamEnds(s) ==
    /\ vm = "running" /\ state[s] = "waiting"
    /\ state' = [state EXCEPT ![s] = "gone"]
    /\ last' = NoDecision
    /\ UNCHANGED <<settings, now, cache, calls, vm, answers>>

ClockTick ==
    /\ vm = "running" /\ now < MaxClock
    /\ now' = now + 1
    /\ last' = NoDecision
    /\ UNCHANGED <<settings, cache, state, calls, vm, answers>>

Answer(s) ==
    \/ AnswerInvalid(s) \/ AnswerTraps(s) \/ AnswerGone(s)
    \/ \E allowed \in BOOLEAN : AnswerDecision(s, allowed)

Next ==
    \/ \E s \in Stream :
          \/ \E p \in Payload : CheckHit(s, p) \/ CheckMiss(s, p) \/ CheckMissNoCall(s, p)
          \/ Answer(s) \/ StreamEnds(s)
    \/ \E c \in Config : OnConfigure(c)
    \/ ClockTick

Spec == Init /\ [][Next]_vars

\* The host answers every call it accepted, with a timeout at the latest.
FairSpec == Spec /\ \A s \in Stream : WF_vars(Answer(s))

----------------------------------------------------------------------------
\* The strings read from configurations.
Hosts == {c.object.opa_service_host.string : c \in {d \in Config : HostRead(d)}}
Clusters == {c.object.opa_cluster_name.string : c \in {d \in Config : ClusterRead(d)}}

TypeOK ==
    /\ config \in [host : {""} \cup Hosts, cluster : {""} \cup Clusters,
                   validSec : 0 .. TimeModulus - 1, validFor : 0 .. TimeModulus - 1]
    /\ accepted \in BOOLEAN /\ loads \in 0 .. MaxConfigs
    /\ now \in 0 .. MaxClock
    /\ cache.recent \in Seq(Hash) /\ cache.pos \subseteq Hash /\ cache.ok \in BOOLEAN
    /\ DOMAIN cache.result \subseteq Hash
    /\ \A h \in DOMAIN cache.result :
          cache.result[h] \in [allowed : BOOLEAN, at : 0 .. MaxClock]
    /\ state \in [Stream -> {"new", "waiting", "gone", "done"}]
    /\ DOMAIN calls \subseteq Stream /\ Range(calls) \subseteq Payload
    /\ vm \in {"running", "trapped", "undefined"}
    /\ last = NoDecision
       \/ last \in [payload : Payload, allowed : BOOLEAN, cached : BOOLEAN]
    /\ answers \subseteq [payload : Payload, allowed : BOOLEAN, at : 0 .. MaxClock]

\* As long as no dangling iterator was used, the two maps have the same keys, the
\* list is within MAX_NUM_ENTRY, and the list agrees with the maps, each entry once,
\* until an eviction forgets an entry: evict takes the hash through an int, so it
\* is only an entry whose hash is no int that can be left without its node.
CacheInStep ==
    LET leaked == cache.pos \ ToSet(cache.recent)
    IN  cache.ok =>
        /\ DOMAIN cache.result = cache.pos
        /\ Len(cache.recent) <= MaxNumEntry
        /\ \A h \in leaked : ThroughInt(h) # h
        /\ leaked = {} =>
              ToSet(cache.recent) = cache.pos /\ Len(cache.recent) = Cardinality(cache.pos)

\* cache.h calls it an LRU cache, of MAX_NUM_ENTRY entries.
CacheBounded == Cardinality(DOMAIN cache.result) <= MaxNumEntry

\* A request is let through, or refused with a 403, only on a decision of the OPA
\* server about a payload of the same hash, which is all the cache knows of it: one
\* that has just arrived, or one not older than the validity the plugin holds,
\* which an earlier configuration may have left there: one that provides none
\* sets none, although plugin.cc says of it "If not provided, result won't be
\* cached."
DecisionJustified ==
    last # NoDecision =>
        \E a \in answers :
            /\ ComputeHash(a.payload) = ComputeHash(last.payload)
            /\ a.allowed = last.allowed
            /\ IF last.cached
               THEN a.at + config.validSec * NanosPerSec > now
               ELSE a.at = now

\* No paused stream is forgotten: it gets a response or ends, whatever answers,
\* timeouts, refusals and configurations come before.  A VM that has trapped
\* answers nobody: the streams that wait then stay paused.
PausedIsResumed ==
    \A s \in Stream :
        state[s] = "waiting" ~> (state[s] # "waiting" \/ vm # "running")

=============================================================================
