---------------------------- MODULE GrpcLogging ----------------------------
(***************************************************************************)
(* The gRPC access logger (extensions/grpc_logging): one root context of   *)
(* one VM.  Finished streams add entries to the log request being written; *)
(* full or ticked requests move to a buffer, and the buffer is sent with   *)
(* asynchronous gRPC calls.  Callbacks of a VM do not overlap, so every    *)
(* action is a whole callback; what interleaves is their order, and the    *)
(* answers of the calls.                                                   *)
(*                                                                         *)
(* The host is external: it configures the plugin, ends its streams before *)
(* it calls onDone once, destroys the plugin when onDone returns true or   *)
(* proxy_done is called, and keeps the timer running until then.  A call   *)
(* of grpcSimpleCall that is not Ok has no callback.                       *)
(***************************************************************************)
EXTENDS Integers, Sequences, FiniteSets

CONSTANTS
    FlushSize,      \* entries that make a full request, 500 in addLogEntry
    MaxEntries      \* bound: entries logged in all

ASSUME LoggingAssumption ==
    /\ FlushSize \in Nat \ {0}
    /\ MaxEntries \in Nat

Entry == 1 .. MaxEntries      \* entries, numbered in the order they are logged

VARIABLES
    logged,         \* the number of entries logged so far
    curLogReq,      \* cur_log_req_: the entries of the request being written
    logEntryCount,  \* log_entry_count_
    reqBuffer,      \* req_buffer_: the requests waiting to be sent
    inFlight,       \* in_flight_export_call_
    isOnDone,       \* is_on_done_
    calls,          \* the requests of the gRPC calls the host is making
    delivered,      \* entries in calls that succeeded
    failed,         \* entries in calls that failed
    life            \* what the host makes of the plugin

plugin == <<curLogReq, logEntryCount, reqBuffer, inFlight, isOnDone>>
vars == <<logged, plugin, calls, delivered, failed, life>>

Init ==
    /\ logged = 0
    /\ curLogReq = {} /\ logEntryCount = 0
    /\ reqBuffer = <<>>
    /\ inFlight = 0 /\ isOnDone = FALSE
    /\ calls = {} /\ delivered = {} /\ failed = {}
    /\ life = "new"

\* A wrong configuration or none is refused; the host then drops the plugin.
OnConfigure ==
    /\ life = "new"
    /\ life' \in {"serving", "refused"}
    /\ UNCHANGED <<logged, plugin, calls, delivered, failed>>

----------------------------------------------------------------------------
\* Mutant of Flushed: the flushed request is kept as the current one.
FlushedTwice(cur, count, buf) ==
    IF count <= 0
    THEN [cur |-> cur, count |-> count, buf |-> buf]
    ELSE [cur |-> cur, count |-> 0, buf |-> Append(buf, cur)]

\* Mutant of Flushed: nothing is flushed.
FlushedNever(cur, count, buf) == [cur |-> cur, count |-> count, buf |-> buf]

\* flushLogBuffer
Flushed(cur, count, buf) ==
    IF count <= 0
    THEN [cur |-> cur, count |-> count, buf |-> buf]
    ELSE [cur |-> {}, count |-> 0, buf |-> Append(buf, cur)]

SetBuffers(f) ==
    /\ curLogReq' = f.cur
    /\ logEntryCount' = f.count
    /\ reqBuffer' = f.buf

\* onLog -> addLogEntry
OnLog ==
    /\ life = "serving"
    /\ logged < MaxEntries
    /\ logged' = logged + 1
    /\ LET cur == curLogReq \cup {logged + 1}
           count == logEntryCount + 1
       IN  SetBuffers(IF count >= FlushSize
                      THEN Flushed(cur, count, reqBuffer)
                      ELSE [cur |-> cur, count |-> count, buf |-> reqBuffer])
    /\ UNCHANGED <<inFlight, isOnDone, calls, delivered, failed, life>>

----------------------------------------------------------------------------
\* Mutant of SendLogRequest: a request is skipped when its call is refused.
SendLogRequestSkipping(f, ondone, accepted) ==
    /\ isOnDone' = ondone
    /\ calls' = calls \cup {f.buf[i] : i \in Len(f.buf) - accepted + 1 .. Len(f.buf)}
    /\ inFlight' = inFlight + accepted
    /\ SetBuffers([cur |-> f.cur, count |-> f.count,
                   buf |-> SubSeq(f.buf, 1, Len(f.buf) - accepted)])

\* Mutant of SendLogRequest: the refused call is counted as in flight.
SendLogRequestCountingAll(f, ondone, accepted) ==
    /\ isOnDone' = ondone
    /\ calls' = calls \cup {f.buf[i] : i \in 1 .. accepted}
    /\ inFlight' = inFlight + Len(f.buf)
    /\ SetBuffers([cur |-> f.cur, count |-> f.count,
                   buf |-> SubSeq(f.buf, accepted + 1, Len(f.buf))])

\* sendLogRequest: the host accepts some first calls of the loop; the first one
\* it refuses ends the loop and leaves the rest of the buffer.
SendLogRequest(f, ondone, accepted) ==
    /\ isOnDone' = ondone
    /\ calls' = calls \cup {f.buf[i] : i \in 1 .. accepted}
    /\ inFlight' = inFlight + accepted
    /\ SetBuffers([cur |-> f.cur, count |-> f.count,
                   buf |-> SubSeq(f.buf, accepted + 1, Len(f.buf))])

\* onTick, while the plugin exists
OnTickIdle ==
    /\ life \in {"serving", "draining"}
    /\ LET f == Flushed(curLogReq, logEntryCount, reqBuffer)
       IN  f.buf = <<>> /\ SetBuffers(f)
    /\ UNCHANGED <<logged, inFlight, isOnDone, calls, delivered, failed, life>>

OnTickSend(accepted) ==
    /\ life \in {"serving", "draining"}
    /\ LET f == Flushed(curLogReq, logEntryCount, reqBuffer)
       IN  /\ f.buf # <<>>
           /\ accepted <= Len(f.buf)
           /\ SendLogRequest(f, FALSE, accepted)
    /\ UNCHANGED <<logged, delivered, failed, life>>

\* onDone returns true: the host destroys the plugin.
OnDoneNow ==
    /\ life = "serving"
    /\ reqBuffer = <<>> /\ inFlight = 0
    /\ life' = "destroyed"
    /\ UNCHANGED <<logged, plugin, calls, delivered, failed>>

\* onDone returns false: the host waits for proxy_done.
OnDoneLater(accepted) ==
    /\ life = "serving"
    /\ ~ (reqBuffer = <<>> /\ inFlight = 0)
    /\ LET f == Flushed(curLogReq, logEntryCount, reqBuffer)
       IN  accepted <= Len(f.buf) /\ SendLogRequest(f, TRUE, accepted)
    /\ life' = "draining"
    /\ UNCHANGED <<logged, delivered, failed>>

----------------------------------------------------------------------------
\* Mutant of CallEnds: proxy_done without waiting for the other calls.
CallEndsHastily(req) ==
    /\ req \in calls
    /\ calls' = calls \ {req}
    /\ inFlight' = inFlight - 1
    /\ life' = IF isOnDone THEN "destroyed" ELSE life
    /\ UNCHANGED <<logged, curLogReq, logEntryCount, reqBuffer, isOnDone>>

\* What both callbacks do, whatever the answer: count the call off, and call
\* proxy_done after the last one if onDone is waiting.
CallEnds(req) ==
    /\ req \in calls
    /\ calls' = calls \ {req}
    /\ inFlight' = inFlight - 1
    /\ life' = IF inFlight' <= 0 /\ isOnDone THEN "destroyed" ELSE life
    /\ UNCHANGED <<logged, curLogReq, logEntryCount, reqBuffer, isOnDone>>

\* success_callback_
OnSuccess(req) ==
    /\ life \in {"serving", "draining"}
    /\ CallEnds(req)
    /\ delivered' = delivered \cup req
    /\ UNCHANGED failed

\* failure_callback_: a failed or timed out call is not repeated.
OnFailure(req) ==
    /\ life \in {"serving", "draining"}
    /\ CallEnds(req)
    /\ failed' = failed \cup req
    /\ UNCHANGED delivered

----------------------------------------------------------------------------
Sends == 0 .. MaxEntries

Next ==
    \/ OnConfigure \/ OnLog \/ OnTickIdle \/ OnDoneNow
    \/ \E accepted \in Sends : OnTickSend(accepted) \/ OnDoneLater(accepted)
    \/ \E req \in calls : OnSuccess(req) \/ OnFailure(req)

Spec == Init /\ [][Next]_vars

CallAnswered == \E req \in calls : OnSuccess(req) \/ OnFailure(req)

\* A tick on which the host accepts the first call at least.
TickAccepted == \E accepted \in Sends \ {0} : OnTickSend(accepted)

\* Every call is answered or times out, and the timer keeps firing and is not
\* refused for ever.
FairSpec == Spec /\ WF_vars(CallAnswered) /\ WF_vars(TickAccepted)

----------------------------------------------------------------------------
Buffered == UNION {reqBuffer[i] : i \in DOMAIN reqBuffer}
Calling == UNION calls
Sent == Calling \cup delivered \cup failed

TypeOK ==
    /\ logged \in 0 .. MaxEntries
    /\ curLogReq \in SUBSET Entry
    /\ logEntryCount \in 0 .. FlushSize - 1
    /\ reqBuffer \in Seq(SUBSET Entry)
    /\ inFlight \in Nat
    /\ isOnDone \in BOOLEAN
    /\ calls \in SUBSET SUBSET Entry
    /\ delivered \in SUBSET Entry /\ failed \in SUBSET Entry
    /\ life \in {"new", "refused", "serving", "draining", "destroyed"}

\* Every logged entry is in exactly one place: the request being written, one
\* buffered request, one call, or answered.  None is lost between two requests
\* and none is sent twice, also when a call of sendLogRequest is refused halfway.
EntriesInOnePlace ==
    /\ curLogReq \cup Buffered \cup Sent = 1 .. logged
    /\ \A e \in 1 .. logged :
          Cardinality({i \in DOMAIN reqBuffer : e \in reqBuffer[i]})
          + Cardinality({c \in calls : e \in c})
          + Cardinality({s \in {1, 2, 3} : e \in <<curLogReq, delivered, failed>>[s]}) = 1

\* plugin.cc warns that the count "should not be negative": it is exactly the
\* number of calls without an answer, over any order of sends and answers.
InFlightExact == inFlight = Cardinality(calls)

\* Entries leave in the order they were logged, refused calls notwithstanding.
SentInOrder ==
    \A e \in Sent : \A f \in curLogReq \cup Buffered : e < f

\* plugin.h: in-flight calls are "zero before calling proxy_done": no answer
\* comes for a plugin that is gone.
DestroyedWhenQuiet == life = "destroyed" => calls = {}

\* What is logged is sent sooner or later, unless the plugin is destroyed.
LoggedIsSent ==
    \A e \in Entry : e <= logged ~> e \in Sent \/ life = "destroyed"

\* plugin.cc, at proxy_done: "All works have been finished. The plugin is safe
\* to be destroyed."
SafeToDestroy ==
    life = "destroyed" => curLogReq = {} /\ reqBuffer = <<>> /\ calls = {}

\* plugin.h, is_on_done_: "If this is true, gRPC callback needs to call
\* proxy_done": a plugin whose onDone returned false is destroyed in the end.
DrainCompletes == life = "draining" ~> life = "destroyed"

=============================================================================
