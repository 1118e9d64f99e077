------------------------- MODULE GrpcLoggingProofs -------------------------
(***************************************************************************)
(* Proofs about the gRPC access logger, for any flush size, any number of  *)
(* entries, and any order of ticks, answers and refused calls.             *)
(***************************************************************************)
EXTENDS GrpcLogging, FiniteSetTheorems, FunctionTheorems,
    SequenceTheorems, TLAPS

\* The entries of the request being written, of the buffer and of what was sent
\* are 1 .. n in this order: sent first, then the buffer's requests, then cur.
\* No buffered request is empty, and the count tells whether cur is.
Arranged(cur, count, buf, sent, n) ==
    /\ cur \in SUBSET Entry /\ sent \in SUBSET Entry
    /\ buf \in Seq(SUBSET Entry)
    /\ count \in Nat /\ (count = 0 <=> cur = {})
    /\ \A i \in 1 .. Len(buf) : buf[i] # {}
    /\ \A i, j \in 1 .. Len(buf) : i < j => \A e \in buf[i], f \in buf[j] : e < f
    /\ \A i \in 1 .. Len(buf) : \A e \in buf[i], f \in cur : e < f
    /\ \A e \in sent : \A f \in cur : e < f
    /\ \A e \in sent : \A i \in 1 .. Len(buf) : \A f \in buf[i] : e < f
    /\ \A e \in 1 .. n : e \in cur \/ e \in sent \/ \E i \in 1 .. Len(buf) : e \in buf[i]
    /\ cur \subseteq 1 .. n /\ sent \subseteq 1 .. n
    /\ \A i \in 1 .. Len(buf) : buf[i] \subseteq 1 .. n

\* flushLogBuffer keeps the arrangement, and leaves nothing being written.
LEMMA FlushedArranged ==
    ASSUME NEW cur, NEW count, NEW buf, NEW sent, NEW n \in Nat,
           Arranged(cur, count, buf, sent, n)
    PROVE  /\ Flushed(cur, count, buf)
                = [cur |-> {}, count |-> 0, buf |-> Flushed(cur, count, buf).buf]
           /\ Arranged({}, 0, Flushed(cur, count, buf).buf, sent, n)
<1>1. CASE count = 0
  <2>1. cur = {}
    BY <1>1 DEF Arranged
  <2>2. Flushed(cur, count, buf) = [cur |-> {}, count |-> 0, buf |-> buf]
    BY <1>1, <2>1 DEF Flushed
  <2> QED
    BY <1>1, <2>1, <2>2
<1>2. CASE count # 0
  <2> DEFINE b == Append(buf, cur)
  <2>1. Flushed(cur, count, buf) = [cur |-> {}, count |-> 0, buf |-> b]
    BY <1>2 DEF Flushed, Arranged
  <2>2. /\ b \in Seq(SUBSET Entry)
        /\ Len(b) = Len(buf) + 1 /\ Len(buf) \in Nat
        /\ \A i \in 1 .. Len(buf) : b[i] = buf[i]
        /\ b[Len(buf) + 1] = cur
    BY AppendProperties, LenProperties DEF Arranged
  <2>3. \A i \in 1 .. Len(b) : i \in 1 .. Len(buf) \/ i = Len(buf) + 1
    BY <2>2
  <2>4. cur # {}
    BY <1>2 DEF Arranged
  <2> HIDE DEF b
  <2>5. \A i, j \in 1 .. Len(b) : i < j => \A e \in b[i], f \in b[j] : e < f
    <3> SUFFICES ASSUME NEW i \in 1 .. Len(b), NEW j \in 1 .. Len(b), i < j
                 PROVE  \A e \in b[i], f \in b[j] : e < f
      OBVIOUS
    <3>1. i \in 1 .. Len(buf)
      BY <2>2
    <3>2. CASE j \in 1 .. Len(buf)
      BY <2>2, <3>1, <3>2 DEF Arranged
    <3>3. CASE j = Len(buf) + 1
      BY <2>2, <3>1, <3>3 DEF Arranged
    <3> QED
      BY <2>3, <3>2, <3>3
  <2>6. \A e \in 1 .. n : e \in sent \/ \E i \in 1 .. Len(b) : e \in b[i]
    <3> SUFFICES ASSUME NEW e \in 1 .. n, e \notin sent
                 PROVE  \E i \in 1 .. Len(b) : e \in b[i]
      OBVIOUS
    <3>1. CASE e \in cur
      BY <2>2, <3>1
    <3>2. ASSUME NEW i \in 1 .. Len(buf), e \in buf[i] PROVE \E j \in 1 .. Len(b) : e \in b[j]
      BY <2>2, <3>2
    <3> QED
      BY <3>1, <3>2 DEF Arranged
  <2>7. \A i \in 1 .. Len(b) : b[i] # {} /\ b[i] \subseteq 1 .. n /\ \A e \in sent : \A f \in b[i] : e < f
    BY <2>2, <2>3, <2>4 DEF Arranged
  <2>8. sent \in SUBSET Entry /\ sent \subseteq 1 .. n
    BY DEF Arranged
  <2>9. Arranged({}, 0, b, sent, n)
    BY <2>2, <2>5, <2>6, <2>7, <2>8 DEF Arranged
  <2> QED
    BY <2>1, <2>9
<1> QED
  BY <1>1, <1>2

\* The requests that sendLogRequest hands to the host.
Taken(buf, accepted) == {buf[i] : i \in 1 .. accepted}

\* sendLogRequest keeps the arrangement, whichever call is refused.
LEMMA SendArranged ==
    ASSUME NEW cur, NEW count, NEW buf, NEW sent, NEW n \in Nat,
           Arranged(cur, count, buf, sent, n), NEW accepted \in 0 .. Len(buf)
    PROVE  Arranged(cur, count, SubSeq(buf, accepted + 1, Len(buf)),
                    sent \cup UNION Taken(buf, accepted), n)
<1> DEFINE b == SubSeq(buf, accepted + 1, Len(buf))
           s == sent \cup UNION Taken(buf, accepted)
<1>1. Len(buf) \in Nat /\ accepted \in Nat /\ \A i \in 1 .. Len(buf) : buf[i] \in SUBSET Entry
  BY LenProperties, ElementOfSeq DEF Arranged
<1>2. \A i \in accepted + 1 .. Len(buf) : buf[i] \in SUBSET Entry
  BY <1>1
<1>3. /\ b \in Seq(SUBSET Entry)
      /\ Len(b) = IF accepted + 1 <= Len(buf) THEN Len(buf) - (accepted + 1) + 1 ELSE 0
      /\ \A i \in 1 .. Len(buf) - (accepted + 1) + 1 : b[i] = buf[accepted + 1 + i - 1]
  BY <1>1, <1>2, SubSeqProperties
<1>4. Len(b) = Len(buf) - accepted /\ \A i \in 1 .. Len(b) : b[i] = buf[accepted + i] /\ accepted + i \in 1 .. Len(buf)
  BY <1>1, <1>3
<1>5. \A e : e \in s <=> e \in sent \/ \E i \in 1 .. accepted : e \in buf[i]
  BY DEF Taken
<1>6. \A i \in 1 .. accepted : i \in 1 .. Len(buf)
  BY <1>1
<1> HIDE DEF b, s
<1>7. s \in SUBSET Entry /\ s \subseteq 1 .. n
  BY <1>1, <1>5, <1>6 DEF Arranged
<1>8. \A e \in s : \A f \in cur : e < f
  BY <1>5, <1>6 DEF Arranged
<1>9. \A e \in s : \A i \in 1 .. Len(b) : \A f \in b[i] : e < f
  <2> SUFFICES ASSUME NEW e \in s, NEW i \in 1 .. Len(b), NEW f \in b[i] PROVE e < f
    OBVIOUS
  <2>1. f \in buf[accepted + i] /\ accepted + i \in 1 .. Len(buf)
    BY <1>4
  <2>2. CASE e \in sent
    BY <2>1, <2>2 DEF Arranged
  <2>3. ASSUME NEW k \in 1 .. accepted, e \in buf[k] PROVE e < f
    <3>1. k < accepted + i /\ k \in 1 .. Len(buf)
      BY <1>1, <1>3, <1>6
    <3> QED
      BY <2>1, <2>3, <3>1 DEF Arranged
  <2> QED
    BY <1>5, <2>2, <2>3
<1>10. \A i, j \in 1 .. Len(b) : i < j => \A e \in b[i], f \in b[j] : e < f
  <2> SUFFICES ASSUME NEW i \in 1 .. Len(b), NEW j \in 1 .. Len(b), i < j
               PROVE  \A e \in b[i], f \in b[j] : e < f
    OBVIOUS
  <2>1. accepted + i < accepted + j /\ accepted + i \in 1 .. Len(buf) /\ accepted + j \in 1 .. Len(buf)
    BY <1>1, <1>4
  <2> QED
    BY <1>4, <2>1 DEF Arranged
<1>11. \A e \in 1 .. n : e \in cur \/ e \in s \/ \E i \in 1 .. Len(b) : e \in b[i]
  <2> SUFFICES ASSUME NEW e \in 1 .. n, e \notin cur, e \notin s
               PROVE  \E i \in 1 .. Len(b) : e \in b[i]
    OBVIOUS
  <2>1. PICK j \in 1 .. Len(buf) : e \in buf[j]
    BY <1>5 DEF Arranged
  <2>2. j - accepted \in 1 .. Len(b) /\ accepted + (j - accepted) = j
    BY <1>1, <1>4, <1>5, <2>1
  <2> QED
    BY <1>4, <2>1, <2>2
<1>12. \A i \in 1 .. Len(b) : b[i] # {} /\ b[i] \subseteq 1 .. n /\ \A e \in b[i], f \in cur : e < f
  BY <1>4 DEF Arranged
<1> QED
  BY <1>3, <1>7, <1>8, <1>9, <1>10, <1>11, <1>12 DEF Arranged, b, s

\* Different requests of the buffer have no entry in common: sendLogRequest makes
\* as many new calls as the host accepts, and each of them carries new entries.
LEMMA TakenCount ==
    ASSUME NEW cur, NEW count, NEW buf, NEW sent, NEW n \in Nat,
           Arranged(cur, count, buf, sent, n), NEW accepted \in 0 .. Len(buf)
    PROVE  /\ IsFiniteSet(Taken(buf, accepted))
           /\ Cardinality(Taken(buf, accepted)) = accepted
           /\ \A c \in Taken(buf, accepted) :
                 c \in SUBSET Entry /\ c # {} /\ c \cap sent = {}
           /\ \A c, d \in Taken(buf, accepted) : c # d => c \cap d = {}
<1> DEFINE T == Taken(buf, accepted)
           g == [i \in 1 .. accepted |-> buf[i]]
<1>1. Len(buf) \in Nat /\ accepted \in Nat /\ \A i \in 1 .. Len(buf) : buf[i] \in SUBSET Entry
  BY LenProperties, ElementOfSeq DEF Arranged
<1>2. \A i \in 1 .. accepted : i \in 1 .. Len(buf)
  BY <1>1
<1>3. \A i, j \in 1 .. accepted : i # j => buf[i] \cap buf[j] = {}
  <2> SUFFICES ASSUME NEW i \in 1 .. accepted, NEW j \in 1 .. accepted, i # j, NEW e,
                      e \in buf[i], e \in buf[j]
               PROVE  FALSE
    OBVIOUS
  <2>1. e \in Int
    BY <1>1, <1>2, LoggingAssumption DEF Entry
  <2>2. i < j \/ j < i
    BY <1>1
  <2>3. e < e
    BY <1>2, <2>2 DEF Arranged
  <2> QED
    BY <2>1, <2>3
<1>4. \A i \in 1 .. accepted : buf[i] # {} /\ buf[i] \in SUBSET Entry /\ buf[i] \cap sent = {}
  <2> SUFFICES ASSUME NEW i \in 1 .. accepted PROVE buf[i] \cap sent = {}
    BY <1>1, <1>2 DEF Arranged
  <2> SUFFICES ASSUME NEW e \in buf[i], e \in sent PROVE FALSE
    OBVIOUS
  <2>1. e \in Int
    BY <1>1, <1>2, LoggingAssumption DEF Entry
  <2>2. e < e
    BY <1>2 DEF Arranged
  <2> QED
    BY <2>1, <2>2
<1>5. g \in [1 .. accepted -> T] /\ \A a, b \in 1 .. accepted : g[a] = g[b] => a = b
  BY <1>3, <1>4 DEF Taken
<1>6. \A t \in T : \E i \in 1 .. accepted : g[i] = t
  BY DEF Taken
<1>7. g \in Bijection(1 .. accepted, T)
  BY <1>5, <1>6, Fun_IsBij
<1>8. ExistsBijection(1 .. accepted, T)
  BY <1>7 DEF ExistsBijection
<1>9. IsFiniteSet(1 .. accepted) /\ Cardinality(1 .. accepted) = accepted
  BY <1>1, FS_Interval
<1>10. IsFiniteSet(T) /\ Cardinality(T) = accepted
  BY <1>8, <1>9, FS_Bijection
<1> QED
  BY <1>3, <1>4, <1>10 DEF Taken

----------------------------------------------------------------------------
(* The inductive invariant *)

\* An entry of a call is in no other call and has no answer yet.
CallsApart ==
    /\ \A c \in calls : c # {} /\ c \cap (delivered \cup failed) = {}
    /\ \A c, d \in calls : c # d => c \cap d = {}
    /\ delivered \cap failed = {}

\* The calls the plugin counts are the calls the host makes.
CallsCounted == IsFiniteSet(calls) /\ InFlightExact

\* Only a plugin that exists has calls.
CallsOwned == life \in {"new", "refused", "destroyed"} => calls = {}

\* None of the properties is inductive alone.  That no entry is sent twice needs
\* the order of the buffer, because calls are a set: two equal requests would be
\* one call counted twice; and that a destroyed plugin is quiet needs the count.
LogInv ==
    /\ TypeOK
    /\ Arranged(curLogReq, logEntryCount, reqBuffer, Sent, logged)
    /\ CallsApart
    /\ CallsCounted
    /\ CallsOwned

\* The initial state.
LEMMA LogInvInit == Init => LogInv
<1> SUFFICES ASSUME Init PROVE LogInv
  OBVIOUS
<1> USE LoggingAssumption DEF Init
<1>1. TypeOK
  <2>1. reqBuffer \in Seq(SUBSET Entry)
    BY EmptySeq
  <2>2. logged \in 0 .. MaxEntries /\ logEntryCount \in 0 .. FlushSize - 1
    OBVIOUS
  <2> QED
    BY <2>1, <2>2 DEF TypeOK
<1>2. Sent = {}
  BY DEF Sent, Calling
<1>3. Arranged(curLogReq, logEntryCount, reqBuffer, Sent, logged)
  BY <1>1, <1>2 DEF Arranged, TypeOK
<1>4. CallsApart /\ CallsOwned
  BY DEF CallsApart, CallsOwned
<1>5. CallsCounted
  BY FS_EmptySet DEF CallsCounted, InFlightExact
<1> QED
  BY <1>1, <1>3, <1>4, <1>5 DEF LogInv

\* onLog: the new entry is the last one, whether its request is flushed or not.
LEMMA LogInvOnLog ==
    ASSUME LogInv, OnLog
    PROVE  LogInv'
<1> USE LoggingAssumption
<1> DEFINE cur == curLogReq \cup {logged + 1}
           count == logEntryCount + 1
<1>1. logged \in Nat /\ logged' = logged + 1 /\ logged' \in 0 .. MaxEntries /\ logged' \in Nat
  BY DEF LogInv, TypeOK, OnLog
<1>2. Sent' = Sent
  BY DEF OnLog, Sent, Calling
<1>3. Arranged(cur, count, reqBuffer, Sent, logged')
  <2>1. cur \in SUBSET Entry /\ count \in Nat /\ count # 0 /\ cur # {}
    BY <1>1 DEF LogInv, TypeOK, Entry
  <2>2. Len(reqBuffer) \in Nat /\ \A i \in 1 .. Len(reqBuffer) : reqBuffer[i] \in SUBSET Entry
    BY LenProperties, ElementOfSeq DEF LogInv, TypeOK
  <2>3. /\ \A e \in Sent : e < logged + 1
        /\ \A i \in 1 .. Len(reqBuffer) : \A e \in reqBuffer[i] : e < logged + 1
    BY <1>1 DEF LogInv, Arranged
  <2>4. \A e \in 1 .. logged : e \in 1 .. logged'
    BY <1>1
  <2>5. \A e \in 1 .. logged' : e \in 1 .. logged \/ e = logged + 1
    BY <1>1
  <2>6. logged + 1 \in 1 .. logged'
    BY <1>1
  <2> QED
    BY <1>1, <2>1, <2>2, <2>3, <2>4, <2>5, <2>6 DEF LogInv, Arranged
<1>4. /\ Arranged(curLogReq', logEntryCount', reqBuffer', Sent', logged')
      /\ logEntryCount' \in 0 .. FlushSize - 1
  <2>1. CASE count >= FlushSize
    <3>1. /\ Flushed(cur, count, reqBuffer)
                = [cur |-> {}, count |-> 0, buf |-> Flushed(cur, count, reqBuffer).buf]
          /\ Arranged({}, 0, Flushed(cur, count, reqBuffer).buf, Sent, logged')
      BY <1>1, <1>3, FlushedArranged
    <3>2. SetBuffers(Flushed(cur, count, reqBuffer))
      BY <2>1 DEF OnLog
    <3>3. curLogReq' = {} /\ logEntryCount' = 0 /\ reqBuffer' = Flushed(cur, count, reqBuffer).buf
      BY <3>1, <3>2 DEF SetBuffers
    <3> QED
      BY <1>2, <3>1, <3>3
  <2>2. CASE ~ (count >= FlushSize)
    <3>1. curLogReq' = cur /\ logEntryCount' = count /\ reqBuffer' = reqBuffer
      BY <2>2 DEF OnLog, SetBuffers
    <3> QED
      BY <1>2, <1>3, <2>2, <3>1 DEF LogInv, TypeOK
  <2> QED
    BY <2>1, <2>2
<1>5. UNCHANGED <<inFlight, isOnDone, calls, delivered, failed, life>>
  BY DEF OnLog
<1>6. TypeOK'
  BY <1>1, <1>4, <1>5 DEF LogInv, TypeOK, Arranged
<1>7. CallsApart' /\ CallsCounted' /\ CallsOwned'
  BY <1>5 DEF LogInv, CallsApart, CallsCounted, InFlightExact, CallsOwned
<1> QED
  BY <1>4, <1>6, <1>7 DEF LogInv

\* sendLogRequest, after flushLogBuffer: the calls the host accepts are new ones.
LEMMA LogInvSend ==
    ASSUME LogInv, NEW f, f = Flushed(curLogReq, logEntryCount, reqBuffer),
           NEW ondone \in BOOLEAN, NEW accepted \in Nat, accepted <= Len(f.buf),
           SendLogRequest(f, ondone, accepted),
           UNCHANGED <<logged, delivered, failed>>, life' \in {"serving", "draining"}
    PROVE  LogInv'
<1> USE LoggingAssumption
<1> DEFINE new == Taken(f.buf, accepted)
<1>1. logged \in Nat
  BY DEF LogInv, TypeOK
<1>2. f = [cur |-> {}, count |-> 0, buf |-> f.buf] /\ Arranged({}, 0, f.buf, Sent, logged)
  BY <1>1, FlushedArranged DEF LogInv
<1>3. Len(f.buf) \in Nat /\ accepted \in 0 .. Len(f.buf)
  BY <1>2, LenProperties DEF Arranged
<1>4. Arranged({}, 0, SubSeq(f.buf, accepted + 1, Len(f.buf)), Sent \cup UNION new, logged)
  BY <1>1, <1>2, <1>3, SendArranged
<1>5. /\ IsFiniteSet(new) /\ Cardinality(new) = accepted
      /\ \A c \in new : c \in SUBSET Entry /\ c # {} /\ c \cap Sent = {}
      /\ \A c, d \in new : c # d => c \cap d = {}
  BY <1>1, <1>2, <1>3, TakenCount
<1>6. calls' = calls \cup new /\ inFlight' = inFlight + accepted /\ isOnDone' = ondone
  BY DEF SendLogRequest, Taken
<1>7. curLogReq' = {} /\ logEntryCount' = 0 /\ reqBuffer' = SubSeq(f.buf, accepted + 1, Len(f.buf))
  <2>1. f.cur = {} /\ f.count = 0
    BY <1>2
  <2> QED
    BY <2>1 DEF SendLogRequest, SetBuffers
<1> HIDE DEF new
<1>8. Sent' = Sent \cup UNION new
  BY <1>6 DEF Sent, Calling
<1>9. Arranged(curLogReq', logEntryCount', reqBuffer', Sent', logged')
  BY <1>4, <1>7, <1>8
<1>10. \A c \in calls, d \in new : c # d /\ c \cap d = {} /\ d \cap (delivered \cup failed) = {}
  BY <1>5 DEF Sent, Calling, LogInv, CallsApart
<1>11. CallsApart'
  <2>1. UNCHANGED <<delivered, failed>>
    OBVIOUS
  <2>2. \A c \in calls' : c # {} /\ c \cap (delivered \cup failed) = {}
    BY <1>5, <1>6 DEF LogInv, CallsApart, Sent
  <2>3. \A c, d \in calls' : c # d => c \cap d = {}
    BY <1>5, <1>6, <1>10 DEF LogInv, CallsApart
  <2> QED
    BY <2>1, <2>2, <2>3 DEF LogInv, CallsApart
<1>12. CallsCounted'
  <2>1. calls \cap new = {}
    BY <1>10
  <2>2. Cardinality(calls \cap new) = 0
    BY <2>1, FS_EmptySet
  <2>3. IsFiniteSet(calls \cup new)
        /\ Cardinality(calls \cup new) = Cardinality(calls) + accepted - 0
    BY <1>5, <2>2, FS_Union DEF LogInv, CallsCounted
  <2> QED
    BY <1>6, <2>3 DEF LogInv, TypeOK, CallsCounted, InFlightExact
<1>13. TypeOK'
  <2>1. calls' \in SUBSET SUBSET Entry /\ inFlight' \in Nat
    BY <1>5, <1>6 DEF LogInv, TypeOK
  <2>2. UNCHANGED <<logged, delivered, failed>> /\ isOnDone' \in BOOLEAN
        /\ curLogReq' \in SUBSET Entry /\ reqBuffer' \in Seq(SUBSET Entry)
        /\ logEntryCount' \in 0 .. FlushSize - 1
    BY <1>6, <1>7, <1>9 DEF Arranged
  <2> QED
    BY <2>1, <2>2 DEF LogInv, TypeOK
<1> QED
  BY <1>9, <1>11, <1>12, <1>13 DEF LogInv, CallsOwned

\* An answer moves the entries of one call, and the last one destroys a plugin
\* whose onDone waits for it.
LEMMA LogInvAnswer ==
    ASSUME LogInv, NEW req \in calls, CallEnds(req),
           \/ delivered' = delivered \cup req /\ failed' = failed
           \/ failed' = failed \cup req /\ delivered' = delivered
    PROVE  LogInv'
<1> USE LoggingAssumption
<1>1. /\ calls' = calls \ {req} /\ inFlight' = inFlight - 1
      /\ UNCHANGED <<logged, curLogReq, logEntryCount, reqBuffer, isOnDone>>
      /\ life' = IF inFlight' <= 0 /\ isOnDone THEN "destroyed" ELSE life
  BY DEF CallEnds
<1>2. Sent' = Sent
  BY <1>1 DEF Sent, Calling
<1>3. Arranged(curLogReq', logEntryCount', reqBuffer', Sent', logged')
  BY <1>1, <1>2 DEF LogInv
<1>4. CallsApart'
  BY <1>1 DEF LogInv, CallsApart
<1>5. IsFiniteSet(calls') /\ inFlight' = Cardinality(calls') /\ inFlight' \in Nat
  <2>1. IsFiniteSet(calls \ {req}) /\ Cardinality(calls \ {req}) = Cardinality(calls) - 1
    BY FS_RemoveElement DEF LogInv, CallsCounted
  <2>2. Cardinality(calls \ {req}) \in Nat
    BY <2>1, FS_CardinalityType
  <2> QED
    BY <1>1, <2>1, <2>2 DEF LogInv, CallsCounted, InFlightExact
<1>6. CallsOwned'
  <2>1. CASE inFlight' <= 0 /\ isOnDone
    <3>1. calls' = {}
      BY <1>5, <2>1, FS_EmptySet
    <3> QED
      BY <3>1 DEF CallsOwned
  <2>2. CASE ~ (inFlight' <= 0 /\ isOnDone)
    BY <1>1, <2>2 DEF LogInv, CallsOwned
  <2> QED
    BY <2>1, <2>2
<1>7. TypeOK'
  BY <1>1, <1>5 DEF LogInv, TypeOK
<1> QED
  BY <1>3, <1>4, <1>5, <1>6, <1>7 DEF LogInv, CallsCounted, InFlightExact

\* Every callback keeps the invariant.
LEMMA LogInvNext == LogInv /\ [Next]_vars => LogInv'
<1> SUFFICES ASSUME LogInv, [Next]_vars PROVE LogInv'
  OBVIOUS
<1>1. CASE OnConfigure
  <2>1. UNCHANGED <<logged, plugin, calls, delivered, failed>> /\ life = "new"
        /\ life' \in {"serving", "refused"}
    BY <1>1 DEF OnConfigure
  <2> QED
    BY <2>1 DEF LogInv, TypeOK, Sent, Calling, CallsApart, CallsCounted, InFlightExact,
       CallsOwned, plugin
<1>2. CASE OnLog
  BY <1>2, LogInvOnLog
<1>3. CASE OnTickIdle
  <2> DEFINE f == Flushed(curLogReq, logEntryCount, reqBuffer)
  <2>1. f = [cur |-> {}, count |-> 0, buf |-> f.buf] /\ Arranged({}, 0, f.buf, Sent, logged)
    BY FlushedArranged DEF LogInv, TypeOK
  <2>2. SetBuffers(f) /\ UNCHANGED <<logged, inFlight, isOnDone, calls, delivered, failed, life>>
    BY <1>3 DEF OnTickIdle
  <2> HIDE DEF f
  <2>3. curLogReq' = {} /\ logEntryCount' = 0 /\ reqBuffer' = f.buf
    BY <2>1, <2>2 DEF SetBuffers
  <2>4. Arranged(curLogReq', logEntryCount', reqBuffer', Sent', logged')
    BY <2>1, <2>2, <2>3 DEF Sent, Calling
  <2>5. TypeOK'
    BY <2>2, <2>3, <2>4, LoggingAssumption DEF LogInv, TypeOK, Arranged
  <2> QED
    BY <2>2, <2>4, <2>5 DEF LogInv, CallsApart, CallsCounted, InFlightExact, CallsOwned
<1>4. CASE OnDoneNow
  <2>1. UNCHANGED <<logged, plugin, calls, delivered, failed>> /\ inFlight = 0
        /\ life' = "destroyed"
    BY <1>4 DEF OnDoneNow
  <2>2. calls = {}
    BY <2>1, FS_EmptySet DEF LogInv, CallsCounted, InFlightExact
  <2> QED
    BY <2>1, <2>2 DEF LogInv, TypeOK, Sent, Calling, CallsApart, CallsCounted, InFlightExact,
       CallsOwned, plugin
<1>5. ASSUME NEW accepted \in Sends, OnTickSend(accepted) PROVE LogInv'
  <2> DEFINE f == Flushed(curLogReq, logEntryCount, reqBuffer)
  <2>1. /\ accepted <= Len(f.buf) /\ SendLogRequest(f, FALSE, accepted)
        /\ UNCHANGED <<logged, delivered, failed>> /\ life' \in {"serving", "draining"}
    BY <1>5 DEF OnTickSend
  <2>2. accepted \in Nat
    BY LoggingAssumption DEF Sends
  <2> QED
    BY <2>1, <2>2, LogInvSend
<1>6. ASSUME NEW accepted \in Sends, OnDoneLater(accepted) PROVE LogInv'
  <2> DEFINE f == Flushed(curLogReq, logEntryCount, reqBuffer)
  <2>1. /\ accepted <= Len(f.buf) /\ SendLogRequest(f, TRUE, accepted)
        /\ UNCHANGED <<logged, delivered, failed>> /\ life' \in {"serving", "draining"}
    BY <1>6 DEF OnDoneLater
  <2>2. accepted \in Nat
    BY LoggingAssumption DEF Sends
  <2> QED
    BY <2>1, <2>2, LogInvSend
<1>7. ASSUME NEW req \in calls, OnSuccess(req) \/ OnFailure(req) PROVE LogInv'
  BY <1>7, LogInvAnswer DEF OnSuccess, OnFailure
<1>8. CASE UNCHANGED vars
  BY <1>8 DEF vars, plugin, LogInv, TypeOK, Sent, Calling, CallsApart, CallsCounted,
     InFlightExact, CallsOwned
<1> QED
  BY <1>1, <1>2, <1>3, <1>4, <1>5, <1>6, <1>7, <1>8 DEF Next

----------------------------------------------------------------------------
(* What the invariant says of an entry *)

\* No entry is in two of the three places that LogInv orders.
LEMMA PlacesApart ==
    ASSUME LogInv, NEW e \in 1 .. logged
    PROVE  /\ e \in curLogReq => e \notin Sent
           /\ \A i \in DOMAIN reqBuffer :
                 e \in reqBuffer[i] => e \notin curLogReq /\ e \notin Sent
           /\ \A i, j \in DOMAIN reqBuffer :
                 e \in reqBuffer[i] /\ e \in reqBuffer[j] => i = j
           /\ e \in curLogReq \/ e \in Sent \/ \E i \in DOMAIN reqBuffer : e \in reqBuffer[i]
<1>1. DOMAIN reqBuffer = 1 .. Len(reqBuffer) /\ Len(reqBuffer) \in Nat
  BY LenProperties DEF LogInv, TypeOK
<1>2. e \in Int /\ ~ (e < e)
  BY DEF LogInv, TypeOK
<1>3. \A i, j \in 1 .. Len(reqBuffer) : i = j \/ i < j \/ j < i
  BY <1>1
<1> QED
  BY <1>1, <1>2, <1>3 DEF LogInv, Arranged

\* The number of requests of the buffer, of calls and of the other places that
\* have an entry.
LEMMA PlaceCount ==
    ASSUME LogInv, NEW e \in 1 .. logged
    PROVE  Cardinality({i \in DOMAIN reqBuffer : e \in reqBuffer[i]})
           + Cardinality({c \in calls : e \in c})
           + Cardinality({s \in {1, 2, 3} : e \in <<curLogReq, delivered, failed>>[s]}) = 1
<1> DEFINE I == {i \in DOMAIN reqBuffer : e \in reqBuffer[i]}
           C == {c \in calls : e \in c}
           S == {s \in {1, 2, 3} : e \in <<curLogReq, delivered, failed>>[s]}
<1>1. Cardinality({}) = 0 /\ \A x : Cardinality({x}) = 1
  BY FS_EmptySet, FS_Singleton
<1>2. \A s : s \in S <=> \/ s = 1 /\ e \in curLogReq
                         \/ s = 2 /\ e \in delivered
                         \/ s = 3 /\ e \in failed
  OBVIOUS
<1>3. e \in Sent <=> (\E c \in calls : e \in c) \/ e \in delivered \/ e \in failed
  BY DEF Sent, Calling
<1>4. /\ \A i : i \in I <=> i \in DOMAIN reqBuffer /\ e \in reqBuffer[i]
      /\ \A c : c \in C <=> c \in calls /\ e \in c
  OBVIOUS
<1> SUFFICES Cardinality(I) + Cardinality(C) + Cardinality(S) = 1
  OBVIOUS
<1> HIDE DEF I, C, S
<1>5. CASE e \in curLogReq
  <2>1. I = {} /\ C = {}
    BY <1>4, <1>3, <1>5, PlacesApart
  <2>2. S = {1}
    BY <1>2, <1>3, <1>5, PlacesApart
  <2>3. Cardinality(I) = 0 /\ Cardinality(C) = 0 /\ Cardinality(S) = 1
    BY <1>1, <2>1, <2>2
  <2> QED
    BY <2>3
<1>6. ASSUME NEW i \in DOMAIN reqBuffer, e \in reqBuffer[i]
      PROVE  Cardinality(I) + Cardinality(C) + Cardinality(S) = 1
  <2>1. e \notin curLogReq /\ e \notin Sent
    BY <1>6, PlacesApart
  <2>2. C = {} /\ S = {}
    BY <1>4, <1>2, <1>3, <2>1
  <2>3. I = {i}
    BY <1>4, <1>6, PlacesApart
  <2>4. Cardinality(I) = 1 /\ Cardinality(C) = 0 /\ Cardinality(S) = 0
    BY <1>1, <2>2, <2>3
  <2> QED
    BY <2>4
<1>7. CASE e \in Sent
  <2>1. I = {} /\ e \notin curLogReq
    BY <1>4, <1>7, PlacesApart
  <2>2. ASSUME NEW c \in calls, e \in c
        PROVE  Cardinality(I) + Cardinality(C) + Cardinality(S) = 1
    <3>1. C = {c}
      BY <1>4, <2>2 DEF LogInv, CallsApart
    <3>2. S = {}
      BY <1>2, <2>1, <2>2 DEF LogInv, CallsApart
    <3>3. Cardinality(I) = 0 /\ Cardinality(C) = 1 /\ Cardinality(S) = 0
      BY <1>1, <2>1, <3>1, <3>2
    <3> QED
      BY <3>3
  <2>3. ASSUME e \in delivered \/ e \in failed
        PROVE  Cardinality(I) + Cardinality(C) + Cardinality(S) = 1
    <3>1. C = {}
      BY <1>4, <2>3 DEF LogInv, CallsApart
    <3>2. S = {2} \/ S = {3}
      BY <1>2, <2>1, <2>3 DEF LogInv, CallsApart
    <3>3. Cardinality(I) = 0 /\ Cardinality(C) = 0 /\ Cardinality(S) = 1
      BY <1>1, <2>1, <3>1, <3>2
    <3> QED
      BY <3>3
  <2> QED
    BY <1>3, <1>7, <2>2, <2>3
<1> QED
  BY <1>5, <1>6, <1>7, PlacesApart

\* Type correctness of the access logger: log_entry_count_ stays below the size
\* that flushes, and the count of in-flight calls is never negative.
THEOREM LoggingTypeCorrect == Spec => []TypeOK
<1>1. LogInv => TypeOK
  BY DEF LogInv
<1> QED
  BY LogInvInit, LogInvNext, <1>1, PTL DEF Spec

\* No entry is lost or sent twice by addLogEntry, flushLogBuffer, sendLogRequest
\* and the callbacks, whichever calls the host refuses.
THEOREM LoggingConserves == Spec => []EntriesInOnePlace
<1>1. LogInv => EntriesInOnePlace
  <2> SUFFICES ASSUME LogInv PROVE EntriesInOnePlace
    OBVIOUS
  <2>1. DOMAIN reqBuffer = 1 .. Len(reqBuffer)
    BY LenProperties DEF LogInv, TypeOK
  <2>2. \A e : e \in Buffered <=> \E i \in 1 .. Len(reqBuffer) : e \in reqBuffer[i]
    BY <2>1 DEF Buffered
  <2>3. curLogReq \cup Buffered \cup Sent = 1 .. logged
    BY <2>2 DEF LogInv, Arranged
  <2> QED
    BY <2>3, PlaceCount DEF EntriesInOnePlace
<1> QED
  BY LogInvInit, LogInvNext, <1>1, PTL DEF Spec

\* in_flight_export_call_ counts the calls without an answer, after any loop of
\* sendLogRequest that was cut short.
THEOREM LoggingCountsCalls == Spec => []InFlightExact
<1>1. LogInv => InFlightExact
  BY DEF LogInv, CallsCounted
<1> QED
  BY LogInvInit, LogInvNext, <1>1, PTL DEF Spec

\* Entries reach the host in the order of onLog.
THEOREM LoggingSendsInOrder == Spec => []SentInOrder
<1>1. LogInv => SentInOrder
  <2> SUFFICES ASSUME LogInv, NEW e \in Sent, NEW f \in curLogReq \cup Buffered PROVE e < f
    BY DEF SentInOrder
  <2>1. DOMAIN reqBuffer = 1 .. Len(reqBuffer)
    BY LenProperties DEF LogInv, TypeOK
  <2> QED
    BY <2>1 DEF LogInv, Arranged, Buffered
<1> QED
  BY LogInvInit, LogInvNext, <1>1, PTL DEF Spec

\* Neither onDone nor proxy_done destroys a plugin that has calls in flight.
THEOREM LoggingDestroyedWhenQuiet == Spec => []DestroyedWhenQuiet
<1>1. LogInv => DestroyedWhenQuiet
  BY DEF LogInv, CallsOwned, DestroyedWhenQuiet
<1> QED
  BY LogInvInit, LogInvNext, <1>1, PTL DEF Spec

=============================================================================
