------------------------- MODULE IngestServiceProofs -------------------------
(***************************************************************************)
(* Proofs about IngestService for every set of requests, batch size, queue *)
(* capacity, TTL and choice of faults.  The inductive invariant IInv adds  *)
(* to the properties the position of every handler in its batch: without   *)
(* it nothing says that the event about to be enqueued is not already in   *)
(* the queue, nor that failedCount counts what it is compared with.        *)
(***************************************************************************)
EXTENDS IngestService, FiniteSetTheorems, TLAPS

(* An event is a request and a position, and it is its own ack id. *)
LEMMA EventPair ==
    /\ Events = Requests \X (1 .. MaxBatch)
    /\ \A r \in Requests, i \in 1 .. MaxBatch : <<r, i>> \in Events
    /\ \A e \in Events : /\ e[1] \in Requests
                         /\ e[2] \in 1 .. MaxBatch
                         /\ e = <<e[1], e[2]>>
BY IngestAssumption DEF Events

(* The steps of Next, one by one: what a proof by cases over it splits on. *)
LEMMA NextCases ==
    ASSUME [Next]_vars
    PROVE  \/ \E r \in Requests, n \in 0 .. MaxBatch : HandleEvent(r, n)
           \/ \E r \in Requests : RejectRequest(r)
           \/ \E r \in Requests : IngestCreateAck(r)
           \/ \E r \in Requests : IngestEnqueue(r)
           \/ \E r \in Requests : IngestQueueFull(r)
           \/ \E r \in Requests : Respond(r)
           \/ \E r \in Requests : Disconnect(r)
           \/ Dequeue
           \/ NormalizeOK
           \/ NormalizeFails \/ ConvertFails \/ ForwardFails \/ CheckFailed
           \/ ForwardAdd
           \/ CheckOK
           \/ \E e \in Events : BulkFlush(e)
           \/ Cleanup
           \/ Tick
           \/ Restart
           \/ UNCHANGED vars
<1>1. ASSUME NEW r \in Requests, HandleRaw(r)
      PROVE  \E n \in 0 .. MaxBatch : HandleEvent(r, n)
  <2>1. 1 \in 0 .. MaxBatch
    BY <1>1, IngestAssumption DEF HandleRaw
  <2>2. QED BY <1>1, <2>1 DEF HandleRaw
<1>2. QED BY <1>1 DEF Next, Handler, Processor

(* The event a handler is at exists while it is ingesting. *)
LEMMA CurrentIsEvent ==
    ASSUME IInv, NEW r \in Requests, pc[r] \in {"create", "enqueue"}
    PROVE  /\ Current(r) \in Events
           /\ next[r] \in 1 .. MaxBatch
           /\ next[r] + 1 \in 1 .. MaxBatch + 1
           /\ stage[Current(r)] = "none"
<1>1. next[r] \in 1 .. MaxBatch + 1 /\ size[r] \in 0 .. MaxBatch /\ next[r] <= size[r]
  <2>1. TypeOK /\ BatchProgress
    BY DEF IInv
  <2>2. next[r] \in 1 .. MaxBatch + 1 /\ size[r] \in 0 .. MaxBatch
    BY <2>1 DEF TypeOK
  <2>3. next[r] <= size[r]
    BY <2>1 DEF BatchProgress
  <2>4. QED BY <2>2, <2>3
<1>2. next[r] \in 1 .. MaxBatch /\ next[r] + 1 \in 1 .. MaxBatch + 1
  BY <1>1, IngestAssumption
<1>3. <<r, next[r]>> \in Events
  BY <1>2, EventPair
<1>4. stage[<<r, next[r]>>] = "none"
  <2>1. \A i \in 1 .. MaxBatch : i >= next[r] => stage[<<r, i>>] = "none"
    BY DEF IInv, BatchProgress
  <2>2. QED BY <2>1, <1>2
<1>5. QED BY <1>2, <1>3, <1>4 DEF Current

(* The event processEvents holds. *)
LEMMA HeldIsEvent ==
    ASSUME IInv, proc.at # "idle"
    PROVE  /\ proc.ev \in Events
           /\ proc \in [at : {"normalize", "forward", "check"}, ev : Events]
           /\ Held(proc.ev)
           /\ stage[proc.ev] = "accepted"
BY DEF IInv, TypeOK, Custody, Held, Idle

(* Complete and Fail keep the ack manager's types. *)
LEMMA ResolveType ==
    ASSUME AckTypeOK, NEW a \in AckIDs, NEW s \in AckStatus, Resolve(a, s)
    PROVE  AckTypeOK'
BY AckTTLAssumption DEF AckTypeOK, Resolve, ackVars

-----------------------------------------------------------------------------
(* Type correctness. *)

(* The parts of the state a failing event writes keep their types. *)
LEMMA GiveUpType ==
    ASSUME IInv, proc.at # "idle", GiveUp
    PROVE  AckTypeOK' /\ proc' = Idle /\ stage' \in [Events -> Stages]
<1>1. proc.ev \in AckIDs /\ AckTypeOK /\ "failed" \in AckStatus
  BY HeldIsEvent DEF IInv, TypeOK, Events, AckStatus
<1>2. AckTypeOK'
  BY <1>1, ResolveType DEF GiveUp, Fail
<1>3. QED BY <1>2, HeldIsEvent DEF GiveUp, IInv, TypeOK, Stages

(* Every answer the handlers build is a reply. *)
LEMMA AnswerType ==
    /\ \A a \in 0 .. MaxBatch : \A s \in {"ok", "busy", "rejected", "aborted"} :
          Answer(s, a) \in Replies
    /\ 0 \in 0 .. MaxBatch
BY IngestAssumption DEF Answer, Replies

(* Every step keeps every variable in its type. *)
LEMMA TypeStep ==
    ASSUME IInv, [Next]_vars
    PROVE  TypeOK'
<1> USE IngestAssumption
<1>0. TypeOK
  BY DEF IInv
<1>1. ASSUME NEW r \in Requests, NEW n \in 0 .. MaxBatch, HandleEvent(r, n)
      PROVE  TypeOK'
  BY <1>0, <1>1 DEF TypeOK, AckTypeOK, HandleEvent, ackVars, serviceVars
<1>2. ASSUME NEW r \in Requests, RejectRequest(r)
      PROVE  TypeOK'
  <2>1. Answer("rejected", 0) \in Replies
    BY AnswerType
  <2>2. QED
    BY <1>0, <1>2, <2>1 DEF TypeOK, AckTypeOK, RejectRequest, ackVars, serviceVars
<1>3. ASSUME NEW r \in Requests, IngestCreateAck(r)
      PROVE  TypeOK'
  <2>1. Current(r) \in AckIDs
    BY <1>3, CurrentIsEvent DEF IngestCreateAck, Events
  <2>2. AckTypeOK'
    <3>1. /\ acks \in [AckIDs -> AckStatus] /\ age \in [AckIDs -> 0 .. AckTTL + 1]
          /\ gauge \in Int /\ "pending" \in AckStatus /\ 0 \in 0 .. AckTTL + 1
      BY <1>0, AckTTLAssumption DEF TypeOK, AckTypeOK, AckStatus
    <3>2. QED
      BY <1>3, <2>1, <3>1 DEF IngestCreateAck, Create, AckTypeOK
  <2>3. QED
    BY <1>0, <1>3, <2>2 DEF TypeOK, IngestCreateAck, serviceVars
<1>4. ASSUME NEW r \in Requests, IngestEnqueue(r)
      PROVE  TypeOK'
  <2>1. Current(r) \in Events /\ next[r] + 1 \in 1 .. MaxBatch + 1 /\ next[r] \in 0 .. MaxBatch
    BY <1>4, CurrentIsEvent DEF IngestEnqueue
  <2>2. AckTypeOK'
    BY <1>0, <1>4 DEF TypeOK, IngestEnqueue, AckTypeOK, ackVars
  <2>3. queue' \in Seq(Events) /\ Len(queue') <= QueueCap
    BY <1>0, <1>4, <2>1 DEF TypeOK, IngestEnqueue
  <2>4. stats' \in [total : Nat, successful : Nat, failed : Nat]
    BY <1>0, <1>4 DEF TypeOK, IngestEnqueue, updateStats
  <2>5. stage' \in [Events -> Stages]
    BY <1>0, <1>4, <2>1 DEF TypeOK, IngestEnqueue, Stages
  <2>6. /\ next' \in [Requests -> 1 .. MaxBatch + 1]
        /\ firstAck' \in [Requests -> 0 .. MaxBatch]
        /\ pc' \in [Requests -> {"new", "create", "enqueue", "respond", "done"}]
    BY <1>0, <1>4, <2>1 DEF TypeOK, IngestEnqueue, NextInBatch
  <2>7. QED
    BY <1>0, <1>4, <2>2, <2>3, <2>4, <2>5, <2>6 DEF TypeOK, IngestEnqueue
<1>5. ASSUME NEW r \in Requests, IngestQueueFull(r)
      PROVE  TypeOK'
  <2>1. /\ Current(r) \in Events /\ Current(r) \in AckIDs
        /\ next[r] + 1 \in 1 .. MaxBatch + 1 /\ next[r] \in 1 .. MaxBatch
    BY <1>5, CurrentIsEvent DEF IngestQueueFull, Events
  <2>2. AckTypeOK'
    BY <1>0, <1>5, <2>1, ResolveType DEF TypeOK, IngestQueueFull, Fail, AckStatus
  <2>3. failedCount[r] < next[r]
    BY DEF IInv, BatchProgress
  <2>4. failedCount' \in [Requests -> 0 .. MaxBatch]
    <3>1. failedCount \in [Requests -> 0 .. MaxBatch]
      BY <1>0 DEF TypeOK
    <3>2. failedCount[r] + 1 \in 0 .. MaxBatch
      BY <2>1, <2>3, <3>1
    <3>3. QED
      BY <1>5, <3>1, <3>2 DEF IngestQueueFull
  <2>5. stats' \in [total : Nat, successful : Nat, failed : Nat]
    BY <1>0, <1>5 DEF TypeOK, IngestQueueFull, updateStats
  <2>6. /\ stage' \in [Events -> Stages]
        /\ next' \in [Requests -> 1 .. MaxBatch + 1]
        /\ pc' \in [Requests -> {"new", "create", "enqueue", "respond", "done"}]
    BY <1>0, <1>5, <2>1 DEF TypeOK, IngestQueueFull, NextInBatch, Stages
  <2>7. QED
    BY <1>0, <1>5, <2>2, <2>4, <2>5, <2>6 DEF TypeOK, IngestQueueFull
<1>6. ASSUME NEW r \in Requests, Respond(r)
      PROVE  TypeOK'
  <2>1. firstAck[r] \in 0 .. MaxBatch /\ size[r] \in Nat /\ 0 \in 0 .. MaxBatch
    BY <1>0 DEF TypeOK
  <2>2. reply' \in [Requests -> Replies]
    <3>1. /\ Answer("busy", 0) \in Replies
          /\ Answer("ok", 0) \in Replies
          /\ Answer("ok", firstAck[r]) \in Replies
      BY <2>1, AnswerType
    <3>2. QED BY <1>0, <1>6, <3>1 DEF TypeOK, Respond
  <2>3. usage' \in Nat
    BY <1>0, <1>6, <2>1 DEF TypeOK, Respond
  <2>4. QED
    BY <1>0, <1>6, <2>2, <2>3 DEF TypeOK, AckTypeOK, Respond, ackVars, serviceVars
<1>7. ASSUME NEW r \in Requests, Disconnect(r)
      PROVE  TypeOK'
  BY <1>0, <1>7 DEF TypeOK, AckTypeOK, Disconnect, ackVars, serviceVars
<1>8. CASE Dequeue
  <2>1. Head(queue) \in Events /\ Tail(queue) \in Seq(Events) /\ Len(Tail(queue)) <= QueueCap
    BY <1>0, <1>8 DEF TypeOK, Dequeue
  <2>2. QED
    BY <1>0, <1>8, <2>1 DEF TypeOK, AckTypeOK, Dequeue, ackVars, handlerVars
<1>9. CASE NormalizeOK
  BY <1>0, <1>9, HeldIsEvent
     DEF TypeOK, AckTypeOK, NormalizeOK, Holding, ackVars, handlerVars
<1>10. CASE NormalizeFails \/ ConvertFails \/ ForwardFails \/ CheckFailed
  <2>1. proc.at # "idle" /\ GiveUp
    BY <1>10 DEF NormalizeFails, ConvertFails, ForwardFails, CheckFailed, Holding
  <2>2. dlq' \subseteq Events
    BY <1>0, <1>10, <2>1, HeldIsEvent
       DEF TypeOK, NormalizeFails, ConvertFails, ForwardFails, CheckFailed
  <2>3. UNCHANGED <<handlerVars, queue, bulk, stats>>
    BY <1>10 DEF NormalizeFails, ConvertFails, ForwardFails, CheckFailed
  <2>4. QED
    BY <1>0, <2>1, <2>2, <2>3, GiveUpType DEF TypeOK, handlerVars
<1>11. CASE ForwardAdd
  BY <1>0, <1>11, HeldIsEvent
     DEF TypeOK, AckTypeOK, ForwardAdd, Holding, ackVars, handlerVars
<1>12. CASE CheckOK
  <2>1. proc.ev \in AckIDs /\ proc.ev \in Events
    BY <1>12, HeldIsEvent DEF CheckOK, Holding, Events
  <2>2. AckTypeOK'
    BY <1>0, <1>12, <2>1, ResolveType DEF TypeOK, CheckOK, Complete, AckStatus
  <2>3. QED
    BY <1>0, <1>12, <2>1, <2>2 DEF TypeOK, CheckOK, handlerVars, Stages
<1>13. ASSUME NEW e \in Events, BulkFlush(e)
       PROVE  TypeOK'
  BY <1>0, <1>13 DEF TypeOK, AckTypeOK, BulkFlush, ackVars, handlerVars
<1>14. CASE Cleanup
  <2>0. 0 \in 0 .. AckTTL + 1 /\ "none" \in AckStatus
    BY AckTTLAssumption DEF AckStatus
  <2>1. /\ acks' \in [AckIDs -> AckStatus]
        /\ age' \in [AckIDs -> 0 .. AckTTL + 1]
    BY <1>0, <1>14, <2>0 DEF TypeOK, AckTypeOK, Cleanup, cleanup
  <2>2. gauge' \in Int
    <3>1. Cardinality(Expired \cap GetPending) \in Nat
      BY AckIDsAssumption, FS_Subset, FS_CardinalityType DEF Expired
    <3>2. QED
      BY <1>0, <1>14, <3>1 DEF TypeOK, AckTypeOK, Cleanup, cleanup
  <2>3. QED
    BY <1>0, <1>14, <2>1, <2>2 DEF TypeOK, AckTypeOK, Cleanup, handlerVars, serviceVars
<1>15. CASE Tick
  <2>1. ASSUME NEW a \in AckIDs
        PROVE  age[a] \in 0 .. AckTTL + 1 /\ (age[a] <= AckTTL => age[a] + 1 \in 0 .. AckTTL + 1)
    <3>1. age \in [AckIDs -> 0 .. AckTTL + 1]
      BY <1>0 DEF TypeOK, AckTypeOK
    <3>2. PICK n \in 0 .. AckTTL + 1 : n = age[a]
      BY <3>1
    <3>3. n <= AckTTL => n + 1 \in 0 .. AckTTL + 1
      BY AckTTLAssumption
    <3>4. QED
      BY <3>2, <3>3
  <2>2. age' \in [AckIDs -> 0 .. AckTTL + 1]
    BY <1>15, <2>1 DEF Tick, AckTick
  <2>3. QED
    BY <1>0, <1>15, <2>2 DEF TypeOK, AckTypeOK, Tick, AckTick, handlerVars, serviceVars
<1>16. CASE Restart
  <2>1. AckTypeOK'
    BY <1>16, AckTTLAssumption DEF Restart, AckTypeOK, AckStatus
  <2>2. reply' \in [Requests -> Replies]
    <3>1. ASSUME NEW r \in Requests
          PROVE  reply[r] \in Replies /\ Answer("aborted", 0) \in Replies
      BY <1>0, AnswerType DEF TypeOK
    <3>2. QED BY <1>16, <3>1 DEF Restart
  <2>3. QED
    BY <1>0, <1>16, <2>1, <2>2 DEF TypeOK, Restart, NoStats, Stages
<1>17. CASE UNCHANGED vars
  BY <1>0, <1>17 DEF TypeOK, AckTypeOK, vars
<1>18. QED
  BY <1>1, <1>2, <1>3, <1>4, <1>5, <1>6, <1>7, <1>8, <1>9, <1>10, <1>11, <1>12,
     <1>13, <1>14, <1>15, <1>16, <1>17, NextCases

-----------------------------------------------------------------------------
(* Custody. *)

(* Finishing the held event takes it out of custody. *)
LEMMA ReleaseCustody ==
    ASSUME IInv, proc.at # "idle", NEW s \in {"completed", "failed"},
           proc' = Idle, queue' = queue, stage' = [stage EXCEPT ![proc.ev] = s]
    PROVE  Custody'
<1>1. \A i \in 1 .. Len(queue) : queue[i] # proc.ev
  BY HeldIsEvent DEF IInv, Custody, Held
<1>2. \A e : ~Held(e)'
  BY DEF Held, Idle
<1>3. ASSUME NEW e \in Events
      PROVE  stage'[e] = "accepted" <=> InQueue(e)'
  <2>1. CASE e = proc.ev
    BY <2>1, <1>1, HeldIsEvent DEF InQueue, IInv, TypeOK
  <2>2. CASE e # proc.ev
    BY <2>2, HeldIsEvent DEF InQueue, Held, IInv, TypeOK, Custody
  <2>3. QED BY <2>1, <2>2
<1>4. QED
  BY <1>2, <1>3 DEF Custody, IInv

(* Nothing moves: neither the queue, nor what the processor holds. *)
LEMMA CustodyUnchanged ==
    ASSUME Custody, queue' = queue, proc' = proc, stage' = stage
    PROVE  Custody'
BY DEF Custody, InQueue, Held

(* Every step keeps each accepted event in exactly one place. *)
LEMMA CustodyStep ==
    ASSUME IInv, [Next]_vars
    PROVE  Custody'
<1>0. Custody /\ TypeOK
  BY DEF IInv
<1>1. ASSUME NEW r \in Requests, IngestEnqueue(r)
      PROVE  Custody'
  <2> DEFINE c == Current(r)
  <2>1. c \in Events /\ stage[c] = "none"
    BY <1>1, CurrentIsEvent DEF IngestEnqueue
  <2>2. ~InQueue(c) /\ ~Held(c)
    BY <1>0, <2>1 DEF Custody
  <2>3. /\ queue' = Append(queue, c) /\ proc' = proc
        /\ stage' = [stage EXCEPT ![c] = "accepted"]
    BY <1>1 DEF IngestEnqueue
  <2> HIDE DEF c
  <2>4. /\ Len(queue') = Len(queue) + 1 /\ Len(queue) \in Nat
        /\ \A i \in 1 .. Len(queue) : queue'[i] = queue[i]
        /\ queue'[Len(queue) + 1] = c
    BY <1>0, <2>1, <2>3 DEF TypeOK
  <2>5. \A i, j \in 1 .. Len(queue') : queue'[i] = queue'[j] => i = j
    BY <1>0, <2>2, <2>4 DEF Custody, InQueue
  <2>6. (\A i \in 1 .. Len(queue) : ~Held(queue[i]))'
    BY <1>0, <2>2, <2>3, <2>4 DEF Custody, Held
  <2>7. ASSUME NEW e \in Events
        PROVE  (stage[e] = "accepted" <=> InQueue(e) \/ Held(e))'
    <3>1. CASE e = c
      BY <1>0, <3>1, <2>1, <2>3, <2>4 DEF InQueue, TypeOK
    <3>2. CASE e # c
      <4>1. InQueue(e)' <=> InQueue(e)
        BY <3>2, <2>4 DEF InQueue
      <4>2. QED
        BY <1>0, <3>2, <4>1, <2>3 DEF TypeOK, Custody, Held
    <3>3. QED BY <3>1, <3>2
  <2>8. QED BY <2>5, <2>6, <2>7 DEF Custody
<1>2. ASSUME NEW r \in Requests, IngestQueueFull(r)
      PROVE  Custody'
  <2> DEFINE c == Current(r)
  <2>1. c \in Events /\ stage[c] = "none"
    BY <1>2, CurrentIsEvent DEF IngestQueueFull
  <2>2. ~InQueue(c) /\ ~Held(c)
    BY <1>0, <2>1 DEF Custody
  <2>3. queue' = queue /\ proc' = proc /\ stage' = [stage EXCEPT ![c] = "refused"]
    BY <1>2 DEF IngestQueueFull
  <2> HIDE DEF c
  <2>4. QED
    BY <1>0, <2>1, <2>2, <2>3 DEF TypeOK, Custody, InQueue, Held
<1>3. CASE Dequeue
  <2>1. /\ queue \in Seq(Events) /\ queue # <<>> /\ Len(queue) \in Nat /\ Len(queue) >= 1
        /\ Len(Tail(queue)) = Len(queue) - 1
        /\ \A i \in 1 .. Len(queue) - 1 : Tail(queue)[i] = queue[i + 1]
        /\ Head(queue) = queue[1]
    BY <1>0, <1>3 DEF TypeOK, Dequeue
  <2>2. /\ queue' = Tail(queue) /\ stage' = stage
        /\ proc.at = "idle" /\ proc'.at = "normalize" /\ proc'.ev = queue[1]
    BY <1>3, <2>1 DEF Dequeue, Holding
  <2>3. \A i, j \in 1 .. Len(queue') : queue'[i] = queue'[j] => i = j
    BY <1>0, <2>1, <2>2 DEF Custody
  <2>4. (\A i \in 1 .. Len(queue) : ~Held(queue[i]))'
    BY <1>0, <2>1, <2>2 DEF Custody, Held
  <2>5. ASSUME NEW e \in Events
        PROVE  (stage[e] = "accepted" <=> InQueue(e) \/ Held(e))'
    <3>1. InQueue(e) <=> (InQueue(e)' \/ e = queue[1])
      <4>1. ASSUME NEW i \in 1 .. Len(queue), queue[i] = e, i # 1
            PROVE  InQueue(e)'
        <5>1. i - 1 \in 1 .. Len(queue) - 1 /\ (i - 1) + 1 = i
          BY <2>1, <4>1
        <5>2. QED BY <2>1, <2>2, <4>1, <5>1 DEF InQueue
      <4>2. InQueue(e)' => InQueue(e)
        BY <2>1, <2>2 DEF InQueue
      <4>3. QED BY <2>1, <4>1, <4>2 DEF InQueue
    <3>2. QED BY <1>0, <2>2, <3>1 DEF Custody, Held
  <2>6. QED BY <2>3, <2>4, <2>5 DEF Custody
<1>4. CASE NormalizeOK \/ ForwardAdd
  <2>1. proc'.ev = proc.ev /\ proc.at # "idle" /\ proc'.at # "idle"
        /\ queue' = queue /\ stage' = stage
    BY <1>0, <1>4, HeldIsEvent DEF NormalizeOK, ForwardAdd, Holding, TypeOK
  <2>2. \A e : Held(e)' <=> Held(e)
    BY <2>1 DEF Held
  <2>3. QED BY <1>0, <2>1, <2>2 DEF Custody, InQueue, Held
<1>5. CASE NormalizeFails \/ ConvertFails \/ ForwardFails \/ CheckFailed
  BY <1>5, ReleaseCustody
     DEF NormalizeFails, ConvertFails, ForwardFails, CheckFailed, Holding, GiveUp
<1>6. CASE CheckOK
  BY <1>6, ReleaseCustody DEF CheckOK, Holding
<1>7. CASE Restart
  <2>1. Len(queue') = 0 /\ proc'.at = "idle"
    BY <1>7 DEF Restart, Idle
  <2>2. \A e \in Events : stage'[e] # "accepted"
    BY <1>7 DEF Restart
  <2>3. QED BY <2>1, <2>2 DEF Custody, InQueue, Held
<1>8. ASSUME NEW r \in Requests, NEW n \in 0 .. MaxBatch,
             HandleEvent(r, n) \/ RejectRequest(r) \/ IngestCreateAck(r)
                \/ Respond(r) \/ Disconnect(r)
      PROVE  Custody'
  BY <1>0, <1>8, CustodyUnchanged
     DEF HandleEvent, RejectRequest, IngestCreateAck, Respond, Disconnect, serviceVars
<1>9. ASSUME NEW e \in Events, BulkFlush(e)
      PROVE  Custody'
  BY <1>0, <1>9, CustodyUnchanged DEF BulkFlush
<1>10. CASE Cleanup \/ Tick \/ UNCHANGED vars
  BY <1>0, <1>10, CustodyUnchanged DEF Cleanup, Tick, serviceVars, vars
<1>11. QED
  <2>1. 0 \in 0 .. MaxBatch
    BY IngestAssumption
  <2>2. QED
    BY <1>1, <1>2, <1>3, <1>4, <1>5, <1>6, <1>7, <1>8, <1>9, <1>10, <2>1, NextCases

-----------------------------------------------------------------------------
(* Acks tell the truth. *)

(* The part of AckTruth about one event. *)
TruthOf(e) ==
    /\ acks[e] = "success" => stage[e] = "completed"
    /\ acks[e] = "failed" => stage[e] \in {"failed", "refused"}
    /\ acks[e] = "pending" => stage[e] = "accepted" \/ BeingIngested(e)

(* A handler ingests one event at a time. *)
LEMMA OneAtATime ==
    ASSUME NEW e \in Events, BeingIngested(e)
    PROVE  e = Current(e[1]) /\ pc[e[1]] = "enqueue" /\ e[1] \in Requests
BY EventPair DEF BeingIngested, Current

(* Failing the held event leaves every ack true. *)
LEMMA GiveUpTruth ==
    ASSUME IInv, proc.at # "idle", GiveUp, pc' = pc, next' = next
    PROVE  AckTruth'
<1> SUFFICES ASSUME NEW e \in Events PROVE TruthOf(e)'
  BY DEF AckTruth, TruthOf
<1>1. proc.ev \in Events /\ stage' = [stage EXCEPT ![proc.ev] = "failed"]
  BY HeldIsEvent DEF GiveUp
<1>2. BeingIngested(e)' <=> BeingIngested(e)
  BY DEF BeingIngested
<1>3. TruthOf(e) /\ acks \in [Events -> AckStatus] /\ stage \in [Events -> Stages]
  BY DEF IInv, AckTruth, TruthOf, TypeOK, AckTypeOK, Events
<1>4. acks' = IF acks[proc.ev] = "none" THEN acks ELSE [acks EXCEPT ![proc.ev] = "failed"]
  BY DEF GiveUp, Fail, Resolve, ackVars
<1>5. CASE e = proc.ev
  BY <1>1, <1>3, <1>4, <1>5 DEF TruthOf
<1>6. CASE e # proc.ev
  BY <1>1, <1>2, <1>3, <1>4, <1>6 DEF TruthOf
<1>7. QED BY <1>5, <1>6

(* Every step keeps every ack true. *)
LEMMA AckTruthStep ==
    ASSUME IInv, [Next]_vars
    PROVE  AckTruth'
<1>0. /\ \A e \in Events : TruthOf(e)
      /\ acks \in [Events -> AckStatus] /\ stage \in [Events -> Stages]
      /\ pc \in [Requests -> {"new", "create", "enqueue", "respond", "done"}]
      /\ next \in [Requests -> 1 .. MaxBatch + 1]
  BY DEF IInv, AckTruth, TruthOf, TypeOK, AckTypeOK, Events
<1>a. ASSUME acks' = acks, stage' = stage, \A e \in Events : BeingIngested(e) => BeingIngested(e)'
      PROVE  AckTruth'
  BY <1>0, <1>a DEF AckTruth, TruthOf
<1>1. ASSUME NEW r \in Requests, NEW n \in 0 .. MaxBatch,
             HandleEvent(r, n) \/ RejectRequest(r) \/ Respond(r)
      PROVE  AckTruth'
  <2>1. /\ pc[r] # "enqueue" /\ next' = next /\ acks' = acks /\ stage' = stage
        /\ \A q \in Requests : q # r => pc'[q] = pc[q]
    BY <1>0, <1>1 DEF HandleEvent, RejectRequest, Respond, ackVars, serviceVars
  <2>2. \A e \in Events : BeingIngested(e) => BeingIngested(e)'
    BY <2>1, EventPair DEF BeingIngested
  <2>3. QED BY <1>a, <2>1, <2>2
<1>2. ASSUME NEW r \in Requests, IngestCreateAck(r)
      PROVE  AckTruth'
  <2> SUFFICES ASSUME NEW e \in Events PROVE TruthOf(e)'
    BY DEF AckTruth, TruthOf
  <2>1. /\ pc[r] = "create" /\ pc' = [pc EXCEPT ![r] = "enqueue"] /\ next' = next
        /\ acks' = [acks EXCEPT ![Current(r)] = "pending"] /\ stage' = stage
    BY <1>2 DEF IngestCreateAck, Create, serviceVars
  <2>2. Current(r) \in Events
    BY <2>1, CurrentIsEvent
  <2>3. CASE e = Current(r)
    <3>1. BeingIngested(e)'
      BY <1>0, <2>1, <2>3 DEF BeingIngested, Current
    <3>2. QED BY <1>0, <2>1, <2>2, <2>3, <3>1 DEF TruthOf
  <2>4. CASE e # Current(r)
    <3>1. BeingIngested(e) => BeingIngested(e)'
      BY <1>0, <2>1, EventPair DEF BeingIngested
    <3>2. QED BY <1>0, <2>1, <2>2, <2>4, <3>1 DEF TruthOf
  <2>5. QED BY <2>3, <2>4
<1>3. ASSUME NEW r \in Requests, IngestEnqueue(r) \/ IngestQueueFull(r)
      PROVE  AckTruth'
  <2> SUFFICES ASSUME NEW e \in Events PROVE TruthOf(e)'
    BY DEF AckTruth, TruthOf
  <2>1. pc[r] = "enqueue" /\ Current(r) \in Events /\ stage[Current(r)] = "none"
    BY <1>3, CurrentIsEvent DEF IngestEnqueue, IngestQueueFull
  <2>2. \A q \in Requests : q # r => pc'[q] = pc[q] /\ next'[q] = next[q]
    BY <1>0, <1>3 DEF IngestEnqueue, IngestQueueFull, NextInBatch
  <2>3. \/ /\ acks' = acks
           /\ stage' = [stage EXCEPT ![Current(r)] = "accepted"]
        \/ /\ acks' = IF acks[Current(r)] = "none" THEN acks
                      ELSE [acks EXCEPT ![Current(r)] = "failed"]
           /\ stage' = [stage EXCEPT ![Current(r)] = "refused"]
    BY <1>3 DEF IngestEnqueue, IngestQueueFull, Fail, Resolve, ackVars
  <2>4. CASE e = Current(r)
    BY <1>0, <2>1, <2>3, <2>4 DEF TruthOf
  <2>5. CASE e # Current(r)
    <3>1. BeingIngested(e) => BeingIngested(e)'
      BY <2>2, <2>5, OneAtATime, EventPair DEF BeingIngested
    <3>2. acks'[e] = acks[e] /\ stage'[e] = stage[e]
      BY <1>0, <2>1, <2>3, <2>5
    <3>3. QED BY <1>0, <3>1, <3>2 DEF TruthOf
  <2>6. QED BY <2>4, <2>5
<1>4. CASE NormalizeFails \/ ConvertFails \/ ForwardFails \/ CheckFailed
  BY <1>4, GiveUpTruth
     DEF NormalizeFails, ConvertFails, ForwardFails, CheckFailed, Holding, handlerVars
<1>5. CASE CheckOK
  <2> SUFFICES ASSUME NEW e \in Events PROVE TruthOf(e)'
    BY DEF AckTruth, TruthOf
  <2>1. /\ proc.ev \in Events /\ stage' = [stage EXCEPT ![proc.ev] = "completed"]
        /\ stage[proc.ev] = "accepted"
        /\ pc' = pc /\ next' = next
    BY <1>5, HeldIsEvent DEF CheckOK, Holding, handlerVars
  <2>2. acks' = IF acks[proc.ev] = "none" THEN acks ELSE [acks EXCEPT ![proc.ev] = "success"]
    BY <1>5 DEF CheckOK, Complete, Resolve, ackVars
  <2>3. BeingIngested(e)' <=> BeingIngested(e)
    BY <2>1 DEF BeingIngested
  <2>4. CASE e = proc.ev
    BY <1>0, <2>1, <2>2, <2>4 DEF TruthOf
  <2>5. CASE e # proc.ev
    BY <1>0, <2>1, <2>2, <2>3, <2>5 DEF TruthOf
  <2>6. QED BY <2>4, <2>5
<1>6. CASE Cleanup
  <2> SUFFICES ASSUME NEW e \in Events PROVE TruthOf(e)'
    BY DEF AckTruth, TruthOf
  <2>1. stage' = stage /\ (BeingIngested(e)' <=> BeingIngested(e))
    BY <1>6 DEF Cleanup, serviceVars, handlerVars, BeingIngested
  <2>2. acks'[e] \in {"none", acks[e]}
    BY <1>0, <1>6 DEF Cleanup, cleanup, Events
  <2>3. QED BY <1>0, <2>1, <2>2 DEF TruthOf
<1>7. CASE Restart
  BY <1>7 DEF Restart, AckTruth, Events
<1>8. ASSUME NEW r \in Requests, Disconnect(r)
      PROVE  AckTruth'
  BY <1>a, <1>8 DEF Disconnect, ackVars, serviceVars, BeingIngested
<1>9. CASE Dequeue \/ NormalizeOK \/ ForwardAdd
  BY <1>a, <1>9 DEF Dequeue, NormalizeOK, ForwardAdd, ackVars, handlerVars, BeingIngested
<1>10. ASSUME NEW e \in Events, BulkFlush(e)
       PROVE  AckTruth'
  BY <1>a, <1>10 DEF BulkFlush, ackVars, handlerVars, BeingIngested
<1>11. CASE Tick \/ UNCHANGED vars
  BY <1>a, <1>11 DEF Tick, AckTick, handlerVars, serviceVars, vars, BeingIngested
<1>12. QED
  <2>1. 0 \in 0 .. MaxBatch
    BY IngestAssumption
  <2>2. QED
    BY <1>1, <1>2, <1>3, <1>4, <1>5, <1>6, <1>7, <1>8, <1>9, <1>10, <1>11, <2>1, NextCases

-----------------------------------------------------------------------------
(* Answers match what was queued. *)

Taken(e) == stage[e] \notin {"none", "refused"}

(* The handler moves on to the next event, or its process ends. *)
Leaves(r) == next'[r] = next[r] + 1 \/ pc'[r] = "done"

(* What a step may do to the stage of an event: a refusal is final, an     *)
(* event taken into the queue stays taken, and one whose turn in its batch *)
(* has not come is left alone.                                             *)
LEMMA StageStep ==
    ASSUME IInv, [Next]_vars, NEW e \in Events
    PROVE  /\ stage[e] = "refused" => stage'[e] = "refused"
           /\ Taken(e) => Taken(e)'
           /\ stage[e] = "none" /\ stage'[e] # "none" => BeingIngested(e) /\ Leaves(e[1])
<1>0. stage \in [Events -> Stages]
  BY DEF IInv, TypeOK
<1>1. ASSUME NEW r \in Requests, IngestEnqueue(r) \/ IngestQueueFull(r)
      PROVE  /\ stage[e] # "none" => stage'[e] = stage[e]
             /\ stage'[e] # stage[e] => BeingIngested(e) /\ Leaves(e[1])
  <2>1. pc[r] = "enqueue" /\ Current(r) \in Events /\ stage[Current(r)] = "none"
    BY <1>1, CurrentIsEvent DEF IngestEnqueue, IngestQueueFull
  <2>2. BeingIngested(Current(r)) /\ Current(r)[1] = r
    BY <2>1 DEF BeingIngested, Current
  <2>a. Leaves(r)
    <3>1. next \in [Requests -> 1 .. MaxBatch + 1]
      BY DEF IInv, TypeOK
    <3>2. QED
      BY <1>1, <3>1 DEF IngestEnqueue, IngestQueueFull, NextInBatch, Leaves
  <2>3. e # Current(r) => stage'[e] = stage[e]
    BY <1>0, <1>1, <2>1 DEF IngestEnqueue, IngestQueueFull
  <2>4. QED BY <2>1, <2>2, <2>a, <2>3
<1>2. CASE NormalizeFails \/ ConvertFails \/ ForwardFails \/ CheckFailed \/ CheckOK
  <2>1. proc.at # "idle"
    BY <1>2 DEF NormalizeFails, ConvertFails, ForwardFails, CheckFailed, CheckOK, Holding
  <2>2. \E s \in {"failed", "completed"} : stage' = [stage EXCEPT ![proc.ev] = s]
    BY <1>2 DEF NormalizeFails, ConvertFails, ForwardFails, CheckFailed, CheckOK, GiveUp
  <2>3. QED BY <1>0, <2>1, <2>2, HeldIsEvent DEF Taken
<1>3. CASE Restart
  <2>1. BeingIngested(e) => stage[e] = "none" /\ Leaves(e[1])
    BY <1>3, OneAtATime, CurrentIsEvent DEF Restart, Leaves
  <2>2. QED BY <1>3, <2>1 DEF Restart, Taken
<1>4. ASSUME stage' = stage
      PROVE  /\ stage[e] = "refused" => stage'[e] = "refused"
             /\ Taken(e) => Taken(e)'
             /\ stage[e] = "none" /\ stage'[e] # "none" => BeingIngested(e) /\ Leaves(e[1])
  BY <1>4 DEF Taken
<1>5. ASSUME NEW r \in Requests, NEW n \in 0 .. MaxBatch,
             HandleEvent(r, n) \/ RejectRequest(r) \/ IngestCreateAck(r)
                \/ Respond(r) \/ Disconnect(r)
      PROVE  stage' = stage
  BY <1>5 DEF HandleEvent, RejectRequest, IngestCreateAck, Respond, Disconnect, serviceVars
<1>6. CASE Dequeue \/ NormalizeOK \/ ForwardAdd
  BY <1>4, <1>6 DEF Dequeue, NormalizeOK, ForwardAdd
<1>7. ASSUME NEW x \in Events, BulkFlush(x)
      PROVE  stage' = stage
  BY <1>7 DEF BulkFlush
<1>8. CASE Cleanup \/ Tick \/ UNCHANGED vars
  BY <1>4, <1>8 DEF Cleanup, Tick, serviceVars, vars
<1>9. QED
  <2>1. 0 \in 0 .. MaxBatch
    BY IngestAssumption
  <2>2. ASSUME NEW r \in Requests, IngestEnqueue(r) \/ IngestQueueFull(r)
        PROVE  /\ stage[e] = "refused" => stage'[e] = "refused"
               /\ Taken(e) => Taken(e)'
               /\ stage[e] = "none" /\ stage'[e] # "none" => BeingIngested(e) /\ Leaves(e[1])
    BY <2>2, <1>1 DEF Taken
  <2>3. QED
    BY <1>2, <1>3, <1>4, <1>5, <1>6, <1>7, <1>8, <2>1, <2>2, NextCases

(* What a step may do to a request: one of the handler's own steps, an     *)
(* interruption by a restart, or nothing.                                  *)
LEMMA RequestStep ==
    ASSUME IInv, [Next]_vars, NEW r \in Requests
    PROVE  \/ \E n \in 0 .. MaxBatch : HandleEvent(r, n)
           \/ RejectRequest(r)
           \/ IngestCreateAck(r)
           \/ IngestEnqueue(r)
           \/ IngestQueueFull(r)
           \/ Respond(r)
           \/ Restart
           \/ /\ pc'[r] = pc[r] /\ size'[r] = size[r] /\ next'[r] = next[r]
              /\ failedCount'[r] = failedCount[r] /\ firstAck'[r] = firstAck[r]
              /\ reply'[r] = reply[r]
<1> DEFINE Same == /\ pc'[r] = pc[r] /\ size'[r] = size[r] /\ next'[r] = next[r]
                   /\ failedCount'[r] = failedCount[r] /\ firstAck'[r] = firstAck[r]
                   /\ reply'[r] = reply[r]
<1>0. TypeOK
  BY DEF IInv
<1>1. ASSUME NEW q \in Requests, q # r, NEW n \in 0 .. MaxBatch,
             HandleEvent(q, n) \/ RejectRequest(q) \/ IngestCreateAck(q)
                \/ IngestEnqueue(q) \/ IngestQueueFull(q) \/ Respond(q)
      PROVE  Same
  <2>1. CASE HandleEvent(q, n) \/ RejectRequest(q) \/ IngestCreateAck(q)
    BY <1>0, <1>1, <2>1 DEF HandleEvent, RejectRequest, IngestCreateAck, TypeOK
  <2>2. CASE IngestEnqueue(q) \/ IngestQueueFull(q)
    BY <1>0, <1>1, <2>2 DEF IngestEnqueue, IngestQueueFull, NextInBatch, TypeOK
  <2>3. CASE Respond(q)
    BY <1>0, <1>1, <2>3 DEF Respond, TypeOK
  <2>4. QED BY <1>1, <2>1, <2>2, <2>3
<1>2. ASSUME NEW q \in Requests, Disconnect(q)
      PROVE  Same
  BY <1>2 DEF Disconnect
<1>3. ASSUME Dequeue \/ NormalizeOK \/ ForwardAdd \/ CheckOK
                \/ NormalizeFails \/ ConvertFails \/ ForwardFails \/ CheckFailed
      PROVE  Same
  BY <1>3 DEF Dequeue, NormalizeOK, ForwardAdd, CheckOK, NormalizeFails, ConvertFails,
              ForwardFails, CheckFailed, handlerVars
<1>4. ASSUME NEW e \in Events, BulkFlush(e)
      PROVE  Same
  BY <1>4 DEF BulkFlush, handlerVars
<1>5. ASSUME Cleanup \/ Tick \/ UNCHANGED vars
      PROVE  Same
  BY <1>5 DEF Cleanup, Tick, handlerVars, vars
<1>6. QED
  <2>1. 0 \in 0 .. MaxBatch
    BY IngestAssumption
  <2> DEFINE Own == \/ \E n \in 0 .. MaxBatch : HandleEvent(r, n)
                    \/ RejectRequest(r) \/ IngestCreateAck(r) \/ IngestEnqueue(r)
                    \/ IngestQueueFull(r) \/ Respond(r)
  <2> HIDE DEF Same
  <2>2. ASSUME NEW q \in Requests, NEW n \in 0 .. MaxBatch,
               HandleEvent(q, n) \/ RejectRequest(q) \/ IngestCreateAck(q)
                  \/ IngestEnqueue(q) \/ IngestQueueFull(q) \/ Respond(q)
        PROVE  Own \/ Same
    <3>1. CASE q = r
      BY <2>2, <3>1
    <3>2. CASE q # r
      BY <2>2, <3>2, <1>1
    <3>3. QED BY <3>1, <3>2
  <2> HIDE DEF Own
  <2>3. ASSUME NEW q \in Requests,
               RejectRequest(q) \/ IngestCreateAck(q) \/ IngestEnqueue(q)
                  \/ IngestQueueFull(q) \/ Respond(q)
        PROVE  Own \/ Same
    BY <2>1, <2>2, <2>3
  <2>4. ASSUME NEW q \in Requests, NEW n \in 0 .. MaxBatch, HandleEvent(q, n)
        PROVE  Own \/ Same
    BY <2>2, <2>4
  <2>5. (Own \/ Same) \/ Restart
    BY <1>2, <1>3, <1>4, <1>5, <2>3, <2>4, NextCases
  <2>6. QED BY <2>5 DEF Same, Own

(* StageStep, for the events of one request. *)
LEMMA BatchStage ==
    ASSUME IInv, [Next]_vars, NEW r \in Requests, NEW i \in 1 .. MaxBatch
    PROVE  /\ stage[<<r, i>>] = "refused" => stage'[<<r, i>>] = "refused"
           /\ stage[<<r, i>>] \notin {"none", "refused"}
                 => stage'[<<r, i>>] \notin {"none", "refused"}
           /\ stage[<<r, i>>] = "none" /\ stage'[<<r, i>>] # "none"
                 => i = next[r] /\ pc[r] = "enqueue" /\ Leaves(r)
<1>1. <<r, i>> \in Events
  BY EventPair
<1>2. BeingIngested(<<r, i>>) <=> i = next[r] /\ pc[r] = "enqueue"
  BY DEF BeingIngested
<1>3. QED BY <1>1, <1>2, StageStep DEF Taken

(* BatchProgress for one request. *)
ProgressOf(r) ==
    /\ pc[r] = "new" => next[r] = 1
    /\ pc[r] \in {"create", "enqueue"} => next[r] <= size[r]
    /\ pc[r] = "respond" => next[r] = size[r] + 1
    /\ pc[r] # "done" =>
          \A i \in 1 .. MaxBatch : i >= next[r] => stage[<<r, i>>] = "none"
    /\ failedCount[r] < next[r]
    /\ firstAck[r] < next[r]
    /\ firstAck[r] # 0 => stage[<<r, firstAck[r]>>] \notin {"none", "refused"}
    /\ failedCount[r] < next[r] - 1 => firstAck[r] # 0
    /\ failedCount[r] = next[r] - 1 =>
          \A i \in 1 .. MaxBatch : i < next[r] => stage[<<r, i>>] = "refused"
    /\ reply[r].status \in {"ok", "busy"} => pc[r] = "done"
    /\ reply[r].ack # 0 => reply[r].status = "ok"

(* Every step keeps the handlers' bookkeeping right. *)
LEMMA ProgressStep ==
    ASSUME IInv, [Next]_vars
    PROVE  BatchProgress'
<1> SUFFICES ASSUME NEW r \in Requests PROVE ProgressOf(r)'
  BY DEF BatchProgress, ProgressOf
<1>0. /\ ProgressOf(r) /\ MaxBatch \in Nat
      /\ pc \in [Requests -> {"new", "create", "enqueue", "respond", "done"}]
      /\ size \in [Requests -> 0 .. MaxBatch] /\ next \in [Requests -> 1 .. MaxBatch + 1]
      /\ failedCount \in [Requests -> 0 .. MaxBatch]
      /\ firstAck \in [Requests -> 0 .. MaxBatch]
      /\ reply \in [Requests -> Replies]
      /\ reply[r].status \in {"none", "ok", "busy", "rejected", "aborted"}
  BY IngestAssumption DEF IInv, BatchProgress, ProgressOf, TypeOK, Replies
<1>1. \A i \in 1 .. MaxBatch :
        /\ stage[<<r, i>>] = "refused" => stage'[<<r, i>>] = "refused"
        /\ stage[<<r, i>>] \notin {"none", "refused"}
              => stage'[<<r, i>>] \notin {"none", "refused"}
        /\ stage[<<r, i>>] = "none" /\ stage'[<<r, i>>] # "none"
              => i = next[r] /\ pc[r] = "enqueue" /\ Leaves(r)
  BY BatchStage
<1>2. ASSUME NEW n \in 0 .. MaxBatch, HandleEvent(r, n)
      PROVE  ProgressOf(r)'
  BY <1>0, <1>1, <1>2 DEF HandleEvent, ProgressOf
<1>3. CASE RejectRequest(r)
  BY <1>0, <1>1, <1>3 DEF RejectRequest, ProgressOf, Answer
<1>4. CASE IngestCreateAck(r)
  BY <1>0, <1>1, <1>4 DEF IngestCreateAck, ProgressOf
<1>5. CASE IngestEnqueue(r)
  <2>1. /\ next'[r] = next[r] + 1 /\ next[r] \in 1 .. MaxBatch
        /\ pc[r] = "enqueue" /\ pc'[r] = (IF next[r] < size[r] THEN "create" ELSE "respond")
        /\ failedCount' = failedCount /\ size' = size /\ reply' = reply
        /\ firstAck'[r] = (IF firstAck[r] = 0 THEN next[r] ELSE firstAck[r])
    BY <1>0, <1>5, CurrentIsEvent DEF IngestEnqueue, NextInBatch
  <2>2. stage'[<<r, next[r]>>] = "accepted"
    BY <1>5, CurrentIsEvent DEF IngestEnqueue, Current, IInv, TypeOK
  <2>3. QED BY <1>0, <1>1, <2>1, <2>2 DEF ProgressOf
<1>6. CASE IngestQueueFull(r)
  <2>1. /\ next'[r] = next[r] + 1 /\ next[r] \in 1 .. MaxBatch
        /\ pc[r] = "enqueue" /\ pc'[r] = (IF next[r] < size[r] THEN "create" ELSE "respond")
        /\ failedCount'[r] = failedCount[r] + 1
        /\ size' = size /\ reply' = reply /\ firstAck' = firstAck
    BY <1>0, <1>6, CurrentIsEvent DEF IngestQueueFull, NextInBatch
  <2>2. stage'[<<r, next[r]>>] = "refused"
    BY <1>6, CurrentIsEvent DEF IngestQueueFull, Current, IInv, TypeOK
  <2>3. QED BY <1>0, <1>1, <2>1, <2>2 DEF ProgressOf
<1>7. CASE Respond(r)
  BY <1>0, <1>1, <1>7 DEF Respond, ProgressOf, Answer
<1>8. CASE Restart
  <2>1. /\ pc'[r] = (IF pc[r] = "new" THEN "new" ELSE "done")
        /\ reply'[r] = (IF pc[r] \in {"new", "done"} THEN reply[r] ELSE Answer("aborted", 0))
        /\ size' = size /\ next' = next /\ failedCount' = failedCount /\ firstAck' = firstAck
    BY <1>8 DEF Restart
  <2>2. QED BY <1>0, <1>1, <2>1 DEF ProgressOf, Answer
<1>9. CASE /\ pc'[r] = pc[r] /\ size'[r] = size[r] /\ next'[r] = next[r]
           /\ failedCount'[r] = failedCount[r] /\ firstAck'[r] = firstAck[r]
           /\ reply'[r] = reply[r]
  BY <1>0, <1>1, <1>9 DEF ProgressOf, Leaves
<1>10. QED
  BY <1>2, <1>3, <1>4, <1>5, <1>6, <1>7, <1>8, <1>9, RequestStep

(* Every step keeps the answers in agreement with the queue. *)
LEMMA AnswerStep ==
    ASSUME IInv, [Next]_vars
    PROVE  AnswerMatchesQueue'
<1> DEFINE AnswerOf(r) ==
        /\ reply[r].status = "busy" =>
              \A i \in 1 .. size[r] : stage[<<r, i>>] = "refused"
        /\ reply[r].status = "ok" =>
              \E i \in 1 .. size[r] : stage[<<r, i>>] \notin {"none", "refused"}
        /\ reply[r].ack # 0 => stage[<<r, reply[r].ack>>] \notin {"none", "refused"}
<1> SUFFICES ASSUME NEW r \in Requests PROVE AnswerOf(r)'
  BY DEF AnswerMatchesQueue
<1>0. /\ AnswerOf(r) /\ ProgressOf(r) /\ MaxBatch \in Nat
      /\ pc \in [Requests -> {"new", "create", "enqueue", "respond", "done"}]
      /\ size \in [Requests -> 0 .. MaxBatch] /\ next \in [Requests -> 1 .. MaxBatch + 1]
      /\ failedCount \in [Requests -> 0 .. MaxBatch]
      /\ firstAck \in [Requests -> 0 .. MaxBatch]
      /\ reply \in [Requests -> Replies]
      /\ reply[r].ack \in 0 .. MaxBatch
  BY IngestAssumption
     DEF IInv, AnswerMatchesQueue, BatchProgress, ProgressOf, TypeOK, Replies
<1>1. \A i \in 1 .. MaxBatch :
        /\ stage[<<r, i>>] = "refused" => stage'[<<r, i>>] = "refused"
        /\ stage[<<r, i>>] \notin {"none", "refused"}
              => stage'[<<r, i>>] \notin {"none", "refused"}
  BY BatchStage
<1>2. ASSUME reply'[r] = reply[r],
             reply[r].status \in {"ok", "busy"} => size'[r] = size[r]
      PROVE  AnswerOf(r)'
  BY <1>0, <1>1, <1>2
<1>3. ASSUME reply'[r].status \notin {"ok", "busy"}, reply'[r].ack = 0
      PROVE  AnswerOf(r)'
  BY <1>3
<1>4. CASE Respond(r)
  <2>1. size' = size /\ next[r] = size[r] + 1 /\ size[r] \in 0 .. MaxBatch
    BY <1>0, <1>4 DEF Respond, ProgressOf
  <2>2. CASE failedCount[r] = size[r]
    <3>1. reply'[r] = Answer("busy", 0)
      BY <1>0, <1>4, <2>2 DEF Respond
    <3>2. \A i \in 1 .. size[r] : stage[<<r, i>>] = "refused"
      BY <1>0, <2>1, <2>2 DEF ProgressOf
    <3>3. QED BY <1>0, <1>1, <2>1, <3>1, <3>2 DEF Answer
  <2>3. CASE failedCount[r] # size[r]
    <3>1. reply'[r] = Answer("ok", firstAck[r]) \/ reply'[r] = Answer("ok", 0)
      BY <1>0, <1>4, <2>3 DEF Respond
    <3>2. /\ firstAck[r] \in 1 .. size[r]
          /\ stage[<<r, firstAck[r]>>] \notin {"none", "refused"}
      BY <1>0, <2>1, <2>3 DEF ProgressOf
    <3>3. /\ reply'[r].status = "ok"
          /\ reply'[r].ack = firstAck[r] \/ reply'[r].ack = 0
      BY <3>1 DEF Answer
    <3>4. firstAck[r] \in 1 .. size'[r] /\ stage'[<<r, firstAck[r]>>] \notin {"none", "refused"}
      BY <1>0, <1>1, <2>1, <3>2
    <3>5. \E i \in 1 .. size'[r] : stage'[<<r, i>>] \notin {"none", "refused"}
      BY <3>4
    <3>6. QED BY <3>3, <3>4, <3>5
  <2>4. QED BY <2>2, <2>3
<1>5. ASSUME NEW n \in 0 .. MaxBatch, HandleEvent(r, n)
      PROVE  AnswerOf(r)'
  BY <1>0, <1>2, <1>5 DEF HandleEvent, ProgressOf
<1>6. CASE RejectRequest(r)
  BY <1>0, <1>3, <1>6 DEF RejectRequest, Answer
<1>7. CASE IngestCreateAck(r) \/ IngestEnqueue(r) \/ IngestQueueFull(r)
  BY <1>2, <1>7 DEF IngestCreateAck, IngestEnqueue, IngestQueueFull
<1>8. CASE Restart
  <2>1. /\ size' = size
        /\ reply'[r] = (IF pc[r] \in {"new", "done"} THEN reply[r] ELSE Answer("aborted", 0))
    BY <1>8 DEF Restart
  <2>2. QED BY <1>2, <1>3, <2>1 DEF Answer
<1>9. QED
  BY <1>2, <1>4, <1>5, <1>6, <1>7, <1>8, RequestStep

-----------------------------------------------------------------------------
(* The initial state satisfies the invariant. *)
LEMMA InitInv == Init => IInv
<1> SUFFICES ASSUME Init PROVE IInv
  OBVIOUS
<1> USE IngestAssumption
<1>1. AckTypeOK
  BY AckTTLAssumption DEF Init, AckInit, AckTypeOK, AckStatus
<1>2. NoReply \in Replies
  BY DEF NoReply, Answer, Replies
<1>3. TypeOK
  BY <1>1, <1>2 DEF Init, TypeOK, NoStats, Stages
<1>4. Custody
  BY DEF Init, Custody, InQueue, Held, Idle
<1>5. AckTruth
  BY DEF Init, AckInit, AckTruth, Events
<1>6. AnswerMatchesQueue /\ BatchProgress
  BY EventPair DEF Init, AnswerMatchesQueue, BatchProgress, NoReply, Answer
<1>7. QED BY <1>3, <1>4, <1>5, <1>6 DEF IInv

(* IInv is an invariant of the service: what TLC checks on small instances *)
(* as TypeOK, Custody, AckTruth and AnswerMatchesQueue.                    *)
THEOREM Invariance == Spec => []IInv
<1>1. IInv /\ [Next]_vars => IInv'
  BY TypeStep, CustodyStep, AckTruthStep, AnswerStep, ProgressStep DEF IInv
<1>2. QED BY <1>1, InitInv, PTL DEF Spec

(* Every variable keeps its type; in particular the event queue never      *)
(* holds more than its capacity.                                           *)
THEOREM TypeCorrectness == Spec => []TypeOK
<1>1. IInv => TypeOK
  BY DEF IInv
<1>2. QED BY <1>1, Invariance, PTL

(* No interleaving of handlers, processor, cleanup and restarts loses or   *)
(* duplicates an accepted event inside the service.                        *)
THEOREM CustodyHolds == Spec => []Custody
<1>1. IInv => Custody
  BY DEF IInv
<1>2. QED BY <1>1, Invariance, PTL

(* An ack never says anything but what became of its event.                *)
THEOREM AckTruthHolds == Spec => []AckTruth
<1>1. IInv => AckTruth
  BY DEF IInv
<1>2. QED BY <1>1, Invariance, PTL

(* A 503 left nothing behind, a 200 left something, and the ack id of an   *)
(* answer names an event that was queued.                                  *)
THEOREM AnswerMatchesQueueHolds == Spec => []AnswerMatchesQueue
<1>1. IInv => AnswerMatchesQueue
  BY DEF IInv
<1>2. QED BY <1>1, Invariance, PTL

-----------------------------------------------------------------------------
(* The gauge of pending acks. *)

(* There are finitely many pending acks. *)
LEMMA PendingFinite == IsFiniteSet(GetPending) /\ Cardinality(GetPending) \in Nat
<1>1. GetPending \in SUBSET AckIDs
  BY DEF GetPending
<1>2. IsFiniteSet(GetPending)
  BY <1>1, AckIDsAssumption, FS_Subset
<1>3. QED BY <1>2, FS_CardinalityType

(* Nothing happens to the acks. *)
LEMMA GaugeUnchanged ==
    ASSUME GaugeExact, acks' = acks, gauge' = gauge
    PROVE  GaugeExact'
BY DEF GaugeExact, GetPending

(* Complete and Fail decrement the gauge for every entry they find: right  *)
(* only because the entry they find is still pending.                      *)
LEMMA ResolveGauge ==
    ASSUME AckTypeOK, GaugeExact, NEW a \in AckIDs, NEW s \in {"success", "failed"},
           acks[a] \in {"none", "pending"}, Resolve(a, s)
    PROVE  GaugeExact'
<1>1. CASE acks[a] = "none"
  BY <1>1, GaugeUnchanged DEF Resolve, ackVars
<1>2. CASE acks[a] = "pending"
  <2>1. GetPending' = GetPending \ {a} /\ a \in GetPending /\ gauge' = gauge - 1
    BY <1>2 DEF Resolve, GetPending, AckTypeOK
  <2>2. Cardinality(GetPending \ {a}) = Cardinality(GetPending) - 1
    BY <2>1, PendingFinite, FS_RemoveElement
  <2>3. QED BY <2>1, <2>2 DEF GaugeExact
<1>3. QED BY <1>1, <1>2

(* The ack of an event that is not finished is pending, or was cleaned up. *)
LEMMA OpenAck ==
    ASSUME IInv, NEW e \in Events, stage[e] \in {"none", "accepted"}
    PROVE  /\ e \in AckIDs
           /\ acks[e] \in {"none", "pending"}
           /\ stage[e] = "none" /\ ~BeingIngested(e) => acks[e] = "none"
BY DEF IInv, TypeOK, AckTypeOK, AckTruth, AckStatus, Events

(* Every step keeps the gauge equal to the number of pending acks. *)
LEMMA GaugeStep ==
    ASSUME IInv, GaugeExact, [Next]_vars
    PROVE  GaugeExact'
<1>0. AckTypeOK
  BY DEF IInv, TypeOK
<1>1. ASSUME NEW r \in Requests, IngestCreateAck(r)
      PROVE  GaugeExact'
  <2> DEFINE c == Current(r)
  <2>1. c \in Events /\ stage[c] = "none" /\ ~BeingIngested(c)
    BY <1>1, CurrentIsEvent DEF IngestCreateAck, BeingIngested, Current
  <2>2. c \in AckIDs /\ acks[c] = "none"
    BY <2>1, OpenAck
  <2>3. acks' = [acks EXCEPT ![c] = "pending"] /\ gauge' = gauge + 1
    BY <1>1 DEF IngestCreateAck, Create
  <2> HIDE DEF c
  <2>4. GetPending' = GetPending \cup {c} /\ c \notin GetPending
    BY <1>0, <2>2, <2>3 DEF GetPending, AckTypeOK
  <2>5. Cardinality(GetPending \cup {c}) = Cardinality(GetPending) + 1
    BY <2>4, PendingFinite, FS_AddElement
  <2>6. QED BY <2>3, <2>4, <2>5 DEF GaugeExact
<1>2. ASSUME NEW r \in Requests, IngestQueueFull(r)
      PROVE  GaugeExact'
  <2>1. Current(r) \in Events /\ stage[Current(r)] = "none"
    BY <1>2, CurrentIsEvent DEF IngestQueueFull
  <2>2. Resolve(Current(r), "failed")
    BY <1>2 DEF IngestQueueFull, Fail
  <2>3. Current(r) \in AckIDs /\ acks[Current(r)] \in {"none", "pending"}
    BY <2>1, OpenAck
  <2>4. QED BY <1>0, <2>2, <2>3, ResolveGauge
<1>3. CASE NormalizeFails \/ ConvertFails \/ ForwardFails \/ CheckFailed \/ CheckOK
  <2>1. proc.at # "idle" /\ \E s \in {"success", "failed"} : Resolve(proc.ev, s)
    BY <1>3 DEF NormalizeFails, ConvertFails, ForwardFails, CheckFailed, CheckOK,
                GiveUp, Fail, Complete, Holding
  <2>2. proc.ev \in AckIDs /\ acks[proc.ev] \in {"none", "pending"}
    BY <2>1, HeldIsEvent, OpenAck
  <2>3. QED BY <1>0, <2>1, <2>2, ResolveGauge
<1>4. CASE Cleanup
  <2> DEFINE X == Expired \cap GetPending
  <2>1. GetPending' = GetPending \ X
    BY <1>0, <1>4 DEF Cleanup, cleanup, GetPending, Expired, AckTypeOK
  <2>2. gauge' = gauge - Cardinality(X)
    BY <1>4 DEF Cleanup, cleanup
  <2>3. X \in SUBSET GetPending /\ (GetPending \ X) \in SUBSET GetPending
    OBVIOUS
  <2> HIDE DEF X
  <2>4. IsFiniteSet(X) /\ IsFiniteSet(GetPending \ X)
    BY <2>3, PendingFinite, FS_Subset
  <2>5. X \cup (GetPending \ X) = GetPending /\ X \cap (GetPending \ X) = {}
    BY <2>3
  <2>6. Cardinality(GetPending) = Cardinality(X) + Cardinality(GetPending \ X)
    <3>1. Cardinality(X \cup (GetPending \ X))
            = Cardinality(X) + Cardinality(GetPending \ X)
              - Cardinality(X \cap (GetPending \ X))
      BY <2>4, FS_Union
    <3>2. Cardinality(X) \in Nat /\ Cardinality(GetPending \ X) \in Nat
      BY <2>4, FS_CardinalityType
    <3>3. Cardinality(X \cap (GetPending \ X)) = 0
      BY <2>5, FS_EmptySet
    <3>4. Cardinality(X \cup (GetPending \ X)) = Cardinality(GetPending)
      BY <2>5
    <3>5. QED BY <3>1, <3>2, <3>3, <3>4
  <2>7. Cardinality(X) \in Nat /\ Cardinality(GetPending \ X) \in Nat
    BY <2>4, FS_CardinalityType
  <2>8. QED BY <2>1, <2>2, <2>6, <2>7 DEF GaugeExact
<1>5. CASE Restart
  <2>1. GetPending' = {} /\ gauge' = 0
    BY <1>5 DEF Restart, GetPending
  <2>2. QED BY <2>1, FS_EmptySet DEF GaugeExact
<1>6. ASSUME NEW r \in Requests, NEW n \in 0 .. MaxBatch,
             HandleEvent(r, n) \/ RejectRequest(r) \/ IngestEnqueue(r)
                \/ Respond(r) \/ Disconnect(r)
      PROVE  GaugeExact'
  BY <1>6, GaugeUnchanged
     DEF HandleEvent, RejectRequest, IngestEnqueue, Respond, Disconnect, ackVars
<1>7. CASE Dequeue \/ NormalizeOK \/ ForwardAdd
  BY <1>7, GaugeUnchanged DEF Dequeue, NormalizeOK, ForwardAdd, ackVars
<1>8. ASSUME NEW e \in Events, BulkFlush(e)
      PROVE  GaugeExact'
  BY <1>8, GaugeUnchanged DEF BulkFlush, ackVars
<1>9. CASE Tick \/ UNCHANGED vars
  BY <1>9, GaugeUnchanged DEF Tick, AckTick, vars
<1>10. QED
  <2>1. 0 \in 0 .. MaxBatch
    BY IngestAssumption
  <2>2. QED
    BY <1>1, <1>2, <1>3, <1>4, <1>5, <1>6, <1>7, <1>8, <1>9, <2>1, NextCases

(* The gauge of pending acks never drifts: no event is resolved twice, and *)
(* cleanup and restarts account for every pending ack they drop.           *)
THEOREM GaugeExactHolds == Spec => []GaugeExact
<1>1. Init => GaugeExact
  <2> SUFFICES ASSUME Init PROVE GaugeExact
    OBVIOUS
  <2>1. GetPending = {} /\ gauge = 0
    BY DEF Init, AckInit, GetPending
  <2>2. QED BY <2>1, FS_EmptySet DEF GaugeExact
<1>2. IInv /\ GaugeExact /\ [Next]_vars => GaugeExact'
  BY GaugeStep
<1>3. QED BY <1>1, <1>2, Invariance, PTL DEF Spec

-----------------------------------------------------------------------------
(* The service implements the ack channel.                                 *)

(* What the bulk indexer knows of an event: nothing before processEvents   *)
(* hands it over, something from then on.  IInv says nothing of the        *)
(* indexer; the refinement needs this to see that an event is failed only  *)
(* if the indexer does not hold it, and completed only if it was given it. *)
BulkProgress ==
    /\ \A e \in Events : stage[e] \in {"none", "refused"} \/ InQueue(e) => bulk[e] = "none"
    /\ proc.at \in {"normalize", "forward"} => bulk[proc.ev] = "none"
    /\ proc.at = "check" => bulk[proc.ev] # "none"

(* An event that is put into the queue, or refused, is not in the indexer. *)
LEMMA BulkAfterEnqueue ==
    ASSUME IInv, BulkProgress, NEW r \in Requests,
           IngestEnqueue(r) \/ IngestQueueFull(r)
    PROVE  BulkProgress'
<1> DEFINE c == Current(r)
<1>1. c \in Events /\ stage[c] = "none" /\ bulk' = bulk /\ proc' = proc
  BY CurrentIsEvent DEF IngestEnqueue, IngestQueueFull
<1>2. \A e \in Events : e # c => stage'[e] = stage[e]
  BY <1>1 DEF IngestEnqueue, IngestQueueFull, IInv, TypeOK
<1>3. queue \in Seq(Events) /\ (queue' = queue \/ queue' = Append(queue, c))
  BY DEF IngestEnqueue, IngestQueueFull, IInv, TypeOK
<1> HIDE DEF c
<1>4. \A e \in Events : InQueue(e)' => InQueue(e) \/ e = c
  BY <1>1, <1>3 DEF InQueue
<1>5. QED BY <1>1, <1>2, <1>4 DEF BulkProgress

(* Every step keeps the indexer in step with the processor. *)
LEMMA BulkStep ==
    ASSUME IInv, BulkProgress, [Next]_vars
    PROVE  BulkProgress'
<1>0. TypeOK /\ Custody
  BY DEF IInv
<1>a. ASSUME stage' = stage, queue' = queue, proc' = proc, bulk' = bulk
      PROVE  BulkProgress'
  BY <1>a DEF BulkProgress, InQueue
<1>1. CASE Dequeue
  <2>1. /\ queue \in Seq(Events) /\ Len(queue) \in Nat /\ Len(queue) >= 1
        /\ Len(Tail(queue)) = Len(queue) - 1
        /\ \A i \in 1 .. Len(queue) - 1 : Tail(queue)[i] = queue[i + 1]
        /\ Head(queue) = queue[1] /\ queue[1] \in Events
    BY <1>0, <1>1 DEF TypeOK, Dequeue
  <2>2. /\ queue' = Tail(queue) /\ stage' = stage /\ bulk' = bulk
        /\ proc'.at = "normalize" /\ proc'.ev = queue[1]
    BY <1>1, <2>1 DEF Dequeue
  <2>3. \A e \in Events : InQueue(e)' => InQueue(e)
    BY <2>1, <2>2 DEF InQueue
  <2>4. InQueue(queue[1])
    BY <2>1 DEF InQueue
  <2>5. QED BY <2>1, <2>2, <2>3, <2>4 DEF BulkProgress
<1>2. CASE NormalizeOK
  <2>1. /\ proc.at = "normalize" /\ proc'.at = "forward" /\ proc'.ev = proc.ev
        /\ UNCHANGED <<queue, bulk, stage>>
    BY <1>2, HeldIsEvent DEF NormalizeOK, Holding
  <2>2. QED BY <2>1 DEF BulkProgress, InQueue
<1>3. CASE ForwardAdd
  <2>1. /\ proc.at = "forward" /\ proc'.at = "check" /\ proc'.ev = proc.ev
        /\ UNCHANGED <<queue, stage>> /\ proc.ev \in Events
        /\ bulk' = [bulk EXCEPT ![proc.ev] = "buffered"]
        /\ stage[proc.ev] = "accepted" /\ Held(proc.ev)
    BY <1>3, HeldIsEvent DEF ForwardAdd, Holding
  <2>2. ~InQueue(proc.ev)
    BY <1>0, <2>1 DEF Custody, InQueue
  <2>3. QED BY <1>0, <2>1, <2>2 DEF BulkProgress, InQueue, TypeOK
<1>4. CASE NormalizeFails \/ ConvertFails \/ ForwardFails \/ CheckFailed \/ CheckOK
  <2>1. proc.at # "idle" /\ UNCHANGED <<queue, bulk>> /\ proc' = Idle
        /\ \E s \in {"failed", "completed"} : stage' = [stage EXCEPT ![proc.ev] = s]
    BY <1>4 DEF NormalizeFails, ConvertFails, ForwardFails, CheckFailed, CheckOK,
                GiveUp, Holding
  <2>2. proc'.at = "idle"
    BY <2>1 DEF Idle
  <2>3. \A e \in Events : stage'[e] \in {"none", "refused"} => stage[e] = stage'[e]
    BY <1>0, <2>1, HeldIsEvent DEF TypeOK
  <2>4. QED BY <2>1, <2>2, <2>3 DEF BulkProgress, InQueue
<1>5. ASSUME NEW e \in Events, BulkFlush(e)
      PROVE  BulkProgress'
  <2>1. /\ UNCHANGED <<queue, proc, stage>> /\ bulk[e] = "buffered"
        /\ \E s \in {"indexed", "rejected"} : bulk' = [bulk EXCEPT ![e] = s]
    BY <1>5 DEF BulkFlush
  <2>2. \A x \in Events : bulk'[x] = "none" <=> bulk[x] = "none"
    BY <1>0, <2>1 DEF TypeOK
  <2>3. proc.at # "idle" => proc.ev \in Events
    BY HeldIsEvent
  <2>4. QED BY <2>1, <2>2, <2>3 DEF BulkProgress, InQueue
<1>6. CASE Restart
  <2>1. /\ Len(queue') = 0 /\ proc'.at = "idle"
        /\ \A e \in Events : stage'[e] \in {stage[e], "lost"}
        /\ \A e \in Events : bulk[e] = "none" => bulk'[e] = "none"
    BY <1>6 DEF Restart, Idle
  <2>2. QED BY <2>1 DEF BulkProgress, InQueue
<1>7. ASSUME NEW r \in Requests, NEW n \in 0 .. MaxBatch,
             HandleEvent(r, n) \/ RejectRequest(r) \/ IngestCreateAck(r)
                \/ Respond(r) \/ Disconnect(r)
      PROVE  BulkProgress'
  BY <1>7, <1>a
     DEF HandleEvent, RejectRequest, IngestCreateAck, Respond, Disconnect, serviceVars
<1>8. CASE Cleanup \/ Tick \/ UNCHANGED vars
  BY <1>8, <1>a DEF Cleanup, Tick, serviceVars, vars
<1>9. QED
  <2>1. 0 \in 0 .. MaxBatch
    BY IngestAssumption
  <2>2. QED
    BY <1>1, <1>2, <1>3, <1>4, <1>5, <1>6, <1>7, <1>8, <2>1, BulkAfterEnqueue, NextCases

(* The initial state is one of the channel's. *)
LEMMA ChannelInit == Init => Channel!Init
<1> SUFFICES ASSUME Init PROVE Channel!Init
  OBVIOUS
<1>1. \A e \in Events : Verdict(e) = "unissued" /\ StoreView(e) = "none"
  BY EventPair DEF Init, Verdict, StoreView, BeingIngested
<1>2. acks = [e \in Events |-> "none"]
  BY DEF Init, AckInit, Events
<1>3. QED BY <1>1, <1>2 DEF Channel!Init

(* A step that changes no verdict, no ack and no storage is a stutter. *)
LEMMA ChannelStutter ==
    ASSUME acks' = acks,
           \A e \in Events : Verdict(e)' = Verdict(e) /\ StoreView(e)' = StoreView(e)
    PROVE  UNCHANGED Channel!vars
BY DEF Channel!vars

(* What the channel sees of an event depends on its stage, its place in    *)
(* the indexer and whether its handler is about to enqueue it.             *)
LEMMA SameView ==
    ASSUME NEW e \in Events, stage'[e] = stage[e], bulk'[e] = bulk[e],
           BeingIngested(e)' <=> BeingIngested(e)
    PROVE  Verdict(e)' = Verdict(e) /\ StoreView(e)' = StoreView(e)
BY DEF Verdict, StoreView

(* A handler's step concerns no event but the one it is at. *)
LEMMA OtherIngested ==
    ASSUME IInv, NEW r \in Requests, NEW e \in Events, e # Current(r),
           \A q \in Requests : q # r => pc'[q] = pc[q] /\ next'[q] = next[q],
           \/ next'[r] = next[r]
           \/ pc'[r] # "enqueue"
    PROVE  BeingIngested(e)' <=> BeingIngested(e)
BY EventPair DEF BeingIngested, Current

(* Finishing the event processEvents holds is the channel's decision. *)
LEMMA ChannelDecides ==
    ASSUME IInv, proc.at # "idle",
           NEW v \in {"success", "failed"}, Resolve(proc.ev, v),
           stage' = [stage EXCEPT ![proc.ev] = IF v = "success" THEN "completed" ELSE "failed"],
           bulk' = bulk, pc' = pc, next' = next,
           v = "success" => bulk[proc.ev] # "none",
           v = "failed" => bulk[proc.ev] \in {"none", "rejected"}
    PROVE  Channel!Next
<1>0. PICK x \in Events : x = proc.ev
  BY HeldIsEvent
<1>1. stage[x] = "accepted" /\ stage \in [Events -> Stages] /\ acks \in [Events -> AckStatus]
  BY <1>0, HeldIsEvent DEF IInv, TypeOK, AckTypeOK, Events
<1>2. Verdict(x) = "open" /\ Verdict(x)' = v
  BY <1>0, <1>1 DEF Verdict
<1>3. \A e \in Events : e # x => Verdict(e)' = Verdict(e)
  BY <1>0, <1>1 DEF Verdict, BeingIngested
<1>4. \A e \in Events : StoreView(e)' = StoreView(e)
  BY DEF StoreView
<1>5. /\ v = "success" => StoreView(x) # "none"
      /\ v = "failed" => StoreView(x) # "taken"
  BY <1>0 DEF StoreView
<1>6. acks' = [acks EXCEPT ![x] = IF @ = "none" THEN "none" ELSE v]
  BY <1>0, <1>1 DEF Resolve, ackVars
<1>7. Channel!Decide(x, v)
  BY <1>1, <1>2, <1>3, <1>4, <1>5, <1>6 DEF Channel!Decide
<1>8. QED BY <1>1, <1>7 DEF Channel!Next

(* Every step of the service is a step of the channel, or none.            *)
LEMMA ChannelStep ==
    ASSUME IInv, BulkProgress, [Next]_vars
    PROVE  [Channel!Next]_(Channel!vars)
<1>0. /\ acks \in [Events -> AckStatus] /\ stage \in [Events -> Stages]
      /\ bulk \in [Events -> {"none", "buffered", "indexed", "rejected", "lost"}]
      /\ pc \in [Requests -> {"new", "create", "enqueue", "respond", "done"}]
      /\ next \in [Requests -> 1 .. MaxBatch + 1]
  BY DEF IInv, TypeOK, AckTypeOK, Events
<1>a. ASSUME acks' = acks, stage' = stage, bulk' = bulk,
             \A e \in Events : BeingIngested(e)' <=> BeingIngested(e)
      PROVE  UNCHANGED Channel!vars
  BY <1>a, SameView, ChannelStutter
<1>1. ASSUME NEW r \in Requests, NEW n \in 0 .. MaxBatch,
             HandleEvent(r, n) \/ RejectRequest(r) \/ Respond(r)
      PROVE  UNCHANGED Channel!vars
  <2>1. /\ pc[r] # "enqueue" /\ pc'[r] # "enqueue" /\ next' = next
        /\ UNCHANGED <<acks, stage, bulk>>
        /\ \A q \in Requests : q # r => pc'[q] = pc[q]
    BY <1>0, <1>1 DEF HandleEvent, RejectRequest, Respond, ackVars, serviceVars
  <2>2. \A e \in Events : BeingIngested(e)' <=> BeingIngested(e)
    BY <2>1, EventPair DEF BeingIngested
  <2>3. QED BY <1>a, <2>1, <2>2
<1>2. ASSUME NEW r \in Requests, IngestCreateAck(r)
      PROVE  Channel!Next
  <2>0. PICK c \in Events : c = Current(r) /\ stage[c] = "none"
    BY <1>2, CurrentIsEvent DEF IngestCreateAck
  <2>1. /\ pc[r] = "create" /\ pc' = [pc EXCEPT ![r] = "enqueue"] /\ next' = next
        /\ acks' = [acks EXCEPT ![c] = "pending"] /\ UNCHANGED <<stage, bulk>>
    BY <1>2, <2>0 DEF IngestCreateAck, Create, serviceVars
  <2>3. ~BeingIngested(c) /\ BeingIngested(c)'
    BY <1>0, <2>0, <2>1 DEF BeingIngested, Current
  <2>4. Verdict(c) = "unissued" /\ Verdict(c)' = "open"
    BY <2>0, <2>1, <2>3 DEF Verdict
  <2>5. \A e \in Events : e # c => (BeingIngested(e)' <=> BeingIngested(e))
    BY <1>0, <2>0, <2>1, OtherIngested
  <2>6. \A e \in Events : e # c => Verdict(e)' = Verdict(e)
    BY <2>1, <2>5, SameView
  <2>7. \A e \in Events : StoreView(e)' = StoreView(e)
    BY <2>1 DEF StoreView
  <2>8. Channel!Issue(c)
    BY <1>0, <2>1, <2>4, <2>6, <2>7 DEF Channel!Issue
  <2>9. QED BY <2>8 DEF Channel!Next
<1>3. ASSUME NEW r \in Requests, IngestEnqueue(r)
      PROVE  UNCHANGED Channel!vars
  <2>0. PICK c \in Events : c = Current(r) /\ stage[c] = "none"
    BY <1>3, CurrentIsEvent DEF IngestEnqueue
  <2>1. /\ pc[r] = "enqueue" /\ pc'[r] # "enqueue"
        /\ UNCHANGED <<acks, bulk>> /\ stage' = [stage EXCEPT ![c] = "accepted"]
        /\ \A q \in Requests : q # r => pc'[q] = pc[q] /\ next'[q] = next[q]
    BY <1>0, <1>3, <2>0 DEF IngestEnqueue, NextInBatch, ackVars
  <2>2. Verdict(c) = "open" /\ Verdict(c)' = "open"
    BY <1>0, <2>0, <2>1 DEF Verdict, BeingIngested, Current
  <2>3. \A e \in Events : e # c => Verdict(e)' = Verdict(e)
    BY <1>0, <2>0, <2>1, SameView, OtherIngested
  <2>4. \A e \in Events : StoreView(e)' = StoreView(e)
    BY <2>1 DEF StoreView
  <2>5. QED BY <2>1, <2>2, <2>3, <2>4, ChannelStutter
<1>4. ASSUME NEW r \in Requests, IngestQueueFull(r)
      PROVE  Channel!Next
  <2>0. PICK c \in Events : c = Current(r) /\ stage[c] = "none"
    BY <1>4, CurrentIsEvent DEF IngestQueueFull
  <2>1. /\ pc[r] = "enqueue" /\ pc'[r] # "enqueue"
        /\ bulk' = bulk /\ stage' = [stage EXCEPT ![c] = "refused"]
        /\ acks' = [acks EXCEPT ![c] = IF @ = "none" THEN "none" ELSE "failed"]
        /\ \A q \in Requests : q # r => pc'[q] = pc[q] /\ next'[q] = next[q]
    BY <1>0, <1>4, <2>0
       DEF IngestQueueFull, NextInBatch, Fail, Resolve, ackVars
  <2>2. Verdict(c) = "open" /\ Verdict(c)' = "failed"
    BY <1>0, <2>0, <2>1 DEF Verdict, BeingIngested, Current
  <2>3. \A e \in Events : e # c => Verdict(e)' = Verdict(e)
    BY <1>0, <2>0, <2>1, SameView, OtherIngested
  <2>4. \A e \in Events : StoreView(e)' = StoreView(e)
    BY <2>1 DEF StoreView
  <2>5. StoreView(c) = "none"
    BY <2>0, <2>1 DEF StoreView, BulkProgress
  <2>6. Channel!Decide(c, "failed")
    BY <2>1, <2>2, <2>3, <2>4, <2>5 DEF Channel!Decide
  <2>7. QED BY <2>1, <2>6 DEF Channel!Next
<1>5. CASE NormalizeFails \/ ConvertFails \/ ForwardFails \/ CheckFailed
  <2>1. /\ proc.at # "idle" /\ Resolve(proc.ev, "failed")
        /\ stage' = [stage EXCEPT ![proc.ev] = "failed"]
        /\ UNCHANGED <<bulk, pc, next>>
    BY <1>5 DEF NormalizeFails, ConvertFails, ForwardFails, CheckFailed, GiveUp, Fail,
                Holding, handlerVars
  <2>2. bulk[proc.ev] \in {"none", "rejected"}
    BY <1>5 DEF NormalizeFails, ConvertFails, ForwardFails, CheckFailed, Holding, BulkProgress
  <2>3. QED BY <2>1, <2>2, ChannelDecides
<1>6. CASE CheckOK
  <2>1. /\ proc.at # "idle" /\ Resolve(proc.ev, "success")
        /\ stage' = [stage EXCEPT ![proc.ev] = "completed"]
        /\ UNCHANGED <<bulk, pc, next>>
    BY <1>6 DEF CheckOK, Complete, Holding, handlerVars
  <2>2. bulk[proc.ev] # "none"
    BY <1>6 DEF CheckOK, Holding, BulkProgress
  <2>3. QED BY <2>1, <2>2, ChannelDecides
<1>7. CASE ForwardAdd
  <2>0. PICK x \in Events : x = proc.ev
    BY <1>7, HeldIsEvent DEF ForwardAdd, Holding
  <2>1. /\ proc.at # "idle" /\ bulk[x] = "none" /\ bulk' = [bulk EXCEPT ![x] = "buffered"]
        /\ UNCHANGED <<acks, stage, pc, next>>
    BY <1>7, <2>0 DEF ForwardAdd, Holding, BulkProgress, ackVars, handlerVars
  <2>2. stage[x] = "accepted"
    BY <2>0, <2>1, HeldIsEvent
  <2>3. Verdict(x) = "open" /\ \A e \in Events : Verdict(e)' = Verdict(e)
    BY <2>1, <2>2 DEF Verdict, BeingIngested
  <2>4. /\ StoreView(x) = "none" /\ StoreView(x)' = "taken"
        /\ \A e \in Events : e # x => StoreView(e)' = StoreView(e)
    BY <1>0, <2>1, <2>2 DEF StoreView
  <2>5. Channel!Take(x)
    BY <2>1, <2>2, <2>3, <2>4 DEF Channel!Take
  <2>6. QED BY <2>5 DEF Channel!Next
<1>8. ASSUME NEW e \in Events, BulkFlush(e)
      PROVE  [Channel!Next]_(Channel!vars)
  <2>1. bulk[e] = "buffered" /\ UNCHANGED <<acks, stage, pc, next>>
    BY <1>8 DEF BulkFlush, ackVars, handlerVars
  <2>2. \A x \in Events : Verdict(x)' = Verdict(x)
    BY <2>1 DEF Verdict, BeingIngested
  <2>3. CASE bulk' = [bulk EXCEPT ![e] = "indexed"]
    <3>1. \A x \in Events : StoreView(x)' = StoreView(x)
      BY <1>0, <2>1, <2>3 DEF StoreView
    <3>2. QED BY <2>1, <2>2, <3>1, ChannelStutter
  <2>4. CASE bulk' = [bulk EXCEPT ![e] = "rejected"]
    <3>1. /\ StoreView(e) = "taken" /\ StoreView(e)' = "dropped"
          /\ \A x \in Events : x # e => StoreView(x)' = StoreView(x)
      BY <1>0, <2>1, <2>4 DEF StoreView
    <3>2. Channel!Drop(e)
      BY <2>1, <2>2, <3>1 DEF Channel!Drop
    <3>3. QED BY <3>2 DEF Channel!Next
  <2>5. QED BY <1>8, <2>3, <2>4 DEF BulkFlush
<1>9. CASE Cleanup
  <2>1. UNCHANGED <<stage, bulk, pc, next>>
    BY <1>9 DEF Cleanup, serviceVars, handlerVars
  <2>2. \A e \in Events : Verdict(e)' = Verdict(e) /\ StoreView(e)' = StoreView(e)
    BY <2>1 DEF Verdict, StoreView, BeingIngested
  <2>3. acks' = [e \in Events |-> IF e \in Expired THEN "none" ELSE acks[e]]
    BY <1>9 DEF Cleanup, cleanup, Events
  <2>4. Channel!Forget(Expired) /\ Expired \in SUBSET Events
    BY <2>2, <2>3 DEF Channel!Forget, Expired, Events
  <2>5. QED BY <2>4 DEF Channel!Next
<1>10. CASE Restart
  <2>1. \A e \in Events : Verdict(e)' = IF Verdict(e) = "open" THEN "lost" ELSE Verdict(e)
    <3> SUFFICES ASSUME NEW e \in Events
                 PROVE  Verdict(e)' = IF Verdict(e) = "open" THEN "lost" ELSE Verdict(e)
      OBVIOUS
    <3>1. ~BeingIngested(e)' /\ (BeingIngested(e) => stage[e] = "none")
      BY <1>10, EventPair, OneAtATime, CurrentIsEvent DEF Restart, BeingIngested
    <3>2. stage'[e] = IF stage[e] = "accepted" \/ BeingIngested(e) THEN "lost" ELSE stage[e]
      BY <1>10 DEF Restart
    <3>3. stage[e] \in Stages
      BY <1>0
    <3>4. QED BY <3>1, <3>2, <3>3 DEF Verdict, Stages
  <2>2. \A e \in Events : StoreView(e)' = StoreView(e)
    BY <1>10 DEF Restart, StoreView
  <2>3. acks' = [e \in Events |-> "none"]
    BY <1>10 DEF Restart, Events
  <2>4. Channel!Restart
    BY <2>1, <2>2, <2>3 DEF Channel!Restart
  <2>5. QED BY <2>4 DEF Channel!Next
<1>11. ASSUME NEW r \in Requests, Disconnect(r)
       PROVE  UNCHANGED Channel!vars
  BY <1>a, <1>11 DEF Disconnect, ackVars, serviceVars, BeingIngested
<1>12. CASE Dequeue \/ NormalizeOK
  BY <1>a, <1>12 DEF Dequeue, NormalizeOK, ackVars, handlerVars, BeingIngested
<1>13. CASE Tick \/ UNCHANGED vars
  BY <1>a, <1>13 DEF Tick, AckTick, handlerVars, serviceVars, vars, BeingIngested
<1>14. QED
  <2>1. 0 \in 0 .. MaxBatch
    BY IngestAssumption
  <2>2. QED
    BY <1>1, <1>2, <1>3, <1>4, <1>5, <1>6, <1>7, <1>8, <1>9, <1>10, <1>11, <1>12,
       <1>13, <2>1, NextCases

(* The service implements the ack channel: every event gets one verdict,   *)
(* its ack shows that verdict or nothing, success only for what the bulk   *)
(* indexer was given and failure only for what it does not hold.           *)
THEOREM ImplementsChannel == Spec => ChannelSpec
<1>1. Init => BulkProgress
  BY DEF Init, BulkProgress, Idle
<1>2. IInv /\ BulkProgress /\ [Next]_vars => BulkProgress'
  BY BulkStep
<1>3. IInv /\ BulkProgress /\ [Next]_vars => [Channel!Next]_(Channel!vars)
  BY ChannelStep
<1>4. QED
  BY <1>1, <1>2, <1>3, ChannelInit, Invariance, PTL DEF Spec, ChannelSpec, Channel!Spec
=============================================================================
