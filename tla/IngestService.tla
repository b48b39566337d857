---------------------------- MODULE IngestService ----------------------------
(***************************************************************************)
(* The ingest service: HEC request handlers (handlers/hec_handler.go) put  *)
(* events into one bounded channel, one goroutine normalises them and      *)
(* hands them to the OpenSearch bulk indexer (service/ingest_service.go,   *)
(* storage/opensearch.go), and the ack manager tells the client what       *)
(* became of each event.  Events that fail normalisation go to the         *)
(* dead-letter queue.                                                      *)
(*                                                                         *)
(* Configuration modelled: acks enabled, a dead-letter queue configured.   *)
(* An event is a pair <<request, position in its batch>>; it is also the   *)
(* name of its own ack, because every IngestEvent call creates one.        *)
(***************************************************************************)
EXTENDS AckManager, Sequences

CONSTANTS Requests,   \* HTTP requests the clients may send
          MaxBatch,   \* the largest NDJSON batch
          QueueCap,   \* capacity of eventQueue (10000 in the code)
          Faults      \* what may go wrong around the service, see FaultKinds

(* "normalize": no normaliser, a normalisation or a validation error;      *)
(* "convert":   the OCSF event does not survive ocsfEventToMap;            *)
(* "dlq":       the dead-letter queue cannot be written;                   *)
(* "storage":   the bulk indexer is unusable, or Add waits past 10s;       *)
(* "reject":    OpenSearch refuses an item of a bulk request;              *)
(* "disconnect": the client goes away before the handler is done;          *)
(* "exit":      the process dies, or is stopped by SIGTERM: main does not  *)
(*              drain the queue or close the bulk indexer.                 *)
FaultKinds == {"normalize", "convert", "dlq", "storage", "reject",
               "disconnect", "exit"}

ASSUME IngestAssumption ==
    /\ MaxBatch \in Nat
    /\ QueueCap \in Nat \ {0}
    /\ Faults \subseteq FaultKinds
    /\ AckIDs = Requests \X (1 .. MaxBatch)

Events == AckIDs

VARIABLES pc,           \* pc[r]: where r's handler is
          size,         \* size[r]: len(events)
          next,         \* next[r]: position of the event being ingested
          failedCount,  \* failedCount[r], as in HandleEvent
          firstAck,     \* ackID in HandleEvent: position of its event, 0 for ""
          reply,        \* reply[r]: what the client was answered
          ctxDone,      \* ctxDone[r]: r.Context() is cancelled
          queue,        \* eventQueue
          proc,         \* processEvents: its position, and the event it holds
          bulk,         \* bulk[e]: the event in the bulk indexer
          dlq,          \* events in the dead-letter queue
          stats,        \* IngestService.stats
          usage,        \* events given to statsCollector.Record
          stage         \* history: what became of each event

handlerVars == <<pc, size, next, failedCount, firstAck, reply, ctxDone, usage>>
serviceVars == <<queue, proc, bulk, dlq, stats, stage>>
vars == <<acks, age, gauge, pc, size, next, failedCount, firstAck, reply,
          ctxDone, queue, proc, bulk, dlq, stats, usage, stage>>

Answer(s, a) == [status |-> s, ack |-> a]
NoReply == Answer("none", 0)
Idle == [at |-> "idle", ev |-> <<>>]
NoStats == [total |-> 0, successful |-> 0, failed |-> 0]

Replies == [status : {"none", "ok", "busy", "rejected", "aborted"},
            ack : 0 .. MaxBatch]

(* "none": not ingested yet; "refused": the queue was full; "accepted":    *)
(* enqueued and not finished; "completed" / "failed": how processEvents    *)
(* finished it; "lost": in the process when that ended.                    *)
Stages == {"none", "refused", "accepted", "completed", "failed", "lost"}

TypeOK ==
    /\ AckTypeOK
    /\ pc \in [Requests -> {"new", "create", "enqueue", "respond", "done"}]
    /\ size \in [Requests -> 0 .. MaxBatch]
    /\ next \in [Requests -> 1 .. MaxBatch + 1]
    /\ failedCount \in [Requests -> 0 .. MaxBatch]
    /\ firstAck \in [Requests -> 0 .. MaxBatch]
    /\ reply \in [Requests -> Replies]
    /\ ctxDone \in [Requests -> BOOLEAN]
    /\ queue \in Seq(Events)
    /\ Len(queue) <= QueueCap
    /\ proc \in {Idle} \cup [at : {"normalize", "forward", "check"}, ev : Events]
    /\ bulk \in [Events -> {"none", "buffered", "indexed", "rejected", "lost"}]
    /\ dlq \subseteq Events
    /\ stats \in [total : Nat, successful : Nat, failed : Nat]
    /\ usage \in Nat
    /\ stage \in [Events -> Stages]

Init ==
    /\ AckInit
    /\ pc = [r \in Requests |-> "new"]
    /\ size = [r \in Requests |-> 0]
    /\ next = [r \in Requests |-> 1]
    /\ failedCount = [r \in Requests |-> 0]
    /\ firstAck = [r \in Requests |-> 0]
    /\ reply = [r \in Requests |-> NoReply]
    /\ ctxDone = [r \in Requests |-> FALSE]
    /\ queue = <<>>
    /\ proc = Idle
    /\ bulk = [e \in Events |-> "none"]
    /\ dlq = {}
    /\ stats = NoStats
    /\ usage = 0
    /\ stage = [e \in Events |-> "none"]

-----------------------------------------------------------------------------
(* The request handlers.                                                   *)

Current(r) == <<r, next[r]>>

(* e has its ack and is on its way to the select on eventQueue. *)
BeingIngested(e) == e[2] = next[e[1]] /\ pc[e[1]] = "enqueue"

updateStats(success) ==
    stats' = [total |-> stats.total + 1,
              successful |-> stats.successful + (IF success THEN 1 ELSE 0),
              failed |-> stats.failed + (IF success THEN 0 ELSE 1)]

(* Rate limits, token validation and parsing let the request through with  *)
(* n events; n = 0 is an NDJSON body of blank lines, for which the loop    *)
(* over events is skipped.                                                 *)
HandleEvent(r, n) ==
    /\ pc[r] = "new"
    /\ pc' = [pc EXCEPT ![r] = IF n = 0 THEN "respond" ELSE "create"]
    /\ size' = [size EXCEPT ![r] = n]
    /\ UNCHANGED <<ackVars, next, failedCount, firstAck, reply, ctxDone, usage,
                   serviceVars>>

(* The raw endpoint reads a body that is not empty as exactly one event.   *)
HandleRaw(r) == MaxBatch > 0 /\ HandleEvent(r, 1)

(* ... or one of the early returns answers 400, 401, 405, 429 or 503.      *)
RejectRequest(r) ==
    /\ pc[r] = "new"
    /\ pc' = [pc EXCEPT ![r] = "done"]
    /\ reply' = [reply EXCEPT ![r] = Answer("rejected", 0)]
    /\ ctxDone' = [ctxDone EXCEPT ![r] = TRUE]
    /\ UNCHANGED <<ackVars, size, next, failedCount, firstAck, usage, serviceVars>>

(* IngestEvent, IngestRaw: the ack exists before the event is queued.      *)
IngestCreateAck(r) ==
    /\ pc[r] = "create"
    /\ Create(Current(r))
    /\ pc' = [pc EXCEPT ![r] = "enqueue"]
    /\ UNCHANGED <<size, next, failedCount, firstAck, reply, ctxDone, usage,
                   serviceVars>>

(* The loop in HandleEvent goes on to the next event of the batch. *)
NextInBatch(r) ==
    /\ next' = [next EXCEPT ![r] = @ + 1]
    /\ pc' = [pc EXCEPT ![r] = IF next[r] < size[r] THEN "create" ELSE "respond"]

(* The select on eventQueue: the send case ... *)
IngestEnqueue(r) ==
    /\ pc[r] = "enqueue"
    /\ Len(queue) < QueueCap
    /\ queue' = Append(queue, Current(r))
    /\ stage' = [stage EXCEPT ![Current(r)] = "accepted"]
    /\ updateStats(TRUE)
    /\ firstAck' = [firstAck EXCEPT ![r] = IF @ = 0 THEN next[r] ELSE @]
    /\ NextInBatch(r)
    /\ UNCHANGED <<ackVars, size, failedCount, reply, ctxDone, usage, proc, bulk, dlq>>

(* Mutation of IngestQueueFull: the ack of a refused event is forgotten. *)
QueueFullKeepsAck(r) ==
    /\ pc[r] = "enqueue"
    /\ Len(queue) >= QueueCap
    /\ stage' = [stage EXCEPT ![Current(r)] = "refused"]
    /\ updateStats(FALSE)
    /\ failedCount' = [failedCount EXCEPT ![r] = @ + 1]
    /\ NextInBatch(r)
    /\ UNCHANGED <<ackVars, size, firstAck, reply, ctxDone, usage, queue, proc, bulk, dlq>>

(* ... and its default, when the channel is full. *)
IngestQueueFull(r) ==
    /\ pc[r] = "enqueue"
    /\ Len(queue) >= QueueCap
    /\ Fail(Current(r))
    /\ stage' = [stage EXCEPT ![Current(r)] = "refused"]
    /\ updateStats(FALSE)
    /\ failedCount' = [failedCount EXCEPT ![r] = @ + 1]
    /\ NextInBatch(r)
    /\ UNCHANGED <<size, firstAck, reply, ctxDone, usage, queue, proc, bulk, dlq>>

(* Mutations of Respond: any refused event makes the answer 503; and the   *)
(* 503 is not sent at all.                                                 *)
RespondBusyIfAnyFailed(r) ==
    /\ pc[r] = "respond"
    /\ pc' = [pc EXCEPT ![r] = "done"]
    /\ ctxDone' = [ctxDone EXCEPT ![r] = TRUE]
    /\ reply' = [reply EXCEPT ![r] =
                    IF failedCount[r] > 0 \/ size[r] = 0
                    THEN Answer("busy", 0) ELSE Answer("ok", firstAck[r])]
    /\ usage' = usage + size[r]
    /\ UNCHANGED <<ackVars, size, next, failedCount, firstAck, serviceVars>>

RespondNothingIfAllFailed(r) ==
    /\ pc[r] = "respond"
    /\ pc' = [pc EXCEPT ![r] = "done"]
    /\ ctxDone' = [ctxDone EXCEPT ![r] = TRUE]
    /\ reply' = IF failedCount[r] = size[r] THEN reply
                ELSE [reply EXCEPT ![r] = Answer("ok", firstAck[r])]
    /\ usage' = usage + size[r]
    /\ UNCHANGED <<ackVars, size, next, failedCount, firstAck, serviceVars>>

(* The answer, after which net/http cancels the request's context.  The    *)
(* ack id goes out only if the client asked for a channel.                 *)
Respond(r) ==
    /\ pc[r] = "respond"
    /\ pc' = [pc EXCEPT ![r] = "done"]
    /\ ctxDone' = [ctxDone EXCEPT ![r] = TRUE]
    /\ \/ /\ failedCount[r] = size[r]
          /\ reply' = [reply EXCEPT ![r] = Answer("busy", 0)]
          /\ UNCHANGED usage
       \/ /\ failedCount[r] # size[r]
          /\ \E channel \in BOOLEAN :
                reply' = [reply EXCEPT ![r] =
                              Answer("ok", IF channel THEN firstAck[r] ELSE 0)]
          /\ usage' = usage + size[r]
    /\ UNCHANGED <<ackVars, size, next, failedCount, firstAck, serviceVars>>

(* net/http cancels the context when the connection goes away; the handler *)
(* itself does not look at it.                                             *)
Disconnect(r) ==
    /\ "disconnect" \in Faults
    /\ pc[r] \notin {"new", "done"}
    /\ ~ctxDone[r]
    /\ ctxDone' = [ctxDone EXCEPT ![r] = TRUE]
    /\ UNCHANGED <<ackVars, pc, size, next, failedCount, firstAck, reply, usage,
                   serviceVars>>

-----------------------------------------------------------------------------
(* processEvents, the only consumer of the queue.  An event carries the    *)
(* context of the request it came in, so the work is done under a context  *)
(* that is cancelled as soon as that request has been answered.            *)

Cancelled(e) == ctxDone[e[1]]

Holding(at) == proc.at = at

(* Mutation of Dequeue: the event is read and stays in the queue. *)
DequeuePeeks ==
    /\ Holding("idle")
    /\ queue # <<>>
    /\ proc' = [at |-> "normalize", ev |-> Head(queue)]
    /\ UNCHANGED <<ackVars, handlerVars, queue, bulk, dlq, stats, stage>>

Dequeue ==
    /\ Holding("idle")
    /\ queue # <<>>
    /\ proc' = [at |-> "normalize", ev |-> Head(queue)]
    /\ queue' = Tail(queue)
    /\ UNCHANGED <<ackVars, handlerVars, bulk, dlq, stats, stage>>

NormalizeOK ==
    /\ Holding("normalize")
    /\ proc' = [proc EXCEPT !.at = "forward"]
    /\ UNCHANGED <<ackVars, handlerVars, queue, bulk, dlq, stats, stage>>

(* Mutation of GiveUp: a failure retries the event without limit. *)
GiveUpRetries ==
    /\ proc' = [proc EXCEPT !.at = "normalize"]
    /\ UNCHANGED <<ackVars, stage>>

(* `continue' after a failure: the ack fails and the event is dropped. *)
GiveUp ==
    /\ Fail(proc.ev)
    /\ stage' = [stage EXCEPT ![proc.ev] = "failed"]
    /\ proc' = Idle

(* pipeline.Process fails and the envelope is offered to the DLQ; an error *)
(* of the DLQ, such as its context being cancelled, is only logged.        *)
NormalizeFails ==
    /\ Holding("normalize")
    /\ "normalize" \in Faults
    /\ \/ dlq' = dlq \cup {proc.ev}
       \/ (Cancelled(proc.ev) \/ "dlq" \in Faults) /\ UNCHANGED dlq
    /\ GiveUp
    /\ UNCHANGED <<handlerVars, queue, bulk, stats>>

(* ocsfEventToMap fails: no DLQ entry is written on this path. *)
ConvertFails ==
    /\ Holding("normalize")
    /\ "convert" \in Faults
    /\ GiveUp
    /\ UNCHANGED <<handlerVars, queue, bulk, dlq, stats>>

(* Client.Ingest: bulkIndexer.Add took the item ... *)
ForwardAdd ==
    /\ Holding("forward")
    /\ bulk' = [bulk EXCEPT ![proc.ev] = "buffered"]
    /\ proc' = [proc EXCEPT !.at = "check"]
    /\ UNCHANGED <<ackVars, handlerVars, queue, dlq, stats, stage>>

(* ... or returned an error.  Add selects between the context and a worker *)
(* channel, so a cancelled context may win although a worker is free.      *)
ForwardFails ==
    /\ Holding("forward")
    /\ Cancelled(proc.ev) \/ "storage" \in Faults
    /\ GiveUp
    /\ UNCHANGED <<handlerVars, queue, bulk, dlq, stats>>

(* Mutation of CheckFailed: waiting for the callbacks with a timeout that  *)
(* fails the ack.                                                          *)
CheckFailedOnTimeout ==
    /\ Holding("check")
    /\ GiveUp
    /\ UNCHANGED <<handlerVars, queue, bulk, dlq, stats>>

(* forwardToStorage looks at resp.Failed without the mutex the bulk        *)
(* callbacks hold: if OnFailure already ran it may or may not see it.      *)
CheckFailed ==
    /\ Holding("check")
    /\ bulk[proc.ev] = "rejected"
    /\ GiveUp
    /\ UNCHANGED <<handlerVars, queue, bulk, dlq, stats>>

CheckOK ==
    /\ Holding("check")
    /\ Complete(proc.ev)
    /\ stage' = [stage EXCEPT ![proc.ev] = "completed"]
    /\ proc' = Idle
    /\ UNCHANGED <<handlerVars, queue, bulk, dlq, stats>>

-----------------------------------------------------------------------------
(* The environment.                                                        *)

(* A worker of the bulk indexer (opensearchutil, external) flushes e and   *)
(* OpenSearch takes it (OnSuccess) or not (OnFailure).                     *)
BulkFlush(e) ==
    /\ bulk[e] = "buffered"
    /\ \/ bulk' = [bulk EXCEPT ![e] = "indexed"]
       \/ "reject" \in Faults /\ bulk' = [bulk EXCEPT ![e] = "rejected"]
    /\ UNCHANGED <<ackVars, handlerVars, queue, proc, dlq, stats, stage>>

Cleanup == cleanup /\ UNCHANGED <<handlerVars, serviceVars>>

Tick == AckTick /\ UNCHANGED <<handlerVars, serviceVars>>

(* The process ends and is started again: the queue, the acks, the bulk    *)
(* buffer and the statistics are memory only.                              *)
Restart ==
    /\ "exit" \in Faults
    /\ acks' = [a \in AckIDs |-> "none"]
    /\ age' = [a \in AckIDs |-> 0]
    /\ gauge' = 0
    /\ pc' = [r \in Requests |-> IF pc[r] = "new" THEN "new" ELSE "done"]
    /\ reply' = [r \in Requests |-> IF pc[r] \in {"new", "done"} THEN reply[r]
                                    ELSE Answer("aborted", 0)]
    /\ ctxDone' = [r \in Requests |-> pc[r] # "new"]
    /\ queue' = <<>>
    /\ proc' = Idle
    /\ bulk' = [e \in Events |-> IF bulk[e] = "buffered" THEN "lost" ELSE bulk[e]]
    /\ stage' = [e \in Events |-> IF stage[e] = "accepted" \/ BeingIngested(e)
                                  THEN "lost" ELSE stage[e]]
    /\ stats' = NoStats
    /\ usage' = 0
    /\ UNCHANGED <<size, next, failedCount, firstAck, dlq>>

Handler(r) ==
    \/ IngestCreateAck(r)
    \/ IngestEnqueue(r)
    \/ IngestQueueFull(r)
    \/ Respond(r)

Processor ==
    \/ Dequeue
    \/ NormalizeOK
    \/ NormalizeFails
    \/ ConvertFails
    \/ ForwardAdd
    \/ ForwardFails
    \/ CheckFailed
    \/ CheckOK

Next ==
    \/ \E r \in Requests :
          \/ \E n \in 0 .. MaxBatch : HandleEvent(r, n)
          \/ HandleRaw(r)
          \/ RejectRequest(r)
          \/ Handler(r)
          \/ Disconnect(r)
    \/ Processor
    \/ \E e \in Events : BulkFlush(e)
    \/ Cleanup
    \/ Tick
    \/ Restart

Spec == Init /\ [][Next]_vars

(* The Go scheduler runs every runnable goroutine, and the indexer's       *)
(* workers flush at least every second.  Nothing is assumed of clients,    *)
(* of the clock or of faults.                                              *)
Fairness ==
    /\ \A r \in Requests : WF_vars(Handler(r))
    /\ WF_vars(Processor)
    /\ \A e \in Events : WF_vars(BulkFlush(e))

FairSpec == Spec /\ Fairness

-----------------------------------------------------------------------------
(* Properties.                                                             *)

InQueue(e) == \E i \in 1 .. Len(queue) : queue[i] = e

Held(e) == proc.at # "idle" /\ proc.ev = e

(* An accepted event is in exactly one place until processEvents is done   *)
(* with it: once in eventQueue, or in the goroutine's hands.  Nothing the  *)
(* handlers or the processor do loses, duplicates or resurrects an event.  *)
Custody ==
    /\ \A i, j \in 1 .. Len(queue) : queue[i] = queue[j] => i = j
    /\ \A i \in 1 .. Len(queue) : ~Held(queue[i])
    /\ \A e \in Events : stage[e] = "accepted" <=> InQueue(e) \/ Held(e)

(* An ack never lies about its event, whatever interleaving of handlers,   *)
(* processor, cleanup and restarts led here: "success" and "failed" are    *)
(* what happened, and a pending ack still has someone who will resolve it  *)
(* (the handler that created it, the queue or processEvents).              *)
AckTruth ==
    \A e \in Events :
        /\ acks[e] = "success" => stage[e] = "completed"
        /\ acks[e] = "failed" => stage[e] \in {"failed", "refused"}
        /\ acks[e] = "pending" => stage[e] = "accepted" \/ BeingIngested(e)

(* metrics.AcksPending is the number of pending acks: no path resolves an   *)
(* ack twice, or drops a pending one without the decrement.                 *)
GaugeExact == gauge = Cardinality(GetPending)

(* A request answered 503 after ingest left no event behind, so a client    *)
(* that sends it again makes no duplicates; one answered 200 got at least   *)
(* one event into the queue, and an ackId it returns names such an event.   *)
AnswerMatchesQueue ==
    \A r \in Requests :
        /\ reply[r].status = "busy" =>
              \A i \in 1 .. size[r] : stage[<<r, i>>] = "refused"
        /\ reply[r].status = "ok" =>
              \E i \in 1 .. size[r] : stage[<<r, i>>] \notin {"none", "refused"}
        /\ reply[r].ack # 0 => stage[<<r, reply[r].ack>>] \notin {"none", "refused"}

(* Where a handler is in its batch: events it has not reached are           *)
(* untouched, and failedCount and ackID account for those it has passed.    *)
BatchProgress ==
    \A r \in Requests :
        /\ pc[r] = "new" => next[r] = 1
        /\ pc[r] \in {"create", "enqueue"} => next[r] <= size[r]
        /\ pc[r] = "respond" => next[r] = size[r] + 1
        /\ pc[r] # "done" =>
              \A i \in 1 .. MaxBatch : i >= next[r] => stage[<<r, i>>] = "none"
        /\ failedCount[r] < next[r]
        /\ firstAck[r] < next[r]
        /\ firstAck[r] # 0 => stage[<<r, firstAck[r]>>] \notin {"none", "refused"}
        /\ failedCount[r] < next[r] - 1 => firstAck[r] # 0
        /\ failedCount[r] = next[r] - 1 =>
              \A i \in 1 .. MaxBatch : i < next[r] => stage[<<r, i>>] = "refused"
        /\ reply[r].status \in {"ok", "busy"} => pc[r] = "done"
        /\ reply[r].ack # 0 => reply[r].status = "ok"

(* The inductive invariant of the service.                                  *)
IInv == TypeOK /\ Custody /\ AckTruth /\ AnswerMatchesQueue /\ BatchProgress

(* The service implements the promise of the ack channel: one verdict per   *)
(* event, acks that show it, success only for events the bulk indexer took, *)
(* failure only for events it does not hold and will not be given.          *)
Verdict(e) ==
    CASE stage[e] = "none" -> IF BeingIngested(e) THEN "open" ELSE "unissued"
      [] stage[e] = "accepted" -> "open"
      [] stage[e] \in {"refused", "failed"} -> "failed"
      [] stage[e] = "completed" -> "success"
      [] stage[e] = "lost" -> "lost"

StoreView(e) ==
    CASE bulk[e] = "none" -> "none"
      [] bulk[e] = "rejected" -> "dropped"
      [] OTHER -> "taken"

Channel == INSTANCE AckChannel
              WITH verdict <- [e \in Events |-> Verdict(e)],
                   ack <- acks,
                   store <- [e \in Events |-> StoreView(e)]

ChannelSpec == Channel!Spec

(* processEvents never gets stuck on an event: whatever fails, an accepted  *)
(* event is finished (or the process ends).                                 *)
EventIsFinished ==
    \A e \in Events : stage[e] = "accepted" ~> stage[e] # "accepted"

(* A handler that started to ingest answers its client: a full queue makes  *)
(* it fail the event and go on, never wait.                                 *)
RequestIsAnswered ==
    \A r \in Requests : pc[r] # "new" ~> reply[r].status # "none"

(* Both ends of the queue make progress: handlers are answered and events   *)
(* finished, although one goroutine serves the queue of all handlers.       *)
AcceptedIsFinished == EventIsFinished /\ RequestIsAnswered

-----------------------------------------------------------------------------
(* What the documentation says and the code does not do.                   *)

(* "guaranteed delivery semantics": an event that was queued reaches        *)
(* OpenSearch.                                                              *)
GuaranteedDelivery ==
    \A e \in Events : stage[e] = "accepted" ~> bulk[e] = "indexed"
=============================================================================
