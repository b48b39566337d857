----------------------------- MODULE AsyncQuery -----------------------------
(***************************************************************************)
(* Asynchronous search queries.  The web gateway publishes a job on NATS   *)
(* and keeps an in-memory entry per query (web/backend/internal/handlers/  *)
(* async_query.go); a search worker runs the job and publishes the result  *)
(* (search/internal/nats/handler.go); the gateway's subscriber writes it   *)
(* into the entry (web/backend/internal/nats/subscriber.go), which the     *)
(* client polls.  Messages are core NATS: at most once, in no order that   *)
(* the handlers could rely on.                                             *)
(***************************************************************************)
EXTENDS Naturals

CONSTANTS Queries,    \* query ids (uuid.New(), one per submission)
          ResultTTL,  \* queryResultCacheTTL, in clock ticks
          Hazards     \* what may go wrong, see HazardKinds

(* "publish":   Publish fails (connection closed, context cancelled);      *)
(* "loss":      NATS drops a job or a result;                              *)
(* "search":    OpenSearch answers with an error;                          *)
(* "timerange": clients submit queries with a time_range;                  *)
(* "restart":   the gateway is restarted.                                  *)
HazardKinds == {"publish", "loss", "search", "timerange", "restart"}

ASSUME AsyncAssumption == ResultTTL \in Nat /\ Hazards \subseteq HazardKinds

VARIABLES submit,   \* submit[q]: where SubmitQuery is
          ranged,   \* ranged[q]: the submission carries a time_range
          results,  \* AsyncQueryHandler.results: status, "none" without entry
          age,      \* ticks since the entry's CreatedAt, saturating past the TTL
          search,   \* search[q]: the job on its way to and in a search worker
          reply,    \* reply[q]: result message under way to the subscriber
          outcome,  \* history: what the search service said of q
          poll,     \* poll[q]: a GetQueryStatus in progress
          seen      \* seen[q]: the answer the client got last

webVars == <<submit, ranged, results, age>>
busVars == <<search, reply, outcome>>
pollVars == <<poll, seen>>
vars == <<submit, ranged, results, age, search, reply, outcome, poll, seen>>

Final == {"complete", "failed"}
Status == {"pending"} \cup Final
NoPoll == [at |-> "idle", old |-> "none", new |-> "none"]
NotSeen == [status |-> "none", data |-> FALSE]

(* Data is set together with a final status, and never before. *)
HasData(status) == status \in Final

TypeOK ==
    /\ submit \in [Queries -> {"new", "publish", "store", "respond", "accepted",
                               "refused", "aborted"}]
    /\ ranged \in [Queries -> BOOLEAN]
    /\ results \in [Queries -> Status \cup {"none"}]
    /\ age \in [Queries -> 0 .. ResultTTL + 1]
    /\ search \in [Queries -> {"none", "queued", "running", "done", "dropped", "lost"}]
    /\ reply \in [Queries -> Final \cup {"none"}]
    /\ outcome \in [Queries -> Final \cup {"none"}]
    /\ poll \in [Queries -> [at : {"idle", "read"}, old : Status \cup {"none"},
                             new : Status \cup {"none"}]]
    /\ seen \in [Queries -> [status : Status \cup {"none", "notfound"},
                             data : BOOLEAN]]

Init ==
    /\ submit = [q \in Queries |-> "new"]
    /\ ranged = [q \in Queries |-> FALSE]
    /\ results = [q \in Queries |-> "none"]
    /\ age = [q \in Queries |-> 0]
    /\ search = [q \in Queries |-> "none"]
    /\ reply = [q \in Queries |-> "none"]
    /\ outcome = [q \in Queries |-> "none"]
    /\ poll = [q \in Queries |-> NoPoll]
    /\ seen = [q \in Queries |-> NotSeen]

-----------------------------------------------------------------------------
(* The gateway: SubmitQuery.                                               *)

(* The body decodes and names a query; an id is drawn. *)
SubmitQuery(q) ==
    /\ submit[q] = "new"
    /\ submit' = [submit EXCEPT ![q] = "publish"]
    /\ \E range \in (IF "timerange" \in Hazards THEN BOOLEAN ELSE {FALSE}) :
          ranged' = [ranged EXCEPT ![q] = range]
    /\ UNCHANGED <<results, age, busVars, pollVars>>

(* publisher.Publish: on an error nothing was sent and the answer is 500. *)
SubmitPublish(q) ==
    /\ submit[q] = "publish"
    /\ \/ /\ submit' = [submit EXCEPT ![q] = "store"]
          /\ search' = [search EXCEPT ![q] = "queued"]
       \/ /\ "publish" \in Hazards
          /\ submit' = [submit EXCEPT ![q] = "refused"]
          /\ UNCHANGED search
    /\ UNCHANGED <<ranged, results, age, reply, outcome, pollVars>>

(* A new pending entry, whatever the map already holds for q. *)
SubmitStore(q) ==
    /\ submit[q] = "store"
    /\ submit' = [submit EXCEPT ![q] = "respond"]
    /\ results' = [results EXCEPT ![q] = "pending"]
    /\ age' = [age EXCEPT ![q] = 0]
    /\ UNCHANGED <<ranged, busVars, pollVars>>

SubmitRespond(q) ==
    /\ submit[q] = "respond"
    /\ submit' = [submit EXCEPT ![q] = "accepted"]
    /\ UNCHANGED <<ranged, results, age, busVars, pollVars>>

-----------------------------------------------------------------------------
(* The search service: handleSearchJob.                                    *)

(* A worker of the queue group takes the job.  The gateway's time_range is *)
(* a string and the worker's a structure, so a job that has one does not   *)
(* decode; replyError then has no reply subject to write to.               *)
handleSearchJob(q) ==
    /\ search[q] = "queued"
    /\ search' = [search EXCEPT ![q] = IF ranged[q] THEN "dropped" ELSE "running"]
    /\ UNCHANGED <<webVars, reply, outcome, pollVars>>

(* ExecuteSearch returns and the response is published on the job's        *)
(* result subject; an error of that publish is only printed.               *)
publishResult(q) ==
    /\ search[q] = "running"
    /\ search' = [search EXCEPT ![q] = "done"]
    /\ \E said \in {"complete"} \cup (IF "search" \in Hazards THEN {"failed"} ELSE {}) :
          /\ outcome' = [outcome EXCEPT ![q] = said]
          /\ \/ reply' = [reply EXCEPT ![q] = said]
             \/ "publish" \in Hazards /\ UNCHANGED reply
    /\ UNCHANGED <<webVars, pollVars>>

-----------------------------------------------------------------------------
(* The gateway: results, polls, expiry.                                    *)

(* Under the lock.  An existing entry is changed in place, so a poll that  *)
(* already has the pointer may see the new fields; CreatedAt stays.        *)
SetQueryResult(q, status) ==
    /\ results' = [results EXCEPT ![q] = status]
    /\ age' = [age EXCEPT ![q] = IF results[q] = "none" THEN 0 ELSE @]
    /\ poll' = IF results[q] # "none" /\ poll[q].at = "read"
               THEN [poll EXCEPT ![q].new = status] ELSE poll

(* Mutation of handleResult: the success flag is not looked at. *)
HandleResultIgnoresSuccess(q) ==
    /\ reply[q] # "none"
    /\ SetQueryResult(q, "complete")
    /\ reply' = [reply EXCEPT ![q] = "none"]
    /\ UNCHANGED <<submit, ranged, search, outcome, seen>>

(* The subscriber: the status follows the message's success flag. *)
handleResult(q) ==
    /\ reply[q] # "none"
    /\ SetQueryResult(q, reply[q])
    /\ reply' = [reply EXCEPT ![q] = "none"]
    /\ UNCHANGED <<submit, ranged, search, outcome, seen>>

Answer(q, status, data) ==
    /\ seen' = [seen EXCEPT ![q] = [status |-> status, data |-> data]]
    /\ poll' = [poll EXCEPT ![q] = NoPoll]

(* Mutation of GetQueryStatus: an unknown id counts as still pending. *)
LookupDefaultsToPending(q) ==
    /\ submit[q] = "accepted"
    /\ poll[q].at = "idle"
    /\ IF results[q] = "none"
       THEN Answer(q, "pending", FALSE)
       ELSE /\ poll' = [poll EXCEPT ![q] = [at |-> "read", old |-> results[q],
                                            new |-> results[q]]]
            /\ UNCHANGED seen
    /\ UNCHANGED <<webVars, busVars>>

(* The lookup, under the read lock: 404, or a pointer to the entry. *)
GetQueryStatus(q) ==
    /\ submit[q] = "accepted"
    /\ poll[q].at = "idle"
    /\ IF results[q] = "none"
       THEN Answer(q, "notfound", FALSE)
       ELSE /\ poll' = [poll EXCEPT ![q] = [at |-> "read", old |-> results[q],
                                            new |-> results[q]]]
            /\ UNCHANGED seen
    /\ UNCHANGED <<webVars, busVars>>

(* The fields are read after the unlock, one by one: each may be the old   *)
(* or the new one if SetQueryResult came in between.                       *)
readFields(q) ==
    /\ poll[q].at = "read"
    /\ \E status, body \in {poll[q].old, poll[q].new} :
          Answer(q, status, HasData(body))
    /\ UNCHANGED <<webVars, busVars>>

Expired == {q \in Queries : results[q] # "none" /\ age[q] > ResultTTL}

Remove(S) ==
    /\ S # {}
    /\ results' = [q \in Queries |-> IF q \in S THEN "none" ELSE results[q]]
    /\ age' = [q \in Queries |-> IF q \in S THEN 0 ELSE age[q]]
    /\ UNCHANGED <<submit, ranged, busVars, pollVars>>

(* Mutation of cleanupExpiredResults: only answered queries are removed. *)
CleanupKeepsPending == Remove({q \in Expired : results[q] \in Final})

cleanupExpiredResults == Remove(Expired)

Tick ==
    /\ \E q \in Queries : results[q] # "none" /\ age[q] <= ResultTTL
    /\ age' = [q \in Queries |-> IF results[q] # "none" /\ age[q] <= ResultTTL
                                 THEN age[q] + 1 ELSE age[q]]
    /\ UNCHANGED <<submit, ranged, results, busVars, pollVars>>

-----------------------------------------------------------------------------
(* The environment.                                                        *)

LoseJob(q) ==
    /\ "loss" \in Hazards
    /\ search[q] = "queued"
    /\ search' = [search EXCEPT ![q] = "lost"]
    /\ UNCHANGED <<webVars, reply, outcome, pollVars>>

LoseResult(q) ==
    /\ "loss" \in Hazards
    /\ reply[q] # "none"
    /\ reply' = [reply EXCEPT ![q] = "none"]
    /\ UNCHANGED <<webVars, search, outcome, pollVars>>

(* The gateway's map and its requests in progress are memory only. *)
Restart ==
    /\ "restart" \in Hazards
    /\ results' = [q \in Queries |-> "none"]
    /\ age' = [q \in Queries |-> 0]
    /\ poll' = [q \in Queries |-> NoPoll]
    /\ submit' = [q \in Queries |-> IF submit[q] \in {"publish", "store", "respond"}
                                    THEN "aborted" ELSE submit[q]]
    /\ UNCHANGED <<ranged, busVars, seen>>

Next ==
    \/ \E q \in Queries :
          \/ SubmitQuery(q)
          \/ SubmitPublish(q)
          \/ SubmitStore(q)
          \/ SubmitRespond(q)
          \/ handleSearchJob(q)
          \/ publishResult(q)
          \/ handleResult(q)
          \/ GetQueryStatus(q)
          \/ readFields(q)
          \/ LoseJob(q)
          \/ LoseResult(q)
    \/ cleanupExpiredResults
    \/ Tick
    \/ Restart

Spec == Init /\ [][Next]_vars

(* Handlers run on, the clock advances and the cleanup ticker fires.       *)
Fairness ==
    /\ \A q \in Queries :
          /\ WF_vars(SubmitPublish(q) \/ SubmitStore(q) \/ SubmitRespond(q))
          /\ WF_vars(handleSearchJob(q) \/ publishResult(q))
          /\ WF_vars(handleResult(q))
          /\ WF_vars(readFields(q))
    /\ WF_vars(Tick)
    /\ WF_vars(cleanupExpiredResults)

FairSpec == Spec /\ Fairness

-----------------------------------------------------------------------------
(* Properties.                                                             *)

(* An entry, and every answer a client was given, says complete or failed   *)
(* only if the search service said so of this query, and carries data only  *)
(* if it answered at all, however submission, result, expiry and polls that *)
(* read a changing entry interleave.                                        *)
ResultIsTrue ==
    \A q \in Queries :
        /\ results[q] \in Final => outcome[q] = results[q]
        /\ seen[q].status \in Final => outcome[q] = seen[q].status
        /\ seen[q].data => outcome[q] # "none"

(* A client that has seen the final status of a query is never told         *)
(* again that it is pending, or that it ended the other way.                *)
PollMonotone ==
    [][\A q \in Queries :
          seen[q].status \in Final => seen'[q].status \in {seen[q].status, "notfound"}
       ]_seen

(* No entry stays in the cache for ever, even if its result never comes.    *)
CacheDrains == \A q \in Queries : results[q] # "none" ~> results[q] = "none"

=============================================================================
