----------------------------- MODULE Correlation -----------------------------
(***************************************************************************)
(* Detection: the respond service's scheduler lists the active schemas and *)
(* publishes one correlation job per schema (respond/internal/scheduler),  *)
(* a search worker runs the job and publishes what matched (search/        *)
(* internal/nats), and a respond worker publishes an alert per match       *)
(* (respond/internal/nats).  Meanwhile the API changes the schemas, and    *)
(* main shuts one respond service down while others of its queue group go  *)
(* on.  Messages are core NATS, at most once; a queue group gives each     *)
(* message to one of its workers.                                          *)
(***************************************************************************)
EXTENDS DetectionSchemas

CONSTANTS MaxJobs,         \* bound on correlation jobs
          Keys,            \* aggregation keys that may match
          SearchWorkers,   \* members of the queue group search-workers
          RespondWorkers,  \* members of the queue group respond-workers
          Own,             \* the one of the service that is shut down
          ListLimit,       \* Limit of runCorrelations (1000 in the code)
          Silent,          \* versions whose controller has no query
          Mishaps          \* what may go wrong, see MishapKinds

(* "publish": a publish on NATS fails;   "loss": NATS drops a message;     *)
(* "db":      a query on Postgres fails.                                   *)
MishapKinds == {"publish", "loss", "db"}

ASSUME CorrelationAssumption ==
    /\ MaxJobs \in Nat
    /\ ListLimit \in Nat \ {0}
    /\ Own \in RespondWorkers
    /\ Silent \subseteq Versions
    /\ Mishaps \subseteq MishapKinds

Jobs == 1 .. MaxJobs

VARIABLES main,      \* where main is in the shutdown
          sched,     \* the scheduler goroutine: position and schemas to do
          lastJob,   \* job ids drawn so far
          request,   \* request[j]: version and schema the job is for
          jobMsgs,   \* jobs on search.jobs.correlate
          running,   \* <<job, worker>>: jobs being searched
          resMsgs,   \* results on search.results.correlate
          handling,  \* handling[h]: the result a respond worker works on
          alerts,    \* alerts published
          count      \* count[<<j, k>>]: alerts published for match k of job j

corrVars == <<main, sched, lastJob, request, jobMsgs, running, resMsgs,
              handling, alerts, count>>
vars == <<table, drawn, call, answer, main, sched, lastJob, request, jobMsgs,
          running, resMsgs, handling, alerts, count>>

Requests == [ver : Versions \cup {0}, id : Schemas \cup {NoSchema}]
NoRequest == [ver |-> 0, id |-> NoSchema]
Results == [job : Jobs, by : SearchWorkers, matches : SUBSET Keys]
Alerts == [job : Jobs, id : Schemas, ver : Versions, view : Versions]
NotHandling == [job |-> 0, todo |-> {}]

TypeOK ==
    /\ SchemaTypeOK
    /\ main \in {"running", "stopping", "unsubscribed", "closed"}
    /\ sched \in [at : {"idle", "publish", "stopped"}, todo : SUBSET Versions]
    /\ lastJob \in 0 .. MaxJobs
    /\ request \in [Jobs -> Requests]
    /\ jobMsgs \subseteq Jobs
    /\ running \subseteq Jobs \X SearchWorkers
    /\ resMsgs \subseteq Results
    /\ handling \in [RespondWorkers -> [job : Jobs \cup {0}, todo : SUBSET Keys]]
    /\ alerts \subseteq Alerts
    /\ count \in [Jobs \X Keys -> Nat]

Init ==
    /\ SchemaInit
    /\ main = "running"
    /\ sched = [at |-> "idle", todo |-> {}]
    /\ lastJob = 0
    /\ request = [j \in Jobs |-> NoRequest]
    /\ jobMsgs = {}
    /\ running = {}
    /\ resMsgs = {}
    /\ handling = [h \in RespondWorkers |-> NotHandling]
    /\ alerts = {}
    /\ count = [m \in Jobs \X Keys |-> 0]

-----------------------------------------------------------------------------
(* The scheduler.                                                          *)

(* The ticker (or the start) wins the select and ListSchemas is read once; *)
(* an error of it, or an empty list, leaves nothing to do until the next   *)
(* tick.  The bound on jobs is in the guard.                               *)
runCorrelations ==
    /\ sched.at = "idle"
    /\ LET active == ListPage(ListSchemas(FALSE, FALSE), 1, ListLimit)
       IN  /\ active # {}
           /\ lastJob + Cardinality(active) <= MaxJobs
           /\ sched' = [at |-> "publish", todo |-> active]
    /\ UNCHANGED <<schemaVars, main, lastJob, request, jobMsgs, running, resMsgs,
                   handling, alerts, count>>

Done(v) ==
    sched' = [at |-> IF sched.todo = {v} THEN "idle" ELSE "publish",
              todo |-> sched.todo \ {v}]

(* One schema of the list, newest first: without a query there is nothing  *)
(* to do; a failed publish is logged and the next schema follows.          *)
runSchemaCorrelation(v) ==
    /\ sched.at = "publish"
    /\ v \in sched.todo
    /\ \A w \in sched.todo : w <= v
    /\ Done(v)
    /\ \/ /\ v \in Silent \/ "publish" \in Mishaps
          /\ UNCHANGED <<lastJob, request, jobMsgs>>
       \/ /\ v \notin Silent
          /\ lastJob' = lastJob + 1
          /\ request' = [request EXCEPT ![lastJob + 1] = [ver |-> v, id |-> table[v].id]]
          /\ jobMsgs' = jobMsgs \cup {lastJob + 1}
    /\ UNCHANGED <<schemaVars, main, running, resMsgs, handling, alerts, count>>

(* The stop channel wins the select, and stopped is closed. *)
SchedulerStops ==
    /\ sched.at = "idle"
    /\ main = "stopping"
    /\ sched' = [sched EXCEPT !.at = "stopped"]
    /\ UNCHANGED <<schemaVars, main, lastJob, request, jobMsgs, running, resMsgs,
                   handling, alerts, count>>

-----------------------------------------------------------------------------
(* Search workers.                                                         *)

(* Mutation of takeJob: a plain subscription, every worker gets the job. *)
TakeJobFanOut(w) ==
    /\ \E j \in jobMsgs :
          /\ running' = running \cup {<<j, x>> : x \in SearchWorkers}
          /\ jobMsgs' = jobMsgs \ {j}
    /\ w \in SearchWorkers
    /\ UNCHANGED <<schemaVars, main, sched, lastJob, request, resMsgs, handling,
                   alerts, count>>

(* QueueSubscribe: one worker gets the job; its callbacks run one by one. *)
takeJob(w) ==
    /\ \A j \in Jobs : <<j, w>> \notin running
    /\ \E j \in jobMsgs :
          /\ running' = running \cup {<<j, w>>}
          /\ jobMsgs' = jobMsgs \ {j}
    /\ UNCHANGED <<schemaVars, main, sched, lastJob, request, resMsgs, handling,
                   alerts, count>>

(* ExecuteSearch and aggregateResults; a failed search publishes a result  *)
(* with Success false, one without matches is not triggered: the handler   *)
(* ignores both, which is what an empty set of matches stands for.         *)
handleCorrelationJob(w) ==
    /\ \E j \in Jobs, M \in SUBSET Keys :
          /\ <<j, w>> \in running
          /\ running' = running \ {<<j, w>>}
          /\ \/ resMsgs' = resMsgs \cup {[job |-> j, by |-> w, matches |-> M]}
             \/ "publish" \in Mishaps /\ UNCHANGED resMsgs
    /\ UNCHANGED <<schemaVars, main, sched, lastJob, request, jobMsgs, handling,
                   alerts, count>>

-----------------------------------------------------------------------------
(* Respond workers.                                                        *)

(* A result that is not triggered, or whose schema cannot be read, is      *)
(* dropped; otherwise every match becomes an alert.                        *)
handleCorrelationResult(h) ==
    /\ h = Own => main \in {"running", "stopping"}
    /\ handling[h] = NotHandling
    /\ \E m \in resMsgs :
          /\ resMsgs' = resMsgs \ {m}
          /\ \/ /\ m.matches # {}
                /\ Exists(request[m.job].ver)
                /\ handling' = [handling EXCEPT ![h] = [job |-> m.job, todo |-> m.matches]]
             \/ /\ m.matches = {} \/ "db" \in Mishaps
                /\ UNCHANGED handling
    /\ UNCHANGED <<schemaVars, main, sched, lastJob, request, jobMsgs, running,
                   alerts, count>>

(* Mutation of publishAlert: title and severity of the latest version. *)
AlertFromLatest(h) ==
    /\ \E k \in handling[h].todo :
          LET j == handling[h].job
          IN  /\ count' = [count EXCEPT ![<<j, k>>] = @ + 1]
              /\ alerts' = alerts \cup {[job |-> j, id |-> request[j].id,
                                         ver |-> request[j].ver,
                                         view |-> GetLatestSchemaByID(request[j].id)]}
              /\ handling' = [handling EXCEPT ![h] =
                    IF handling[h].todo = {k} THEN NotHandling
                    ELSE [handling[h] EXCEPT !.todo = @ \ {k}]]
    /\ UNCHANGED <<schemaVars, main, sched, lastJob, request, jobMsgs, running, resMsgs>>

(* The next match: its alert carries the title and severity of the version *)
(* that was evaluated.  A failed publish skips the match.                  *)
publishAlert(h) ==
    /\ \E k \in handling[h].todo :
          LET j == handling[h].job
              closed == h = Own /\ main = "closed"
          IN  /\ \/ /\ ~closed
                    /\ count' = [count EXCEPT ![<<j, k>>] = @ + 1]
                    /\ alerts' = alerts \cup {[job |-> j, id |-> request[j].id,
                                               ver |-> request[j].ver,
                                               view |-> request[j].ver]}
                 \/ /\ closed \/ "publish" \in Mishaps
                    /\ UNCHANGED <<count, alerts>>
              /\ handling' = [handling EXCEPT ![h] =
                    IF handling[h].todo = {k} THEN NotHandling
                    ELSE [handling[h] EXCEPT !.todo = @ \ {k}]]
    /\ UNCHANGED <<schemaVars, main, sched, lastJob, request, jobMsgs, running, resMsgs>>

-----------------------------------------------------------------------------
(* Shutdown and the network.                                               *)

Shutdown ==
    /\ main = "running"
    /\ main' = "stopping"
    /\ UNCHANGED <<schemaVars, sched, lastJob, request, jobMsgs, running, resMsgs,
                   handling, alerts, count>>

(* Mutations of Unsubscribe: Stop returns without waiting for stopped; and *)
(* it waits until the jobs under way have been answered.                   *)
UnsubscribeAtOnce ==
    /\ main = "stopping"
    /\ main' = "unsubscribed"
    /\ UNCHANGED <<schemaVars, sched, lastJob, request, jobMsgs, running, resMsgs,
                   handling, alerts, count>>

UnsubscribeWhenAnswered ==
    /\ main = "stopping"
    /\ sched.at = "stopped"
    /\ jobMsgs = {} /\ running = {}
    /\ main' = "unsubscribed"
    /\ UNCHANGED <<schemaVars, sched, lastJob, request, jobMsgs, running, resMsgs,
                   handling, alerts, count>>

(* Scheduler.Stop returned; Handler.Stop unsubscribes. *)
Unsubscribe ==
    /\ main = "stopping"
    /\ sched.at = "stopped"
    /\ main' = "unsubscribed"
    /\ UNCHANGED <<schemaVars, sched, lastJob, request, jobMsgs, running, resMsgs,
                   handling, alerts, count>>

Close ==
    /\ main = "unsubscribed"
    /\ main' = "closed"
    /\ UNCHANGED <<schemaVars, sched, lastJob, request, jobMsgs, running, resMsgs,
                   handling, alerts, count>>

LoseMessage ==
    /\ "loss" \in Mishaps
    /\ \/ \E j \in jobMsgs : jobMsgs' = jobMsgs \ {j} /\ UNCHANGED resMsgs
       \/ \E m \in resMsgs : resMsgs' = resMsgs \ {m} /\ UNCHANGED jobMsgs
    /\ UNCHANGED <<schemaVars, main, sched, lastJob, request, running, handling,
                   alerts, count>>

Scheduler == runCorrelations \/ \E v \in Versions : runSchemaCorrelation(v)

Next ==
    \/ SchemaNext /\ UNCHANGED corrVars
    \/ Scheduler
    \/ SchedulerStops
    \/ \E w \in SearchWorkers : takeJob(w) \/ handleCorrelationJob(w)
    \/ \E h \in RespondWorkers : handleCorrelationResult(h) \/ publishAlert(h)
    \/ Shutdown
    \/ Unsubscribe
    \/ Close
    \/ LoseMessage

Spec == Init /\ [][Next]_vars

(* The scheduler's loop and main run on.  Go's select picks at random among *)
(* the ready cases, so the stop channel is not passed over for ever.        *)
Fairness ==
    /\ WF_vars(\E v \in Versions : runSchemaCorrelation(v))
    /\ SF_vars(SchedulerStops)
    /\ WF_vars(Unsubscribe)
    /\ WF_vars(Close)

FairSpec == Spec /\ Fairness

-----------------------------------------------------------------------------
(* Properties.                                                             *)

(* An alert is about one version of one schema: the version its job was     *)
(* made for exists, belongs to the schema the alert names, and is the one   *)
(* its title and severity come from, whatever was changed since.            *)
AlertProvenance ==
    \A a \in alerts :
        /\ request[a.job] = [ver |-> a.ver, id |-> a.id]
        /\ table[a.ver].id = a.id
        /\ a.view = a.ver

(* However many workers there are, a match of a job is alerted once.        *)
OneAlertPerMatch == \A m \in Jobs \X Keys : count[m] <= 1

(* Once Scheduler.Stop has returned no job is published any more: nothing   *)
(* is sent on the connection that main is about to close.                   *)
QuietAfterStop ==
    [][(main \in {"unsubscribed", "closed"}) => lastJob' = lastJob]_vars

(* A shutdown that was asked for gets through.                              *)
ShutdownEnds == main = "stopping" ~> main = "closed"
=============================================================================
