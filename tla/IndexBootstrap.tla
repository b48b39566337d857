--------------------------- MODULE IndexBootstrap ---------------------------
(***************************************************************************)
(* How instances of the ingest service prepare OpenSearch when they start  *)
(* (ingest/internal/storage/opensearch.go, Initialize): the index          *)
(* template, the lifecycle policy, then an index named after the day and   *)
(* the write alias on it.  A step that fails only logs a warning: the      *)
(* instance serves all the same, and its bulk writes go to the alias.      *)
(***************************************************************************)
EXTENDS Integers

CONSTANTS
  Instances,   \* instances of the ingest service
  LastDay,     \* bound on the days
  MaxStarts    \* bound on how often an instance starts

VARIABLES
  today,       \* the day
  cluster,     \* OpenSearch: template, policy, dated indices, alias, plain index
  boot,        \* boot[i]: an instance's progress through Initialize
  mishaps      \* whether a template was not put, or an index left without alias

bootVars == <<today, cluster, boot, mishaps>>

NoDay == 0
Down(starts) == [at |-> "down", day |-> NoDay, initialized |-> FALSE, starts |-> starts]

\* cluster.plain is the index OpenSearch creates by itself when events are
\* written to the alias' name and nothing has it.
BootInit ==
  /\ today = 1
  /\ cluster = [template |-> FALSE, policy |-> FALSE, indices |-> {}, unmapped |-> {},
                alias |-> NoDay, plain |-> FALSE, unmappedPlain |-> FALSE]
  /\ boot = [i \in Instances |-> Down(0)]
  /\ mishaps = [template |-> FALSE, torn |-> FALSE]

Midnight ==
  /\ today < LastDay
  /\ today' = today + 1
  /\ UNCHANGED <<cluster, boot, mishaps>>

\* main calls Initialize once, which first asks OpenSearch for its version.
StartInstance(i) ==
  /\ boot[i].at = "down"
  /\ boot[i].starts < MaxStarts
  /\ \/ /\ boot' = [boot EXCEPT ![i].at = "template", ![i].starts = @ + 1]
        /\ UNCHANGED mishaps
     \/ /\ boot' = [boot EXCEPT ![i].at = "up", ![i].starts = @ + 1]
        /\ mishaps' = [mishaps EXCEPT !.template = TRUE]
  /\ UNCHANGED <<today, cluster>>

At(i, step) == boot[i].at = step
Goto(i, step) == boot' = [boot EXCEPT ![i].at = step]
Initialized(i) == boot' = [boot EXCEPT ![i].at = "up", ![i].initialized = TRUE]

\* A plausible mistake: the template is left to the operators.
skipIndexTemplate(i) ==
  /\ At(i, "template")
  /\ Goto(i, "policy")
  /\ UNCHANGED <<today, cluster, mishaps>>

createIndexTemplate(i) ==
  /\ At(i, "template")
  /\ cluster' = [cluster EXCEPT !.template = TRUE]
  /\ Goto(i, "policy")
  /\ UNCHANGED <<today, mishaps>>

\* Creates or updates; a conflict with another instance counts as success.
createISMPolicy(i) ==
  /\ At(i, "policy")
  /\ cluster' = [cluster EXCEPT !.policy = TRUE]
  /\ Goto(i, "exists")
  /\ UNCHANGED <<today, mishaps>>

\* createInitialIndex names the index, and has nothing to do when it exists.
FindIndex(i) ==
  /\ At(i, "exists")
  /\ today \in cluster.indices
  /\ Initialized(i)
  /\ UNCHANGED <<today, cluster, mishaps>>

MissIndex(i) ==
  /\ At(i, "exists")
  /\ today \notin cluster.indices
  /\ boot' = [boot EXCEPT ![i].at = "create", ![i].day = today]
  /\ UNCHANGED <<today, cluster, mishaps>>

\* The index has the mappings of the template there is when it is created.
WithIndex(day) ==
  [cluster EXCEPT !.indices = @ \cup {day},
                  !.unmapped = IF cluster.template THEN @ ELSE @ \cup {day}]

\* A plausible mistake: the alias is left for later.
CreateIndexOnly(i) ==
  /\ At(i, "create")
  /\ boot[i].day \notin cluster.indices
  /\ cluster' = WithIndex(boot[i].day)
  /\ Initialized(i)
  /\ UNCHANGED <<today, mishaps>>

CreateIndex(i) ==
  /\ At(i, "create")
  /\ boot[i].day \notin cluster.indices
  /\ cluster' = WithIndex(boot[i].day)
  /\ Goto(i, "alias")
  /\ UNCHANGED <<today, mishaps>>

\* Another instance was faster.
IndexExists(i) ==
  /\ At(i, "create")
  /\ boot[i].day \in cluster.indices
  /\ Goto(i, "up")
  /\ UNCHANGED <<today, cluster, mishaps>>

WithAlias(day) == [cluster EXCEPT !.alias = day]

\* One request takes the alias from every index and gives it to the new one;
\* an alias cannot have the name of an index.
MoveAlias(i) ==
  /\ At(i, "alias")
  /\ ~cluster.plain
  /\ cluster' = WithAlias(boot[i].day)
  /\ Initialized(i)
  /\ UNCHANGED <<today, mishaps>>

\* A step fails: OpenSearch refused it, or did it and the answer was lost.
StepFails(i) ==
  /\ boot[i].at \in {"template", "policy", "exists", "create", "alias"}
  /\ \/ /\ UNCHANGED cluster
        /\ mishaps' = [template |-> mishaps.template \/ At(i, "template"),
                       torn |-> mishaps.torn \/ At(i, "alias")]
     \/ /\ \/ At(i, "template") /\ cluster' = [cluster EXCEPT !.template = TRUE]
           \/ At(i, "policy") /\ cluster' = [cluster EXCEPT !.policy = TRUE]
           \/ /\ At(i, "create") /\ boot[i].day \notin cluster.indices
              /\ cluster' = WithIndex(boot[i].day)
           \/ At(i, "alias") /\ ~cluster.plain /\ cluster' = WithAlias(boot[i].day)
        /\ mishaps' = [mishaps EXCEPT !.torn = @ \/ At(i, "create")]
  /\ Goto(i, "up")
  /\ UNCHANGED today

\* An instance crashes or is stopped, at any step.
StopInstance(i) ==
  /\ boot[i].at # "down"
  /\ boot' = [boot EXCEPT ![i] = Down(@.starts)]
  /\ mishaps' = [mishaps EXCEPT !.torn = @ \/ At(i, "alias")]
  /\ UNCHANGED <<today, cluster>>

\* A serving instance writes events: to the alias' index, or to an index that
\* OpenSearch creates with the alias' name, which matches the template.
BulkWrite(i) ==
  /\ At(i, "up")
  /\ cluster.alias = NoDay /\ ~cluster.plain
  /\ cluster' = [cluster EXCEPT !.plain = TRUE, !.unmappedPlain = ~cluster.template]
  /\ UNCHANGED <<today, boot, mishaps>>

BootNext ==
  \/ Midnight
  \/ \E i \in Instances :
       \/ StartInstance(i) \/ createIndexTemplate(i) \/ createISMPolicy(i)
       \/ FindIndex(i) \/ MissIndex(i) \/ CreateIndex(i) \/ IndexExists(i)
       \/ MoveAlias(i) \/ StepFails(i) \/ StopInstance(i) \/ BulkWrite(i)

BootSpec == BootInit /\ [][BootNext]_bootVars

-----------------------------------------------------------------------------
(***************************************************************************)
(* What is checked.                                                        *)
(***************************************************************************)
\* An instance that reports itself initialized has a write alias to write to,
\* although it skips creation when the day's index exists, unless the instance
\* that created that index failed or stopped before the alias, has not come to
\* it yet, or found a plain index in the alias' place (createInitialIndex).
InitializedHasAlias ==
  (\E i \in Instances : boot[i].initialized) /\ cluster.alias = NoDay
  => mishaps.torn \/ \E i \in Instances : At(i, "alias")

\* Events are never stored in an index without the OCSF mappings, through
\* restarts, failed steps and several instances, unless an instance came up
\* without having put the template (Initialize, Ingest).
EventsAreMapped ==
  cluster.unmappedPlain \/ cluster.unmapped # {} => mishaps.template

\* What an initialized instance writes to is an alias over indices with the
\* OCSF mappings, in whatever order the instances took their steps.
BootstrapIsSound == InitializedHasAlias /\ EventsAreMapped
=============================================================================
