---------------------------- MODULE ServicesProofs ----------------------------
(***************************************************************************)
(* Proofs about the smaller services.  They share no state; each section   *)
(* has the inductive invariant of one of them, strong enough for the       *)
(* property its run checks.                                                *)
(***************************************************************************)
EXTENDS HecStats, RateLimiter, DeadLetterFiles, IndexBootstrap, SavedSearches,
        AuditLog, FiniteSetTheorems, FunctionTheorems, TLAPS

-----------------------------------------------------------------------------
(***************************************************************************)
(* The audit log.  The property is inductive once the two counters are     *)
(* known to be numbers; that ValidateHECToken starts no forward is what    *)
(* carries the step in which no client has called.                         *)
(***************************************************************************)
AuditInv ==
  /\ auditCalls \in [AuditActions -> Nat]
  /\ forwarded \in [AuditActions -> Nat]
  /\ NoFeedback

\* What Log starts is at most one forward, of an action that is forwarded.
LEMMA LogForwards ==
  ASSUME AuditInv, NEW a \in AuditActions, Log(a)
  PROVE  /\ forwarded' \in [AuditActions -> Nat]
         /\ \A b \in AuditActions : b # a => forwarded'[b] = forwarded[b]
         /\ forwarded'[a] = IF ShouldForwardToIngest(a) THEN forwarded[a] + 1
                            ELSE forwarded[a]
  BY DEF AuditInv, Log, Plus

\* The counters stay numbers and every forward has a client's call behind it.
THEOREM AuditInvariance == AuditSpec => []AuditInv
<1>1. AuditInit => AuditInv
  BY DEF AuditInit, AuditInv, None, NoFeedback
<1>2. AuditInv /\ [AuditNext]_auditVars => AuditInv'
  <2> SUFFICES ASSUME AuditInv, [AuditNext]_auditVars
               PROVE  AuditInv'
    OBVIOUS
  <2>1. ASSUME NEW a \in ClientActions, ClientCall(a)
        PROVE  AuditInv'
    <3>1. a \in AuditActions
      BY ClientActionsAssumption
    <3>2. Log(a) /\ auditCalls' = [auditCalls EXCEPT ![a] = @ + 1]
      BY <2>1 DEF ClientCall, Plus
    <3> QED
      BY <3>1, <3>2, LogForwards DEF AuditInv, NoFeedback
  <2>2. CASE ValidateHECToken
    <3>1. "hec_token_validate" \in AuditActions
      BY DEF AuditActions
    <3>2. ~ShouldForwardToIngest("hec_token_validate")
      BY DEF ShouldForwardToIngest
    <3>3. UNCHANGED <<forwarded, auditCalls>>
      BY <2>2, <3>2 DEF ValidateHECToken, Log
    <3> QED
      BY <3>3 DEF AuditInv, NoFeedback
  <2>3. CASE IngestChecksToken \/ AnswerExpires \/ UNCHANGED auditVars
    BY <2>3 DEF IngestChecksToken, AnswerExpires, auditVars, AuditInv, NoFeedback
  <2>4. ASSUME NEW a \in ClientActions \cup {"hec_token_validate"}, ForwardEvent(a)
        PROVE  AuditInv'
    BY <2>4 DEF ForwardEvent, AuditInv, NoFeedback
  <2> QED
    BY <2>1, <2>2, <2>3, <2>4 DEF AuditNext
<1> QED
  BY <1>1, <1>2, PTL DEF AuditSpec

\* Forwarding an audit record never makes another record be forwarded: the
\* check of the event's token, which ingest may ask for, is not (models/audit.go).
THEOREM NoFeedbackHolds == AuditSpec => []NoFeedback
  BY AuditInvariance, PTL DEF AuditInv

-----------------------------------------------------------------------------
(***************************************************************************)
(* The preparation of OpenSearch.  That an initialized instance has an     *)
(* alias is not inductive: an instance that finds the day's index skips    *)
(* the alias.  What holds is that an index without an alias has somebody   *)
(* at the alias' step, or was left torn.                                   *)
(***************************************************************************)
BootType ==
  /\ today \in Nat \ {0}
  /\ cluster \in [template : BOOLEAN, policy : BOOLEAN, indices : SUBSET Nat,
                  unmapped : SUBSET Nat, alias : Nat, plain : BOOLEAN,
                  unmappedPlain : BOOLEAN]
  /\ boot \in [Instances ->
       [at : {"down", "template", "policy", "exists", "create", "alias", "up"},
        day : Nat, initialized : BOOLEAN, starts : Nat]]
  /\ mishaps \in [template : BOOLEAN, torn : BOOLEAN]

\* An index without the alias was left torn, or its creator is still at the alias.
IndexHasAlias ==
  cluster.indices # {} /\ cluster.alias = NoDay
  => mishaps.torn \/ \E i \in Instances : At(i, "alias")

\* Whoever reports itself initialized has seen an index or moved the alias.
InitializedSawIndex ==
  \A i \in Instances :
    boot[i].initialized => cluster.indices # {} \/ cluster.alias # NoDay

\* What an instance past a step knows of it.
StepsDone ==
  \A i \in Instances :
    /\ boot[i].at \in {"create", "alias"} => boot[i].day # NoDay
    /\ boot[i].at \in {"policy", "exists", "create", "alias"} => cluster.template
    /\ boot[i].at = "up" => cluster.template \/ mishaps.template

BootInv == BootType /\ IndexHasAlias /\ InitializedSawIndex /\ StepsDone /\ EventsAreMapped

\* The steps that leave the indices, the alias and the template as they are.
\* The moving instance, when it leaves the alias' step, leaves it torn.
LEMMA QuietStep ==
  ASSUME BootInv, NEW i \in Instances,
         NEW r \in [at : {"down", "template", "policy", "exists", "create", "alias", "up"},
                    day : Nat, initialized : BOOLEAN, starts : Nat],
         boot' = [boot EXCEPT ![i] = r],
         today' = today, cluster' = cluster,
         mishaps' \in [template : BOOLEAN, torn : BOOLEAN],
         mishaps.template => mishaps'.template, mishaps.torn => mishaps'.torn,
         At(i, "alias") => mishaps'.torn,
         r.initialized => boot[i].initialized \/ cluster.indices # {},
         r.at \in {"create", "alias"} => r.day # NoDay,
         r.at \in {"policy", "exists", "create", "alias"} => cluster.template,
         r.at = "up" => cluster.template \/ mishaps'.template
  PROVE  BootInv'
<1>1. boot'[i] = r /\ \A j \in Instances : j # i => boot'[j] = boot[j]
  BY DEF BootInv, BootType
<1>2. BootType'
  BY DEF BootInv, BootType
<1>3. IndexHasAlias'
  BY <1>1 DEF BootInv, IndexHasAlias, At
<1>4. InitializedSawIndex'
  BY <1>1 DEF BootInv, InitializedSawIndex
<1>5. StepsDone'
  BY <1>1 DEF BootInv, StepsDone
<1>6. EventsAreMapped'
  BY DEF BootInv, EventsAreMapped
<1> QED
  BY <1>2, <1>3, <1>4, <1>5, <1>6 DEF BootInv

\* The index the instance creates gets the template's mappings; the instance
\* goes on to the alias, or fails and leaves the index torn.
LEMMA IndexStep ==
  ASSUME BootInv, NEW i \in Instances, NEW step \in {"alias", "up"},
         At(i, "create"), cluster' = WithIndex(boot[i].day), Goto(i, step),
         today' = today, mishaps' \in [template : BOOLEAN, torn : BOOLEAN],
         mishaps'.template = mishaps.template, mishaps.torn => mishaps'.torn,
         step = "up" => mishaps'.torn
  PROVE  BootInv'
<1>1. /\ boot'[i].at = step /\ boot'[i].day = boot[i].day
      /\ boot'[i].initialized = boot[i].initialized
      /\ \A j \in Instances : j # i => boot'[j] = boot[j]
  BY DEF BootInv, BootType, Goto
<1>2. cluster.template /\ boot[i].day # NoDay /\ boot[i].day \in Nat
  BY DEF BootInv, BootType, StepsDone, At
<1>3. /\ cluster'.indices = cluster.indices \cup {boot[i].day}
      /\ cluster'.unmapped = cluster.unmapped
      /\ cluster'.alias = cluster.alias /\ cluster'.template = cluster.template
      /\ cluster'.unmappedPlain = cluster.unmappedPlain
  BY <1>2 DEF BootInv, BootType, WithIndex
<1>4. BootType'
  BY <1>2 DEF BootInv, BootType, WithIndex, Goto
<1>5. IndexHasAlias'
  BY <1>1 DEF IndexHasAlias, At
<1>6. InitializedSawIndex'
  BY <1>3 DEF InitializedSawIndex
<1>7. StepsDone'
  BY <1>1, <1>2, <1>3 DEF BootInv, StepsDone
<1>8. EventsAreMapped'
  BY <1>3 DEF BootInv, EventsAreMapped
<1> QED
  BY <1>4, <1>5, <1>6, <1>7, <1>8 DEF BootInv

\* The instance moves the alias to its index, whether it learns of it or not.
LEMMA AliasStep ==
  ASSUME BootInv, NEW i \in Instances, At(i, "alias"),
         cluster' = WithAlias(boot[i].day), Initialized(i) \/ Goto(i, "up"),
         today' = today, mishaps' \in [template : BOOLEAN, torn : BOOLEAN],
         mishaps'.template = mishaps.template
  PROVE  BootInv'
<1>1. /\ boot'[i].at = "up"
      /\ \A j \in Instances : j # i => boot'[j] = boot[j]
  BY DEF BootInv, BootType, Goto, Initialized
<1>2. cluster.template /\ boot[i].day # NoDay /\ boot[i].day \in Nat
  BY DEF BootInv, BootType, StepsDone, At
<1>3. /\ cluster'.alias = boot[i].day
      /\ cluster'.unmapped = cluster.unmapped
      /\ cluster'.template = cluster.template
      /\ cluster'.unmappedPlain = cluster.unmappedPlain
  BY DEF BootInv, BootType, WithAlias
<1>4. BootType'
  BY <1>2 DEF BootInv, BootType, WithAlias, Goto, Initialized
<1>5. IndexHasAlias'
  BY <1>2, <1>3 DEF IndexHasAlias, NoDay
<1>6. InitializedSawIndex'
  BY <1>2, <1>3 DEF InitializedSawIndex, NoDay
<1>7. StepsDone'
  BY <1>1, <1>2, <1>3 DEF BootInv, StepsDone
<1>8. EventsAreMapped'
  BY <1>3 DEF BootInv, EventsAreMapped
<1> QED
  BY <1>4, <1>5, <1>6, <1>7, <1>8 DEF BootInv

\* A step that only puts the template or the policy, from the step before it.
LEMMA PutStep ==
  ASSUME BootInv, NEW i \in Instances,
         NEW step \in {"policy", "exists", "up"}, Goto(i, step),
         \/ At(i, "template") /\ cluster' = [cluster EXCEPT !.template = TRUE]
         \/ At(i, "policy") /\ cluster' = [cluster EXCEPT !.policy = TRUE],
         today' = today, mishaps' = mishaps
  PROVE  BootInv'
<1>1. /\ boot'[i].at = step /\ boot'[i].initialized = boot[i].initialized
      /\ \A j \in Instances : j # i => boot'[j] = boot[j]
  BY DEF BootInv, BootType, Goto
<1>2. /\ cluster'.indices = cluster.indices /\ cluster'.unmapped = cluster.unmapped
      /\ cluster'.alias = cluster.alias /\ cluster'.unmappedPlain = cluster.unmappedPlain
      /\ cluster'.template
  BY DEF BootInv, BootType, StepsDone, At
<1>3. BootType'
  <2>1. cluster' \in [template : BOOLEAN, policy : BOOLEAN, indices : SUBSET Nat,
                      unmapped : SUBSET Nat, alias : Nat, plain : BOOLEAN,
                      unmappedPlain : BOOLEAN]
    BY DEF BootInv, BootType
  <2>2. boot' = [boot EXCEPT ![i].at = step]
    BY DEF Goto
  <2> QED
    BY <2>1, <2>2 DEF BootInv, BootType
<1>4. IndexHasAlias'
  BY <1>1, <1>2 DEF BootInv, IndexHasAlias, At
<1>5. InitializedSawIndex'
  BY <1>1, <1>2 DEF BootInv, InitializedSawIndex
<1>6. StepsDone'
  BY <1>1, <1>2 DEF BootInv, StepsDone
<1>7. EventsAreMapped'
  BY <1>2 DEF BootInv, EventsAreMapped
<1> QED
  BY <1>3, <1>4, <1>5, <1>6, <1>7 DEF BootInv

\* Through the steps of several instances, failures, crashes and midnights, the
\* alias is missing and the template unused only for the reasons given.
THEOREM BootInvariance == BootSpec => []BootInv
<1>1. BootInit => BootInv
  BY DEF BootInit, Down, BootInv, BootType, NoDay, IndexHasAlias, InitializedSawIndex,
         StepsDone, EventsAreMapped
<1>2. BootInv /\ [BootNext]_bootVars => BootInv'
  <2> SUFFICES ASSUME BootInv, [BootNext]_bootVars
               PROVE  BootInv'
    OBVIOUS
  <2>1. CASE Midnight
    BY <2>1 DEF Midnight, BootInv, BootType, IndexHasAlias, InitializedSawIndex, At,
                StepsDone, EventsAreMapped
  <2>2. CASE UNCHANGED bootVars
    BY <2>2 DEF bootVars, BootInv, BootType, IndexHasAlias, InitializedSawIndex, At,
                StepsDone, EventsAreMapped
  <2>3. ASSUME NEW i \in Instances,
               \/ StartInstance(i) \/ createIndexTemplate(i) \/ createISMPolicy(i)
               \/ FindIndex(i) \/ MissIndex(i) \/ CreateIndex(i) \/ IndexExists(i)
               \/ MoveAlias(i) \/ StepFails(i) \/ StopInstance(i) \/ BulkWrite(i)
        PROVE  BootInv'
    <3> DEFINE Boots == [at : {"down", "template", "policy", "exists", "create", "alias", "up"},
                         day : Nat, initialized : BOOLEAN, starts : Nat]
    <3>0. /\ boot[i] \in Boots
          /\ boot[i].at \in {"create", "alias"} => boot[i].day # NoDay
          /\ boot[i].at \in {"policy", "exists", "create", "alias"} => cluster.template
          /\ mishaps \in [template : BOOLEAN, torn : BOOLEAN] /\ today \in Nat \ {0}
          /\ boot \in [Instances -> Boots]
      BY DEF BootInv, BootType, StepsDone
    <3>1. CASE StartInstance(i)
      <4>1. PICK step \in {"template", "up"} :
              /\ boot' = [boot EXCEPT ![i].at = step, ![i].starts = @ + 1]
              /\ step = "template" => mishaps' = mishaps
              /\ step = "up" => mishaps' = [mishaps EXCEPT !.template = TRUE]
        BY <3>1 DEF StartInstance
      <4> DEFINE r == [boot[i] EXCEPT !.at = step, !.starts = @ + 1]
      <4>2. boot' = [boot EXCEPT ![i] = r]
        BY <3>0, <4>1
      <4>3. r \in Boots /\ r.at = step /\ r.initialized = boot[i].initialized
        BY <3>0, <4>1
      <4>4. /\ mishaps' \in [template : BOOLEAN, torn : BOOLEAN]
            /\ mishaps.template => mishaps'.template
            /\ mishaps.torn => mishaps'.torn
            /\ step = "up" => mishaps'.template
        BY <3>0, <4>1
      <4>5. today' = today /\ cluster' = cluster /\ ~At(i, "alias")
        BY <3>1 DEF StartInstance, At
      <4> QED
        BY <4>2, <4>3, <4>4, <4>5, QuietStep
    <3>2. CASE createIndexTemplate(i)
      BY <3>2, PutStep DEF createIndexTemplate
    <3>3. CASE createISMPolicy(i)
      BY <3>3, PutStep DEF createISMPolicy
    <3>4. CASE FindIndex(i)
      <4> DEFINE r == [boot[i] EXCEPT !.at = "up", !.initialized = TRUE]
      <4>1. boot' = [boot EXCEPT ![i] = r]
        BY <3>0, <3>4 DEF FindIndex, Initialized
      <4>2. r \in Boots /\ r.at = "up"
        BY <3>0
      <4>3. /\ today' = today /\ cluster' = cluster /\ mishaps' = mishaps
            /\ cluster.indices # {} /\ ~At(i, "alias") /\ cluster.template
        BY <3>0, <3>4 DEF FindIndex, At
      <4> QED
        BY <3>0, <4>1, <4>2, <4>3, QuietStep
    <3>5. CASE MissIndex(i)
      <4> DEFINE r == [boot[i] EXCEPT !.at = "create", !.day = today]
      <4>1. boot' = [boot EXCEPT ![i] = r]
        BY <3>0, <3>5 DEF MissIndex
      <4>2. r \in Boots /\ r.at = "create" /\ r.day # NoDay
            /\ r.initialized = boot[i].initialized
        BY <3>0 DEF NoDay
      <4>3. /\ today' = today /\ cluster' = cluster /\ mishaps' = mishaps
            /\ ~At(i, "alias") /\ cluster.template
        BY <3>0, <3>5 DEF MissIndex, At
      <4> QED
        BY <3>0, <4>1, <4>2, <4>3, QuietStep
    <3>6. CASE CreateIndex(i)
      BY <3>0, <3>6, IndexStep DEF CreateIndex
    <3>7. CASE IndexExists(i)
      <4> DEFINE r == [boot[i] EXCEPT !.at = "up"]
      <4>1. boot' = [boot EXCEPT ![i] = r]
        BY <3>0, <3>7 DEF IndexExists, Goto
      <4>2. r \in Boots /\ r.at = "up" /\ r.initialized = boot[i].initialized
        BY <3>0
      <4>3. /\ today' = today /\ cluster' = cluster /\ mishaps' = mishaps
            /\ ~At(i, "alias") /\ cluster.template
        BY <3>0, <3>7 DEF IndexExists, At
      <4> QED
        BY <3>0, <4>1, <4>2, <4>3, QuietStep
    <3>8. CASE MoveAlias(i)
      BY <3>0, <3>8, AliasStep DEF MoveAlias
    <3>9. CASE StepFails(i)
      <4>0. Goto(i, "up") /\ today' = today
        BY <3>9 DEF StepFails
      <4>1. CASE /\ cluster' = cluster
                 /\ mishaps' = [template |-> mishaps.template \/ At(i, "template"),
                                torn |-> mishaps.torn \/ At(i, "alias")]
        <5> DEFINE r == [boot[i] EXCEPT !.at = "up"]
        <5>1. boot' = [boot EXCEPT ![i] = r]
          BY <3>0, <4>0 DEF Goto
        <5>2. r \in Boots /\ r.at = "up" /\ r.initialized = boot[i].initialized
          BY <3>0
        <5>3. /\ mishaps' \in [template : BOOLEAN, torn : BOOLEAN]
              /\ mishaps.template => mishaps'.template
              /\ mishaps.torn => mishaps'.torn
              /\ At(i, "alias") => mishaps'.torn
              /\ At(i, "template") => mishaps'.template
          BY <3>0, <4>1 DEF At
        <5>4. cluster.template \/ mishaps'.template
          BY <3>0, <3>9, <5>3 DEF StepFails, At
        <5> QED
          BY <4>0, <4>1, <5>1, <5>2, <5>3, <5>4, QuietStep
      <4>2. CASE /\ \/ At(i, "template") /\ cluster' = [cluster EXCEPT !.template = TRUE]
                    \/ At(i, "policy") /\ cluster' = [cluster EXCEPT !.policy = TRUE]
                 /\ mishaps' = [mishaps EXCEPT !.torn = @ \/ At(i, "create")]
        <5>1. ~At(i, "create")
          BY <4>2 DEF At
        <5>2. mishaps' = mishaps
          BY <3>0, <4>2, <5>1
        <5> QED
          BY <4>0, <4>2, <5>2, PutStep
      <4>3. CASE /\ At(i, "create") /\ cluster' = WithIndex(boot[i].day)
                 /\ mishaps' = [mishaps EXCEPT !.torn = @ \/ At(i, "create")]
        <5>1. /\ mishaps' \in [template : BOOLEAN, torn : BOOLEAN]
              /\ mishaps'.template = mishaps.template /\ mishaps'.torn
          BY <3>0, <4>3
        <5> QED
          BY <4>0, <4>3, <5>1, IndexStep
      <4>4. CASE /\ At(i, "alias") /\ cluster' = WithAlias(boot[i].day)
                 /\ mishaps' = [mishaps EXCEPT !.torn = @ \/ At(i, "create")]
        <5>1. /\ mishaps' \in [template : BOOLEAN, torn : BOOLEAN]
              /\ mishaps'.template = mishaps.template
          BY <3>0, <4>4 DEF At
        <5> QED
          BY <4>0, <4>4, <5>1, AliasStep
      <4> QED
        BY <3>9, <4>1, <4>2, <4>3, <4>4 DEF StepFails
    <3>10. CASE StopInstance(i)
      <4> DEFINE r == Down(boot[i].starts)
      <4>1. boot' = [boot EXCEPT ![i] = r]
        BY <3>0, <3>10 DEF StopInstance
      <4>2. r \in Boots /\ r.at = "down" /\ ~r.initialized
        BY <3>0 DEF Down, NoDay
      <4>3. /\ mishaps' \in [template : BOOLEAN, torn : BOOLEAN]
            /\ mishaps'.template = mishaps.template
            /\ mishaps.torn => mishaps'.torn
            /\ At(i, "alias") => mishaps'.torn
        BY <3>0, <3>10 DEF StopInstance, At
      <4>4. today' = today /\ cluster' = cluster
        BY <3>10 DEF StopInstance
      <4> QED
        BY <4>1, <4>2, <4>3, <4>4, QuietStep
    <3>11. CASE BulkWrite(i)
      <4>1. /\ UNCHANGED <<today, boot, mishaps>>
            /\ cluster' = [cluster EXCEPT !.plain = TRUE, !.unmappedPlain = ~cluster.template]
            /\ cluster.template \/ mishaps.template
        BY <3>11 DEF BulkWrite, At, BootInv, StepsDone
      <4>2. /\ cluster'.indices = cluster.indices /\ cluster'.unmapped = cluster.unmapped
            /\ cluster'.alias = cluster.alias /\ cluster'.template = cluster.template
            /\ cluster'.unmappedPlain = ~cluster.template
        BY <4>1 DEF BootInv, BootType
      <4>3. BootType'
        BY <4>1 DEF BootInv, BootType
      <4>4. IndexHasAlias' /\ InitializedSawIndex' /\ StepsDone'
        BY <4>1, <4>2 DEF BootInv, IndexHasAlias, InitializedSawIndex, StepsDone, At
      <4>5. EventsAreMapped'
        BY <4>1, <4>2 DEF BootInv, EventsAreMapped
      <4> QED
        BY <4>3, <4>4, <4>5 DEF BootInv
    <3> QED
      BY <2>3, <3>1, <3>2, <3>3, <3>4, <3>5, <3>6, <3>7, <3>8, <3>9, <3>10, <3>11
  <2> QED
    BY <2>1, <2>2, <2>3 DEF BootNext
<1> QED
  BY <1>1, <1>2, PTL DEF BootSpec

\* An initialized instance has a write alias, over indices with the OCSF
\* mappings, unless a step is known to have failed (Initialize, createInitialIndex).
THEOREM BootstrapIsSoundHolds == BootSpec => []BootstrapIsSound
<1>1. BootInv => BootstrapIsSound
  BY DEF BootInv, IndexHasAlias, InitializedSawIndex, BootstrapIsSound, InitializedHasAlias
<1> QED
  BY <1>1, BootInvariance, PTL

-----------------------------------------------------------------------------
(***************************************************************************)
(* HEC usage statistics.  A swap replaces the batches being flushed, so    *)
(* nothing may be left in them while the loop waits; and a batch without   *)
(* events has no addresses, so that dropping it loses none.                *)
(***************************************************************************)
Batches ==
  [count : Nat, ips : SUBSET Addresses, last : Addresses \cup {NoAddress}]

HecStatsType ==
  /\ batches \in [HecTokens -> Batches]
  /\ flushing \in [HecTokens -> Batches]
  /\ flusher \in {"waiting", "flushing", "final", "stopped"}
  /\ usage \in [HecTokens -> [total : Nat, hourly : Nat, ips : SUBSET Addresses,
                              last : Addresses \cup {NoAddress}]]
  /\ counted \in [HecTokens -> [recorded : Nat, ips : SUBSET Addresses, againTotal : Nat,
                                againHourly : Nat, failures : Nat, left : BOOLEAN]]

\* A batch without events has no addresses.
EmptyHasNoAddress ==
  \A t \in HecTokens : /\ batches[t].count = 0 => batches[t].ips = {}
                       /\ flushing[t].count = 0 => flushing[t].ips = {}

\* Between flushes nothing is under way; after the last swap, what is recorded
\* or put back is known to be left.
NothingUnderWay ==
  /\ flusher \in {"waiting", "stopped"} => \A t \in HecTokens : flushing[t].count = 0
  /\ flusher \in {"final", "stopped"} =>
       \A t \in HecTokens : batches[t].count > 0 => counted[t].left

HecStatsInv == HecStatsType /\ EmptyHasNoAddress /\ NothingUnderWay /\ CountsAddUp

\* The sums of one token.
Sums(b, f, u, c) ==
  /\ u.total + (b.count + f.count) = c.recorded + c.againTotal
  /\ u.hourly + (b.count + f.count) = c.recorded + c.againHourly
  /\ u.ips \cup b.ips \cup f.ips = c.ips

\* The property is the sums of every token.
LEMMA SumsOfTokens ==
  CountsAddUp <=> \A t \in HecTokens : Sums(batches[t], flushing[t], usage[t], counted[t])
  BY DEF CountsAddUp, Sums

\* A swap moves the batches and keeps the sums, since nothing is under way.
LEMMA SwapKeeps ==
  ASSUME HecStatsInv, flusher = "waiting", Swap, flusher' \in {"flushing", "final"}
  PROVE  HecStatsInv'
<1>1. HecStatsType'
  BY DEF HecStatsInv, HecStatsType, Swap, NoBatches, NewBatchUpdate, Batches
<1>2. EmptyHasNoAddress' /\ NothingUnderWay'
  BY DEF HecStatsInv, HecStatsType, Swap, NoBatches, NewBatchUpdate, EmptyHasNoAddress,
         NothingUnderWay
<1>3. ASSUME NEW t \in HecTokens
      PROVE  Sums(batches[t], flushing[t], usage[t], counted[t])'
  <2>1. flushing[t].count = 0 /\ flushing[t].ips = {}
    BY DEF HecStatsInv, NothingUnderWay, EmptyHasNoAddress
  <2>2. batches'[t].count = 0 /\ batches'[t].ips = {}
    BY DEF Swap, NoBatches, NewBatchUpdate
  <2>3. /\ flushing'[t] = batches[t]
        /\ usage'[t] = usage[t] /\ counted'[t] = counted[t]
        /\ batches[t].count \in Nat
    BY DEF Swap, HecStatsInv, HecStatsType, Batches
  <2>4. Sums(batches[t], flushing[t], usage[t], counted[t])
    BY SumsOfTokens DEF HecStatsInv
  <2> QED
    BY <2>1, <2>2, <2>3, <2>4 DEF Sums
<1>4. CountsAddUp'
  BY <1>3 DEF CountsAddUp, Sums
<1> QED
  BY <1>1, <1>2, <1>4 DEF HecStatsInv

\* A step that concerns one token keeps what holds of the others.
LEMMA OneTokenMoves ==
  ASSUME HecStatsInv, NEW t \in HecTokens, HecStatsType', flusher' = flusher,
         \A s \in HecTokens \ {t} :
           /\ batches'[s] = batches[s] /\ flushing'[s] = flushing[s]
           /\ usage'[s] = usage[s] /\ counted'[s] = counted[s],
         batches'[t].count = 0 => batches'[t].ips = {},
         flushing'[t].count = 0 => flushing'[t].ips = {},
         flusher \in {"waiting", "stopped"} => flushing'[t].count = 0,
         flusher \in {"final", "stopped"} /\ batches'[t].count > 0 => counted'[t].left,
         Sums(batches'[t], flushing'[t], usage'[t], counted'[t])
  PROVE  HecStatsInv'
<1>1. EmptyHasNoAddress'
  BY DEF HecStatsInv, EmptyHasNoAddress
<1>2. NothingUnderWay'
  BY DEF HecStatsInv, NothingUnderWay
<1>3. CountsAddUp'
  <2>1. \A s \in HecTokens : Sums(batches[s], flushing[s], usage[s], counted[s])
    BY SumsOfTokens DEF HecStatsInv
  <2>2. \A s \in HecTokens : Sums(batches'[s], flushing'[s], usage'[s], counted'[s])
    BY <2>1
  <2> QED
    BY <2>2 DEF CountsAddUp, Sums
<1> QED
  BY <1>1, <1>2, <1>3 DEF HecStatsInv

\* What is recorded, under way, written and written twice adds up at every step.
THEOREM HecStatsInvariance == HecStatsSpec => []HecStatsInv
<1>1. HecStatsInit => HecStatsInv
  <2> SUFFICES ASSUME HecStatsInit
               PROVE  HecStatsInv
    OBVIOUS
  <2>1. HecStatsType
    BY DEF HecStatsInit, HecStatsType, NoBatches, NewBatchUpdate, Batches
  <2>2. EmptyHasNoAddress /\ NothingUnderWay
    BY DEF HecStatsInit, NoBatches, NewBatchUpdate, EmptyHasNoAddress, NothingUnderWay
  <2>3. CountsAddUp
    BY DEF HecStatsInit, NoBatches, NewBatchUpdate, CountsAddUp
  <2> QED
    BY <2>1, <2>2, <2>3 DEF HecStatsInv
<1>2. HecStatsInv /\ [HecStatsNext]_hecStatsVars => HecStatsInv'
  <2> SUFFICES ASSUME HecStatsInv, [HecStatsNext]_hecStatsVars
               PROVE  HecStatsInv'
    OBVIOUS
  <2>1. CASE StartFlush \/ FinalFlush
    BY <2>1, SwapKeeps DEF StartFlush, FinalFlush
  <2>2. CASE EndFlush
    <3>1. HecStatsType'
      BY <2>2 DEF EndFlush, HecStatsInv, HecStatsType
    <3>2. EmptyHasNoAddress' /\ CountsAddUp'
      BY <2>2 DEF EndFlush, HecStatsInv, EmptyHasNoAddress, CountsAddUp
    <3>3. NothingUnderWay'
      BY <2>2 DEF EndFlush, HecStatsInv, NothingUnderWay
    <3> QED
      BY <3>1, <3>2, <3>3 DEF HecStatsInv
  <2>3. CASE UNCHANGED hecStatsVars
    BY <2>3 DEF hecStatsVars, HecStatsInv, HecStatsType, EmptyHasNoAddress,
                NothingUnderWay, CountsAddUp
  <2>4. ASSUME NEW t \in HecTokens,
               \/ FlushBatch(t) \/ FlushFails(t)
               \/ \E ip \in Addresses \cup {NoAddress} : Record(t, ip)
        PROVE  HecStatsInv'
    <3>0. /\ batches[t] \in Batches /\ flushing[t] \in Batches
          /\ usage[t] \in [total : Nat, hourly : Nat, ips : SUBSET Addresses,
                           last : Addresses \cup {NoAddress}]
          /\ counted[t] \in [recorded : Nat, ips : SUBSET Addresses, againTotal : Nat,
                             againHourly : Nat, failures : Nat, left : BOOLEAN]
          /\ batches[t].count = 0 => batches[t].ips = {}
          /\ flushing[t].count = 0 => flushing[t].ips = {}
          /\ flusher \in {"waiting", "stopped"} => flushing[t].count = 0
          /\ flusher \in {"final", "stopped"} /\ batches[t].count > 0 => counted[t].left
          /\ Sums(batches[t], flushing[t], usage[t], counted[t])
      BY SumsOfTokens DEF HecStatsInv, HecStatsType, EmptyHasNoAddress, NothingUnderWay
    <3>1. ASSUME NEW ip \in Addresses \cup {NoAddress}, Record(t, ip)
          PROVE  HecStatsInv'
      <4> DEFINE b == [count |-> batches[t].count + 1,
                       ips |-> IF ip = NoAddress THEN batches[t].ips
                               ELSE batches[t].ips \cup {ip},
                       last |-> IF ip = NoAddress THEN batches[t].last ELSE ip]
                 c == [counted[t] EXCEPT
                         !.recorded = @ + 1, !.ips = @ \cup ({ip} \ {NoAddress}),
                         !.left = @ \/ flusher \in {"final", "stopped"}]
      <4>1. /\ batches' = [batches EXCEPT ![t] = b]
            /\ counted' = [counted EXCEPT ![t] = c]
            /\ UNCHANGED <<flushing, flusher, usage>>
        BY <3>1 DEF Record, HecStatsInv, HecStatsType
      <4>2. b \in Batches
        BY <3>0 DEF Batches
      <4>3. /\ c \in [recorded : Nat, ips : SUBSET Addresses, againTotal : Nat,
                      againHourly : Nat, failures : Nat, left : BOOLEAN]
            /\ c.recorded = counted[t].recorded + 1
            /\ c.ips = counted[t].ips \cup ({ip} \ {NoAddress})
            /\ c.againTotal = counted[t].againTotal /\ c.againHourly = counted[t].againHourly
            /\ flusher \in {"final", "stopped"} => c.left
        <5>1. /\ c.recorded = counted[t].recorded + 1
              /\ c.ips = counted[t].ips \cup ({ip} \ {NoAddress})
              /\ c.againTotal = counted[t].againTotal /\ c.againHourly = counted[t].againHourly
              /\ c.left = (counted[t].left \/ flusher \in {"final", "stopped"})
          BY <3>0
        <5>2. c \in [recorded : Nat, ips : SUBSET Addresses, againTotal : Nat,
                     againHourly : Nat, failures : Nat, left : BOOLEAN]
          <6>1. counted[t] \in [recorded : Nat, ips : SUBSET Addresses, againTotal : Nat,
                               againHourly : Nat, failures : Nat, left : BOOLEAN]
            BY <3>0
          <6>2. PICK l \in BOOLEAN : l = (counted[t].left \/ flusher \in {"final", "stopped"})
            OBVIOUS
          <6>3. PICK k \in Nat : k = counted[t].recorded + 1
            BY <6>1
          <6>4. PICK ips \in SUBSET Addresses :
                  ips = counted[t].ips \cup ({ip} \ {NoAddress})
            BY <6>1
          <6>5. c = [counted[t] EXCEPT !.recorded = k, !.ips = ips, !.left = l]
            BY <6>2, <6>3, <6>4
          <6> HIDE DEF c
          <6> QED
            BY <6>1, <6>5
        <5> QED
          BY <5>1, <5>2
      <4>4. HecStatsType'
        BY <4>1, <4>2, <4>3 DEF HecStatsInv, HecStatsType
      <4>5. /\ batches'[t] = b /\ counted'[t] = c
            /\ \A s \in HecTokens \ {t} : batches'[s] = batches[s] /\ counted'[s] = counted[s]
        BY <4>1 DEF HecStatsInv, HecStatsType
      <4>6. b.count = batches[t].count + 1 /\ b.ips = batches[t].ips \cup ({ip} \ {NoAddress})
        BY <3>0
      <4>7. Sums(b, flushing[t], usage[t], c)
        <5>1. /\ batches[t].count \in Nat /\ flushing[t].count \in Nat
              /\ usage[t].total \in Nat /\ usage[t].hourly \in Nat
              /\ counted[t].recorded \in Nat /\ counted[t].againTotal \in Nat
              /\ counted[t].againHourly \in Nat
          BY <3>0 DEF Batches
        <5>2. /\ usage[t].total + (b.count + flushing[t].count) = c.recorded + c.againTotal
              /\ usage[t].hourly + (b.count + flushing[t].count) = c.recorded + c.againHourly
          BY <3>0, <4>3, <4>6, <5>1 DEF Sums
        <5>3. usage[t].ips \cup b.ips \cup flushing[t].ips = c.ips
          BY <3>0, <4>3, <4>6 DEF Sums
        <5> QED
          BY <5>2, <5>3 DEF Sums
      <4>8. b.count # 0
        BY <3>0, <4>6 DEF Batches
      <4> QED
        <5> HIDE DEF b, c
        <5> QED
          BY <3>0, <4>1, <4>3, <4>4, <4>5, <4>7, <4>8, OneTokenMoves
    <3>2. CASE FlushBatch(t)
      <4> DEFINE u == Applied(usage[t], flushing[t], 4)
      <4>1. /\ usage' = [usage EXCEPT ![t] = u]
            /\ flushing' = [flushing EXCEPT ![t] = NewBatchUpdate]
            /\ UNCHANGED <<batches, flusher, counted>> /\ flushing[t].count > 0
        BY <3>2 DEF FlushBatch, HecStatsInv, HecStatsType
      <4>2. /\ u \in [total : Nat, hourly : Nat, ips : SUBSET Addresses,
                      last : Addresses \cup {NoAddress}]
            /\ u.total = usage[t].total + flushing[t].count
            /\ u.hourly = usage[t].hourly + flushing[t].count
            /\ u.ips = usage[t].ips \cup flushing[t].ips
        BY <3>0 DEF Applied, Batches
      <4>3. /\ NewBatchUpdate \in Batches /\ NewBatchUpdate.count = 0
            /\ NewBatchUpdate.ips = {}
        BY DEF NewBatchUpdate, Batches
      <4>4. HecStatsType'
        BY <4>1, <4>2, <4>3 DEF HecStatsInv, HecStatsType
      <4>5. /\ usage'[t] = u /\ flushing'[t] = NewBatchUpdate
            /\ \A s \in HecTokens \ {t} : usage'[s] = usage[s] /\ flushing'[s] = flushing[s]
        BY <4>1 DEF HecStatsInv, HecStatsType
      <4>6. Sums(batches[t], NewBatchUpdate, u, counted[t])
        <5>1. /\ batches[t].count \in Nat /\ flushing[t].count \in Nat
              /\ usage[t].total \in Nat /\ usage[t].hourly \in Nat
          BY <3>0 DEF Batches
        <5> HIDE DEF u
        <5> QED
          BY <3>0, <4>2, <4>3, <5>1 DEF Sums
      <4> QED
        <5> HIDE DEF u
        <5> QED
          BY <3>0, <4>1, <4>3, <4>4, <4>5, <4>6, OneTokenMoves
    <3>3. CASE FlushFails(t)
      <4>1. PICK n \in 0 .. 4 :
              /\ usage' = [usage EXCEPT ![t] = Applied(@, flushing[t], n)]
              /\ counted' = [counted EXCEPT
                   ![t].failures = @ + 1,
                   ![t].againTotal = @ + (IF n >= 2 THEN flushing[t].count ELSE 0),
                   ![t].againHourly = @ + (IF n >= 3 THEN flushing[t].count ELSE 0),
                   ![t].left = @ \/ flusher = "final"]
        BY <3>3 DEF FlushFails
      <4> DEFINE u == Applied(usage[t], flushing[t], n)
                 b == Merge(batches[t], flushing[t])
                 c == [counted[t] EXCEPT
                         !.failures = @ + 1,
                         !.againTotal = @ + (IF n >= 2 THEN flushing[t].count ELSE 0),
                         !.againHourly = @ + (IF n >= 3 THEN flushing[t].count ELSE 0),
                         !.left = @ \/ flusher = "final"]
      <4>2. /\ usage' = [usage EXCEPT ![t] = u]
            /\ counted' = [counted EXCEPT ![t] = c]
        BY <4>1 DEF HecStatsInv, HecStatsType
      <4>3. /\ batches' = [batches EXCEPT ![t] = b]
            /\ flushing' = [flushing EXCEPT ![t] = NewBatchUpdate]
            /\ flusher' = flusher /\ flushing[t].count > 0
        BY <3>3 DEF FlushFails, HecStatsInv, HecStatsType
      <4>4. /\ u \in [total : Nat, hourly : Nat, ips : SUBSET Addresses,
                      last : Addresses \cup {NoAddress}]
            /\ u.total = usage[t].total + (IF n >= 2 THEN flushing[t].count ELSE 0)
            /\ u.hourly = usage[t].hourly + (IF n >= 3 THEN flushing[t].count ELSE 0)
            /\ u.ips \in {usage[t].ips, usage[t].ips \cup flushing[t].ips}
        BY <3>0 DEF Applied, Batches
      <4>5. /\ b \in Batches /\ b.count = batches[t].count + flushing[t].count
            /\ b.ips = batches[t].ips \cup flushing[t].ips
        BY <3>0 DEF Merge, Batches
      <4>6. /\ c \in [recorded : Nat, ips : SUBSET Addresses, againTotal : Nat,
                      againHourly : Nat, failures : Nat, left : BOOLEAN]
            /\ c.recorded = counted[t].recorded /\ c.ips = counted[t].ips
            /\ c.againTotal = counted[t].againTotal
                              + (IF n >= 2 THEN flushing[t].count ELSE 0)
            /\ c.againHourly = counted[t].againHourly
                               + (IF n >= 3 THEN flushing[t].count ELSE 0)
            /\ flusher = "final" => c.left
        <5>0. flushing[t].count \in Nat
          BY <3>0 DEF Batches
        <5>1. /\ c.recorded = counted[t].recorded /\ c.ips = counted[t].ips
              /\ c.againTotal = counted[t].againTotal
                                + (IF n >= 2 THEN flushing[t].count ELSE 0)
              /\ c.againHourly = counted[t].againHourly
                                 + (IF n >= 3 THEN flushing[t].count ELSE 0)
              /\ c.left = (counted[t].left \/ flusher = "final")
          BY <3>0
        <5>2. c \in [recorded : Nat, ips : SUBSET Addresses, againTotal : Nat,
                     againHourly : Nat, failures : Nat, left : BOOLEAN]
          <6>1. counted[t] \in [recorded : Nat, ips : SUBSET Addresses, againTotal : Nat,
                               againHourly : Nat, failures : Nat, left : BOOLEAN]
            BY <3>0
          <6>2. PICK l \in BOOLEAN : l = (counted[t].left \/ flusher = "final")
            OBVIOUS
          <6>3. PICK k \in Nat : k = counted[t].failures + 1
            BY <6>1
          <6>4. PICK x \in Nat :
                  x = counted[t].againTotal + (IF n >= 2 THEN flushing[t].count ELSE 0)
            BY <5>0, <6>1
          <6>5. PICK y \in Nat :
                  y = counted[t].againHourly + (IF n >= 3 THEN flushing[t].count ELSE 0)
            BY <5>0, <6>1
          <6>6. c = [counted[t] EXCEPT !.failures = k, !.againTotal = x, !.againHourly = y,
                                       !.left = l]
            BY <6>2, <6>3, <6>4, <6>5
          <6> HIDE DEF c
          <6> QED
            BY <6>1, <6>6
        <5> QED
          BY <5>1, <5>2
      <4>7. /\ NewBatchUpdate \in Batches /\ NewBatchUpdate.count = 0
            /\ NewBatchUpdate.ips = {}
        BY DEF NewBatchUpdate, Batches
      <4> HIDE DEF u, b, c
      <4>8. HecStatsType'
        BY <4>2, <4>3, <4>4, <4>5, <4>6, <4>7 DEF HecStatsInv, HecStatsType
      <4>9. /\ usage'[t] = u /\ flushing'[t] = NewBatchUpdate
            /\ batches'[t] = b /\ counted'[t] = c
            /\ \A s \in HecTokens \ {t} :
                 /\ usage'[s] = usage[s] /\ flushing'[s] = flushing[s]
                 /\ batches'[s] = batches[s] /\ counted'[s] = counted[s]
        BY <4>2, <4>3 DEF HecStatsInv, HecStatsType
      <4>10. Sums(b, NewBatchUpdate, u, c)
        <5>1. /\ batches[t].count \in Nat /\ flushing[t].count \in Nat
              /\ usage[t].total \in Nat /\ usage[t].hourly \in Nat
              /\ counted[t].recorded \in Nat /\ counted[t].againTotal \in Nat
              /\ counted[t].againHourly \in Nat
          BY <3>0 DEF Batches
        <5>2. /\ u.total + (b.count + NewBatchUpdate.count) = c.recorded + c.againTotal
              /\ u.hourly + (b.count + NewBatchUpdate.count) = c.recorded + c.againHourly
          BY <3>0, <4>4, <4>5, <4>6, <4>7, <5>1 DEF Sums
        <5>3. u.ips \cup b.ips \cup NewBatchUpdate.ips = c.ips
          BY <3>0, <4>4, <4>5, <4>6, <4>7 DEF Sums
        <5> QED
          BY <5>2, <5>3 DEF Sums
      <4>11. b.count # 0 /\ flusher \notin {"waiting", "stopped"}
        BY <3>0, <4>3, <4>5 DEF Batches
      <4> QED
        BY <3>0, <4>3, <4>6, <4>7, <4>8, <4>9, <4>10, <4>11, OneTokenMoves
    <3> QED
      BY <2>4, <3>1, <3>2, <3>3
  <2> QED
    BY <2>1, <2>2, <2>3, <2>4 DEF HecStatsNext
<1> QED
  BY <1>1, <1>2, PTL DEF HecStatsSpec

\* No event recorded for a token is lost, and none is counted twice unless a
\* failed write had applied its increment; and what Stop leaves unwritten was
\* recorded too late or failed (Record, flush, FlushBatch, Stop).
THEOREM UsageIsConservedHolds == HecStatsSpec => []UsageIsConserved
<1>1. HecStatsInv => UsageIsConserved
  BY DEF HecStatsInv, NothingUnderWay, UsageIsConserved, StopFlushes
<1> QED
  BY <1>1, HecStatsInvariance, PTL

-----------------------------------------------------------------------------
(***************************************************************************)
(* The dead-letter queue.  That an entry is listed is not inductive: its   *)
(* file must also be one that the next write does not truncate, so it is   *)
(* of an earlier second or below the counter.                              *)
(***************************************************************************)
DlqType ==
  /\ second \in Nat /\ written \in Nat
  /\ files \subseteq [second : Nat, counter : Nat, entry : Nat]
  /\ dead \subseteq [number : Nat \ {0}, second : Nat, removed : BOOLEAN]
  /\ IsFiniteSet(dead)

\* File f is that of the entry, and its name is not given again.
HasFile(e, f) ==
  /\ f.entry = e.number /\ f.second = e.second
  /\ f.second = second => f.counter < written

Kept(e) ==
  \/ e.removed \/ e.second \in restarts
  \/ \E f \in files : HasFile(e, f)

DlqInv == DlqType /\ \A e \in dead : e.second <= second /\ Kept(e)

\* A write, whole or torn, spares the file of every other entry.
LEMMA WriteSpares ==
  ASSUME DlqInv, NEW e \in dead, NEW f \in files, HasFile(e, f), NEW n \in Nat
  PROVE  f \in WithFile(File(n))
  BY DEF DlqInv, DlqType, HasFile, WithFile, File

\* The file written is one of the names.
LEMMA WriteTypes ==
  ASSUME DlqType, NEW n \in Nat
  PROVE  /\ WithFile(File(n)) \subseteq [second : Nat, counter : Nat, entry : Nat]
         /\ File(n) \in WithFile(File(n))
  BY DEF DlqType, WithFile, File

\* Marking entries as removed leaves finitely many.
LEMMA MarkedIsFinite ==
  ASSUME IsFiniteSet(dead), NEW removed
  PROVE  IsFiniteSet({IF \E f \in removed : f.entry = e.number
                      THEN [e EXCEPT !.removed = TRUE] ELSE e : e \in dead})
<1> DEFINE Marked(e) == IF \E f \in removed : f.entry = e.number
                        THEN [e EXCEPT !.removed = TRUE] ELSE e
           T == {Marked(e) : e \in dead}
           m == [e \in dead |-> Marked(e)]
<1>1. m \in [dead -> T] /\ \A x \in T : \E e \in dead : m[e] = x
  <2> HIDE DEF Marked
  <2> QED
    OBVIOUS
<1>2. m \in Surjection(dead, T)
  BY <1>1, Fun_IsSurj
<1> QED
  BY <1>2, FS_Surjection

\* Every entry that nobody removed, and whose second saw no restart, keeps its
\* file through writes, torn writes, removals, restarts and the clock.
THEOREM DlqInvariance == DlqSpec => []DlqInv
<1>1. DlqInit => DlqInv
  BY FS_EmptySet DEF DlqInit, DlqInv, DlqType
<1>2. DlqInv /\ [DlqNext]_dlqVars => DlqInv'
  <2> SUFFICES ASSUME DlqInv, [DlqNext]_dlqVars
               PROVE  DlqInv'
    OBVIOUS
  <2>1. CASE Write
    <3>1. PICK n \in Nat \ {0} : n = Cardinality(dead) + 1
      BY FS_CardinalityType DEF DlqInv, DlqType
    <3>2. /\ files' = WithFile(File(n)) /\ dead' = dead \cup {Entry(n)}
          /\ written' = written + 1 /\ second' = second /\ restarts' = restarts
      BY <2>1, <3>1 DEF Write
    <3>3. Entry(n) \in [number : Nat \ {0}, second : Nat, removed : BOOLEAN]
          /\ Entry(n).number = n /\ Entry(n).second = second
      BY DEF Entry, DlqInv, DlqType
    <3>4. DlqType'
      <4>1. DlqType
        BY DEF DlqInv
      <4>2. files' \subseteq [second : Nat, counter : Nat, entry : Nat]
        BY <3>2, <4>1, WriteTypes
      <4>3. IsFiniteSet(dead')
        BY <3>2, <4>1, FS_AddElement DEF DlqType
      <4>4. dead' \subseteq [number : Nat \ {0}, second : Nat, removed : BOOLEAN]
        BY <3>2, <3>3, <4>1 DEF DlqType
      <4> QED
        BY <3>2, <4>1, <4>2, <4>3, <4>4 DEF DlqType
    <3>5. ASSUME NEW e \in dead
          PROVE  e.second <= second' /\ Kept(e)'
      <4>1. e.second <= second /\ Kept(e)
        BY DEF DlqInv
      <4>2. CASE \E f \in files : HasFile(e, f)
        <5>1. PICK f \in files : HasFile(e, f)
          BY <4>2
        <5>2. f \in files'
          BY <3>1, <3>2, <5>1, WriteSpares
        <5>3. HasFile(e, f)'
          BY <3>2, <5>1 DEF HasFile, DlqInv, DlqType
        <5> QED
          BY <3>2, <4>1, <5>2, <5>3 DEF Kept
      <4>3. CASE e.removed \/ e.second \in restarts
        BY <3>2, <4>1, <4>3 DEF Kept
      <4> QED
        BY <4>1, <4>2, <4>3 DEF Kept
    <3>6. Entry(n).second <= second' /\ Kept(Entry(n))'
      <4>1. PICK e : e = Entry(n)
        OBVIOUS
      <4>2. PICK f : f = File(n)
        OBVIOUS
      <4>3. f \in files'
        BY <3>1, <3>2, <4>2, WriteTypes DEF DlqInv
      <4>4. f.entry = n /\ f.second = second /\ f.counter = written
        BY <4>2 DEF File
      <4>5. HasFile(e, f)'
        BY <3>2, <3>3, <4>1, <4>4 DEF HasFile, DlqInv, DlqType
      <4>6. Kept(e)'
        BY <4>3, <4>5 DEF Kept
      <4>7. Entry(n)' = e
        BY <3>2, <4>1 DEF Entry
      <4> QED
        BY <3>2, <3>3, <4>1, <4>6, <4>7 DEF DlqInv, DlqType
    <3> QED
      <4>1. ASSUME NEW e \in dead'
            PROVE  e.second <= second' /\ Kept(e)'
        <5>1. CASE e \in dead
          BY <3>5, <5>1
        <5>2. CASE e = Entry(n)
          <6>1. Entry(n)' = e
            BY <3>2, <5>2 DEF Entry
          <6> QED
            BY <3>3, <3>6, <5>2, <6>1
        <5> QED
          BY <3>2, <5>1, <5>2
      <4> QED
        BY <3>4, <4>1 DEF DlqInv
  <2>2. CASE WriteFails
    <3>1. UNCHANGED <<second, written, dead, restarts>>
      BY <2>2 DEF WriteFails
    <3>2. files' \in {files, WithFile(File(0))}
      BY <2>2 DEF WriteFails
    <3>3. DlqType'
      BY <3>1, <3>2, WriteTypes DEF DlqInv, DlqType
    <3>4. ASSUME NEW e \in dead, NEW f \in files, HasFile(e, f)
          PROVE  f \in files' /\ HasFile(e, f)'
      BY <3>1, <3>2, <3>4, WriteSpares DEF HasFile
    <3> QED
      BY <3>1, <3>3, <3>4 DEF DlqInv, Kept
  <2>3. ASSUME NEW removed \in SUBSET files, RemoveFiles(removed)
        PROVE  DlqInv'
    <3> DEFINE Marked(e) == IF \E f \in removed : f.entry = e.number
                            THEN [e EXCEPT !.removed = TRUE] ELSE e
    <3>1. /\ files' = files \ removed /\ dead' = {Marked(e) : e \in dead}
          /\ UNCHANGED <<second, written, restarts>>
      BY <2>3 DEF RemoveFiles
    <3>2. ASSUME NEW e \in dead
          PROVE  /\ Marked(e) \in [number : Nat \ {0}, second : Nat, removed : BOOLEAN]
                 /\ Marked(e).number = e.number /\ Marked(e).second = e.second
                 /\ Marked(e).removed \/ (Marked(e) = e /\ ~ \E f \in removed : f.entry = e.number)
      <4>1. e \in [number : Nat \ {0}, second : Nat, removed : BOOLEAN]
        BY DEF DlqInv, DlqType
      <4> QED
        BY <4>1
    <3>3. DlqType'
      <4>1. IsFiniteSet(dead')
        BY <3>1, MarkedIsFinite DEF DlqInv, DlqType
      <4>2. dead' \subseteq [number : Nat \ {0}, second : Nat, removed : BOOLEAN]
        <5> HIDE DEF Marked
        <5> QED
          BY <3>1, <3>2
      <4> QED
        BY <3>1, <4>1, <4>2 DEF DlqInv, DlqType
    <3>4. ASSUME NEW x \in dead'
          PROVE  x.second <= second' /\ Kept(x)'
      <4> HIDE DEF Marked
      <4>1. PICK e \in dead : x = Marked(e)
        BY <3>1
      <4>2. e.second <= second /\ Kept(e)
        BY DEF DlqInv
      <4>3. CASE x.removed
        BY <3>1, <3>2, <4>1, <4>2, <4>3 DEF Kept
      <4>4. CASE x = e /\ ~ \E f \in removed : f.entry = e.number
        BY <3>1, <4>2, <4>4 DEF Kept, HasFile
      <4> QED
        BY <3>2, <4>1, <4>3, <4>4
    <3> QED
      BY <3>3, <3>4 DEF DlqInv
  <2>4. CASE RestartIngest
    <3>1. DlqType'
      BY <2>4 DEF RestartIngest, DlqInv, DlqType
    <3>2. ASSUME NEW e \in dead
          PROVE  e.second <= second' /\ Kept(e)'
      <4>1. e.second <= second /\ Kept(e)
        BY DEF DlqInv
      <4> QED
        BY <2>4, <4>1 DEF RestartIngest, Kept, HasFile
    <3> QED
      BY <2>4, <3>1, <3>2 DEF RestartIngest, DlqInv
  <2>5. CASE NextSecond
    <3>1. DlqType'
      BY <2>5 DEF NextSecond, DlqInv, DlqType
    <3>2. ASSUME NEW e \in dead
          PROVE  e.second <= second' /\ Kept(e)'
      <4>1. e.second <= second /\ Kept(e) /\ e.second \in Nat /\ second \in Nat
        BY DEF DlqInv, DlqType
      <4> QED
        BY <2>5, <4>1 DEF NextSecond, Kept, HasFile
    <3> QED
      BY <2>5, <3>1, <3>2 DEF NextSecond, DlqInv
  <2>6. CASE UNCHANGED dlqVars
    BY <2>6 DEF dlqVars, DlqInv, DlqType, Kept, HasFile
  <2> QED
    BY <2>1, <2>2, <2>3, <2>4, <2>5, <2>6 DEF DlqNext, Delete, PurgeFiles
<1> QED
  BY <1>1, <1>2, PTL DEF DlqSpec

\* A failed event whose write was answered stays listed until somebody removes
\* it, unless the service restarts in the second it was written in (dlq.go).
THEOREM EntriesAreKeptHolds == DlqSpec => []EntriesAreKept
<1>1. DlqInv => EntriesAreKept
  <2> SUFFICES ASSUME DlqInv, NEW e \in dead, ~e.removed, e.second \notin restarts
               PROVE  e.number \in Listed
    BY DEF EntriesAreKept
  <2>1. PICK f \in files : HasFile(e, f)
    BY DEF DlqInv, Kept
  <2>2. e.number # 0
    BY DEF DlqInv, DlqType
  <2> QED
    BY <2>1, <2>2 DEF Listed, HasFile
<1> QED
  BY <1>1, DlqInvariance, PTL

-----------------------------------------------------------------------------
(***************************************************************************)
(* Saved searches.  A request that nobody overtook still has the latest    *)
(* version's flags, edited or not, and no version is younger than its      *)
(* stamp; so, unless it ties, what it inserts becomes the latest.          *)
(***************************************************************************)
RowFlags == [disabled : BOOLEAN, hidden : BOOLEAN]
Rows == [created : Nat, version : Nat, disabled : BOOLEAN, hidden : BOOLEAN]
EditorStates ==
  [at : {"idle", "read", "stamped", "done", "failed", "refused"},
   op : Changes \cup {"none"}, row : RowFlags, created : Nat, stale : BOOLEAN]

SavedType ==
  /\ moment \in Nat
  /\ saved \subseteq Rows
  /\ editor \in [Editors -> EditorStates]
  /\ want \in RowFlags

IsLatest(row, S) == row \in S /\ \A other \in S : NotEarlier(row, other)

\* The rows are told apart by their keys, one is the latest, none is of the future.
RowsInv ==
  /\ \A a, b \in saved : a.created = b.created /\ a.version = b.version => a = b
  /\ saved # {} => \E row : IsLatest(row, saved)
  /\ \A row \in saved : row.created <= moment

\* What a request that nobody overtook has read, and stamped.
EditorFits(r) ==
  /\ r.at \in {"read", "stamped"} => r.op \in Changes
  /\ r.at = "read" /\ ~r.stale => saved # {} /\ r.row = Flags(GetLatest)
  /\ r.at = "stamped" => r.created <= moment
  /\ r.at = "stamped" /\ ~r.stale =>
       /\ saved # {} /\ r.row = Edit(r.op, Flags(GetLatest))
       /\ \A row \in saved : row.created <= r.created

SavedInv ==
  /\ SavedType /\ RowsInv
  /\ \A e \in Editors : EditorFits(editor[e])
  /\ LifecycleFollowsRequests

\* The order of the versions is total and transitive, and antisymmetric on keys.
LEMMA LaterIsTotal ==
  ASSUME NEW a \in Rows, NEW b \in Rows, NEW c \in Rows
  PROVE  /\ NotEarlier(a, b) \/ NotEarlier(b, a)
         /\ NotEarlier(a, a)
         /\ NotEarlier(a, b) /\ NotEarlier(b, c) => NotEarlier(a, c)
         /\ NotEarlier(a, b) /\ NotEarlier(b, a) => a.created = b.created /\ a.version = b.version
  BY DEF Rows, NotEarlier

\* The latest row is the one GetLatest returns.
LEMMA LatestIsChosen ==
  ASSUME NEW S \in SUBSET Rows, NEW row, IsLatest(row, S),
         \A a, b \in S : a.created = b.created /\ a.version = b.version => a = b
  PROVE  row = CHOOSE r \in S : \A other \in S : NotEarlier(r, other)
<1>1. ASSUME NEW r \in S, \A other \in S : NotEarlier(r, other)
      PROVE  r = row
  BY <1>1, LaterIsTotal DEF IsLatest
<1> QED
  BY <1>1 DEF IsLatest

\* With a row under a new key there is again a latest row: the new one when none
\* of the others is as young.
LEMMA LatestOfInsert ==
  ASSUME NEW S \in SUBSET Rows, NEW r \in Rows, S # {} => \E row : IsLatest(row, S)
  PROVE  /\ \E row : IsLatest(row, S \cup {r})
         /\ (\A other \in S : other.created < r.created) => IsLatest(r, S \cup {r})
<1>1. (\A other \in S : other.created < r.created) => IsLatest(r, S \cup {r})
  BY LaterIsTotal DEF IsLatest, NotEarlier, Rows
<1>2. \E row : IsLatest(row, S \cup {r})
  <2>1. CASE S = {}
    BY <2>1, LaterIsTotal DEF IsLatest
  <2>2. CASE S # {}
    <3>1. PICK row : IsLatest(row, S)
      BY <2>2
    <3>2. CASE NotEarlier(row, r)
      BY <3>1, <3>2 DEF IsLatest
    <3>3. CASE NotEarlier(r, row)
      <4>1. IsLatest(r, S \cup {r})
        BY <3>1, <3>3, LaterIsTotal DEF IsLatest
      <4> QED
        BY <4>1
    <3> QED
      BY <3>1, <3>2, <3>3, LaterIsTotal DEF IsLatest
  <2> QED
    BY <2>1, <2>2
<1> QED
  BY <1>1, <1>2

\* GetLatest is a row when there is one, and its flags are flags.
LEMMA GetLatestIsRow ==
  ASSUME saved \subseteq Rows, saved # {} => \E row : IsLatest(row, saved), saved # {}
  PROVE  GetLatest \in saved /\ GetLatest \in Rows /\ Flags(GetLatest) \in RowFlags
<1>1. \E row \in saved : \A other \in saved : NotEarlier(row, other)
  BY DEF IsLatest
<1>2. GetLatest \in saved
  BY <1>1 DEF GetLatest
<1> QED
  BY <1>2 DEF Rows, RowFlags, Flags

\* An edit of flags gives flags, and the ones the request means.
LEMMA EditIsMeant ==
  ASSUME NEW op \in Changes, NEW row \in RowFlags
  PROVE  /\ Edit(op, row) \in RowFlags
         /\ row = want => Edit(op, row) = Meant(op)
  <1>1. CASE op \in {"update", "enable"}
    BY <1>1 DEF Edit, Meant, RowFlags
  <1>2. CASE op = "disable"
    BY <1>2 DEF Edit, Meant, RowFlags
  <1>3. CASE op \in {"hide", "delete"}
    BY <1>3 DEF Edit, Meant, RowFlags
  <1>4. CASE op = "unhide"
    BY <1>4 DEF Edit, Meant, RowFlags
  <1> QED
    BY <1>1, <1>2, <1>3, <1>4 DEF Changes

\* What inserting a version keeps, and when the version is the latest.
LEMMA InsertKeeps ==
  ASSUME SavedInv, NEW e \in Editors, NEW row \in RowFlags, NEW created \in Nat,
         created <= moment, InsertVersion(e, row, created)
  PROVE  /\ moment' \in Nat /\ saved' \subseteq Rows /\ editor' \in [Editors -> EditorStates]
         /\ RowsInv' /\ saved' # {}
         /\ \A f \in Editors : EditorFits(editor[f])'
         /\ (\A other \in saved : other.created < created) => Flags(GetLatest)' = row
<1>1. PICK version \in 1 .. MaxVersionId :
        /\ \A other \in saved : other.version = version => other.created # created
        /\ saved' = saved \cup {[created |-> created, version |-> version,
                                 disabled |-> row.disabled, hidden |-> row.hidden]}
  BY DEF InsertVersion
<1>2. PICK r : r = [created |-> created, version |-> version,
                    disabled |-> row.disabled, hidden |-> row.hidden]
  OBVIOUS
<1>3. /\ r \in Rows /\ r.created = created /\ r.version = version
      /\ r.disabled = row.disabled /\ r.hidden = row.hidden
  BY <1>2 DEF Rows, RowFlags
<1>4. saved' = saved \cup {r} /\ moment' = moment
  BY <1>1, <1>2 DEF InsertVersion
<1>5. saved \subseteq Rows /\ moment \in Nat /\ RowsInv /\ editor \in [Editors -> EditorStates]
  BY DEF SavedInv, SavedType
<1>6. RowsInv'
  <2>1. \A a, b \in saved' : a.created = b.created /\ a.version = b.version => a = b
    BY <1>1, <1>3, <1>4, <1>5 DEF RowsInv
  <2>2. \E x : IsLatest(x, saved')
    BY <1>3, <1>4, <1>5, LatestOfInsert DEF RowsInv
  <2>3. \A x \in saved' : x.created <= moment'
    BY <1>3, <1>4, <1>5 DEF RowsInv
  <2> QED
    BY <2>1, <2>2, <2>3 DEF RowsInv, IsLatest
<1>7. ASSUME NEW f \in Editors
      PROVE  editor'[f] \in EditorStates /\ EditorFits(editor[f])'
  <2>1. CASE f = e
    <3>1. editor'[f] = [IdleEditor EXCEPT !.at = "done"]
      BY <2>1 DEF InsertVersion
    <3>2. editor'[f] \in EditorStates /\ editor'[f].at = "done"
      <4>1. IdleEditor \in EditorStates
        BY DEF IdleEditor, EditorStates, Visible, RowFlags
      <4> QED
        BY <3>1, <4>1 DEF EditorStates
    <3> QED
      BY <3>2 DEF EditorFits
  <2>2. CASE f # e
    <3>1. PICK l \in BOOLEAN : l = (editor[f].at \in {"read", "stamped"})
      <4>1. CASE editor[f].at \in {"read", "stamped"}
        BY <4>1
      <4>2. CASE editor[f].at \notin {"read", "stamped"}
        <5>1. FALSE = (editor[f].at \in {"read", "stamped"})
          BY <4>2
        <5> QED
          BY <5>1
      <4> QED
        BY <4>1, <4>2
    <3>2. editor'[f] = [editor[f] EXCEPT !.stale = l]
      BY <2>2, <3>1 DEF InsertVersion
    <3>3. editor[f] \in EditorStates /\ EditorFits(editor[f])
      BY <1>5 DEF SavedInv
    <3>4. /\ editor'[f] \in EditorStates /\ editor'[f].at = editor[f].at
          /\ editor'[f].stale = l /\ editor'[f].op = editor[f].op
          /\ editor'[f].created = editor[f].created
      BY <3>2, <3>3 DEF EditorStates
    <3> QED
      BY <1>4, <3>1, <3>3, <3>4 DEF EditorFits
  <2> QED
    BY <2>1, <2>2
<1>8. editor' \in [Editors -> EditorStates]
  BY <1>7 DEF InsertVersion
<1>9. ASSUME \A other \in saved : other.created < created
      PROVE  Flags(GetLatest)' = row
  <2>1. IsLatest(r, saved')
    BY <1>3, <1>4, <1>5, <1>9, LatestOfInsert DEF RowsInv
  <2>2. r = CHOOSE x \in saved' : \A other \in saved' : NotEarlier(x, other)
    <3>1. PICK S : S = saved'
      OBVIOUS
    <3>2. S \in SUBSET Rows
      BY <1>3, <1>4, <1>5, <3>1
    <3>3. IsLatest(r, S)
      BY <2>1, <3>1
    <3>4. \A a, b \in S : a.created = b.created /\ a.version = b.version => a = b
      BY <1>6, <3>1 DEF RowsInv
    <3>5. r = CHOOSE x \in S : \A other \in S : NotEarlier(x, other)
      BY <3>2, <3>3, <3>4, LatestIsChosen
    <3> QED
      BY <3>1, <3>5
  <2>3. GetLatest' = r
    BY <2>2 DEF GetLatest, NotEarlier
  <2>4. Flags(GetLatest)' = [disabled |-> row.disabled, hidden |-> row.hidden]
    BY <1>3, <2>3 DEF Flags
  <2> QED
    BY <2>4 DEF RowFlags
<1> QED
  BY <1>3, <1>4, <1>5, <1>6, <1>7, <1>8, <1>9

\* A step of one request that inserts nothing.
LEMMA OneEditorMoves ==
  ASSUME SavedInv, NEW e \in Editors, NEW r \in EditorStates,
         editor' = [editor EXCEPT ![e] = r], UNCHANGED <<saved, moment, want>>,
         EditorFits(r)
  PROVE  SavedInv'
<1>1. editor' \in [Editors -> EditorStates]
      /\ editor'[e] = r /\ \A f \in Editors : f # e => editor'[f] = editor[f]
  BY DEF SavedInv, SavedType
<1>2. SavedType' /\ RowsInv' /\ LifecycleFollowsRequests' /\ GetLatest' = GetLatest
  BY <1>1 DEF SavedInv, SavedType, RowsInv, IsLatest, NotEarlier, LifecycleFollowsRequests,
              GetLatest, Flags
<1>3. \A f \in Editors : EditorFits(editor'[f])
  BY <1>1 DEF SavedInv
<1>4. ASSUME NEW f \in Editors
      PROVE  EditorFits(editor[f])'
  BY <1>2, <1>3 DEF EditorFits, Flags
<1> QED
  BY <1>2, <1>4 DEF SavedInv

\* Through changes that read, stamp and insert in any interleaving, the latest
\* version follows the requests.
THEOREM SavedInvariance == SavedSpec => []SavedInv
<1>1. SavedInit => SavedInv
  <2> SUFFICES ASSUME SavedInit
               PROVE  SavedInv
    OBVIOUS
  <2>1. SavedType
    BY DEF SavedInit, SavedType, IdleEditor, EditorStates, Visible, RowFlags
  <2>2. RowsInv /\ LifecycleFollowsRequests
    BY DEF SavedInit, RowsInv, LifecycleFollowsRequests
  <2>3. \A e \in Editors : EditorFits(editor[e])
    BY DEF SavedInit, IdleEditor, EditorFits
  <2> QED
    BY <2>1, <2>2, <2>3 DEF SavedInv
<1>2. SavedInv /\ [SavedNext]_savedVars => SavedInv'
  <2> SUFFICES ASSUME SavedInv, [SavedNext]_savedVars
               PROVE  SavedInv'
    OBVIOUS
  <2>1. CASE NextMoment \/ UNCHANGED savedVars
    <3>1. /\ UNCHANGED <<saved, editor, want>> /\ moment' \in Nat /\ moment <= moment'
          /\ moment \in Nat
      BY <2>1 DEF NextMoment, savedVars, SavedInv, SavedType
    <3>2. SavedType' /\ LifecycleFollowsRequests'
      BY <3>1 DEF SavedInv, SavedType, LifecycleFollowsRequests, GetLatest, Flags, NotEarlier
    <3>3. RowsInv'
      BY <3>1 DEF SavedInv, SavedType, RowsInv, IsLatest, NotEarlier, Rows
    <3>4. ASSUME NEW e \in Editors
          PROVE  EditorFits(editor[e])'
      <4>1. EditorFits(editor[e]) /\ editor[e].created \in Nat
        BY DEF SavedInv, SavedType, EditorStates
      <4>2. GetLatest' = GetLatest
        BY <3>1 DEF GetLatest, NotEarlier
      <4> QED
        BY <3>1, <4>1, <4>2 DEF EditorFits, Flags
    <3> QED
      BY <3>2, <3>3, <3>4 DEF SavedInv
  <2>2. ASSUME NEW e \in Editors, CreateSavedSearch(e)
        PROVE  SavedInv'
    <3>1. Visible \in RowFlags /\ moment \in Nat
      BY DEF Visible, RowFlags, SavedInv, SavedType
    <3>2. /\ saved = {} /\ InsertVersion(e, Visible, moment) /\ want' = Visible
      BY <2>2 DEF CreateSavedSearch
    <3>3. /\ moment' \in Nat /\ saved' \subseteq Rows /\ editor' \in [Editors -> EditorStates]
          /\ RowsInv' /\ \A f \in Editors : EditorFits(editor[f])'
          /\ Flags(GetLatest)' = Visible
      BY <3>1, <3>2, InsertKeeps
    <3> QED
      BY <3>1, <3>2, <3>3 DEF SavedInv, SavedType, LifecycleFollowsRequests
  <2>3. ASSUME NEW e \in Editors, ChangeVersion(e)
        PROVE  SavedInv'
    <3>1. /\ editor[e] \in EditorStates /\ EditorFits(editor[e])
          /\ editor[e].at = "stamped" /\ editor[e].row \in RowFlags
          /\ editor[e].created \in Nat /\ editor[e].created <= moment
          /\ InsertVersion(e, editor[e].row, editor[e].created)
      BY <2>3 DEF ChangeVersion, SavedInv, SavedType, EditorFits, EditorStates
    <3>2. /\ moment' \in Nat /\ saved' \subseteq Rows /\ editor' \in [Editors -> EditorStates]
          /\ RowsInv' /\ saved' # {} /\ \A f \in Editors : EditorFits(editor[f])'
          /\ (\A other \in saved : other.created < editor[e].created)
             => Flags(GetLatest)' = editor[e].row
      BY <3>1, InsertKeeps
    <3>3. Flags(GetLatest)' = want'
      <4>1. CASE editor[e].stale \/ Tied(e)
        BY <2>3, <4>1 DEF ChangeVersion
      <4>2. CASE ~(editor[e].stale \/ Tied(e))
        <5>1. /\ want' = Meant(editor[e].op) /\ editor[e].op \in Changes
              /\ saved # {} /\ editor[e].row = Edit(editor[e].op, Flags(GetLatest))
              /\ \A row \in saved : row.created <= editor[e].created
          BY <2>3, <3>1, <4>2 DEF ChangeVersion, EditorFits
        <5>2. Flags(GetLatest) = want /\ want \in RowFlags
          BY <5>1 DEF SavedInv, SavedType, LifecycleFollowsRequests
        <5>3. editor[e].row = Meant(editor[e].op)
          BY <5>1, <5>2, EditIsMeant
        <5>4. \A other \in saved : other.created < editor[e].created
          BY <3>1, <4>2, <5>1 DEF Tied, SavedInv, SavedType, Rows
        <5> QED
          BY <3>2, <5>1, <5>3, <5>4
      <4> QED
        BY <4>1, <4>2
    <3>4. want' \in RowFlags
      <4>1. GetLatest' \in Rows
        BY <3>2, GetLatestIsRow DEF RowsInv, GetLatest, NotEarlier, IsLatest
      <4>2. Flags(GetLatest)' \in RowFlags
        BY <4>1 DEF Flags, Rows, RowFlags
      <4> QED
        BY <3>3, <4>2
    <3> QED
      BY <3>2, <3>3, <3>4 DEF SavedInv, SavedType, LifecycleFollowsRequests
  <2>4. ASSUME NEW e \in Editors, NEW op \in Changes, ReadVersion(e, op)
        PROVE  SavedInv'
    <3> DEFINE r == [IdleEditor EXCEPT !.at = "read", !.op = op, !.row = Flags(GetLatest)]
    <3>1. /\ editor' = [editor EXCEPT ![e] = r] /\ UNCHANGED <<saved, moment, want>>
          /\ saved # {}
      BY <2>4 DEF ReadVersion
    <3>2. Flags(GetLatest) \in RowFlags
      BY <3>1, GetLatestIsRow DEF SavedInv, SavedType, RowsInv
    <3>3. /\ r \in EditorStates /\ r.at = "read" /\ r.op = op
          /\ r.row = Flags(GetLatest)
      BY <3>2 DEF IdleEditor, EditorStates
    <3>4. EditorFits(r)
      <4> HIDE DEF r
      <4> QED
        BY <3>1, <3>3 DEF EditorFits
    <3> QED
      BY <3>1, <3>3, <3>4, OneEditorMoves
  <2>5. ASSUME NEW e \in Editors, StampVersion(e)
        PROVE  SavedInv'
    <3>1. /\ editor[e] \in EditorStates /\ EditorFits(editor[e]) /\ editor[e].at = "read"
          /\ moment \in Nat /\ editor[e].row \in RowFlags /\ editor[e].op \in Changes
      BY <2>5 DEF StampVersion, SavedInv, SavedType, EditorFits, EditorStates
    <3> DEFINE w == Edit(editor[e].op, editor[e].row)
               r == [editor[e] EXCEPT !.at = "stamped", !.row = w, !.created = moment]
    <3>2. /\ editor' = [editor EXCEPT ![e] = r] /\ UNCHANGED <<saved, moment, want>>
      BY <2>5 DEF StampVersion, SavedInv, SavedType
    <3>3. w \in RowFlags
      BY <3>1, EditIsMeant
    <3>4. /\ r \in EditorStates /\ r.at = "stamped" /\ r.op = editor[e].op /\ r.row = w
          /\ r.created = moment /\ r.stale = editor[e].stale
      <4> HIDE DEF w
      <4> QED
        BY <3>1, <3>3 DEF EditorStates
    <3>5. EditorFits(r)
      <4> HIDE DEF r
      <4> QED
        BY <3>1, <3>4 DEF EditorFits, SavedInv, RowsInv
    <3> QED
      BY <3>2, <3>4, <3>5, OneEditorMoves
  <2>6. ASSUME NEW e \in Editors, ChangeFails(e) \/ RunLatest(e) \/ AskAgain(e)
        PROVE  SavedInv'
    <3>0. editor[e] \in EditorStates
      BY DEF SavedInv, SavedType
    <3>1. PICK r \in EditorStates :
            /\ editor' = [editor EXCEPT ![e] = r] /\ UNCHANGED <<saved, moment, want>>
            /\ r.at \notin {"read", "stamped"}
      <4>1. CASE ChangeFails(e)
        <5> DEFINE r == [IdleEditor EXCEPT !.at = "failed"]
        <5>1. editor' = [editor EXCEPT ![e] = r] /\ UNCHANGED <<saved, moment, want>>
          BY <4>1 DEF ChangeFails
        <5>2. r \in EditorStates /\ r.at = "failed"
          BY DEF IdleEditor, EditorStates, Visible, RowFlags
        <5> QED
          BY <5>1, <5>2
      <4>2. CASE RunLatest(e)
        <5>1. PICK at \in {"refused", "done"} :
                at = IF GetLatest.disabled THEN "refused" ELSE "done"
          OBVIOUS
        <5> DEFINE r == [editor[e] EXCEPT !.at = at]
        <5>2. editor' = [editor EXCEPT ![e] = r] /\ UNCHANGED <<saved, moment, want>>
          BY <4>2, <5>1 DEF RunLatest, SavedInv, SavedType
        <5>3. r \in EditorStates /\ r.at = at
          BY <3>0, <5>1 DEF EditorStates
        <5> QED
          BY <5>1, <5>2, <5>3
      <4>3. CASE AskAgain(e)
        <5>1. IdleEditor \in EditorStates /\ IdleEditor.at = "idle"
          BY DEF IdleEditor, EditorStates, Visible, RowFlags
        <5>2. editor' = [editor EXCEPT ![e] = IdleEditor] /\ UNCHANGED <<saved, moment, want>>
          BY <4>3 DEF AskAgain
        <5> QED
          BY <5>1, <5>2
      <4> QED
        BY <2>6, <4>1, <4>2, <4>3
    <3>2. EditorFits(r)
      BY <3>1 DEF EditorFits
    <3> QED
      BY <3>1, <3>2, OneEditorMoves
  <2> QED
    BY <2>1, <2>2, <2>3, <2>4, <2>5, <2>6 DEF SavedNext
<1> QED
  BY <1>1, <1>2, PTL DEF SavedSpec

\* The latest version of a saved search is what the answered requests asked for,
\* except those that overlapped or tied (saved_searches.go).
THEOREM LifecycleFollowsRequestsHolds == SavedSpec => []LifecycleFollowsRequests
  BY SavedInvariance, PTL DEF SavedInv

-----------------------------------------------------------------------------
(***************************************************************************)
(* The rate limiter.  The sorted set is pruned for the clock of whichever  *)
(* script runs, and dropped when its key expires, so it may have lost some *)
(* of the requests admitted; what matters for a refusal is that it never   *)
(* has an instant of anybody else, and that an admission is not undone.    *)
(***************************************************************************)
RateType ==
  /\ instant \in Nat /\ expireAt \in Nat
  /\ asker \in [Askers -> [at : {"idle", "read", "allowed", "limited", "error"},
                           now : Nat]]

RateInv ==
  /\ RateType
  /\ IsFiniteSet(Admitted)
  /\ window \subseteq Admitted
  /\ RefusalIsEarned

\* The instants after a time are no fewer when more were admitted.
LEMMA AdmissionsAdd ==
  ASSUME NEW A, NEW B, A \subseteq B, IsFiniteSet(B), NEW time \in Int
  PROVE  LET After(S) == {n \in S : n > time}
         IN  /\ IsFiniteSet(After(A)) /\ IsFiniteSet(After(B))
             /\ Cardinality(After(A)) \in Nat /\ Cardinality(After(B)) \in Nat
             /\ Cardinality(After(A)) <= Cardinality(After(B))
<1> DEFINE After(S) == {n \in S : n > time}
<1>1. After(A) \subseteq After(B) /\ After(B) \subseteq B
  OBVIOUS
<1>2. IsFiniteSet(After(B))
  BY <1>1, FS_Subset
<1> HIDE DEF After
<1>3. IsFiniteSet(After(A)) /\ Cardinality(After(A)) <= Cardinality(After(B))
  BY <1>1, <1>2, FS_Subset
<1>4. Cardinality(After(A)) \in Nat /\ Cardinality(After(B)) \in Nat
  BY <1>2, <1>3, FS_CardinalityType
<1> USE DEF After
<1> QED
  BY <1>2, <1>3, <1>4

\* A step that keeps who is refused and undoes no admission keeps every
\* refusal earned.
LEMMA EarnedStays ==
  ASSUME RateInv, NEW a \in Askers, asker[a].at = "limited",
         asker'[a].now = asker[a].now,
         Admitted \subseteq Admitted', IsFiniteSet(Admitted')
  PROVE  Cardinality(AdmittedAfter(asker[a].now - Window)') >= RateLimit
<1>1. PICK time \in Int : time = asker[a].now - Window /\ time' = time
  BY RateAssumption DEF RateInv, RateType
<1>2. Cardinality(AdmittedAfter(time)) >= RateLimit
  BY <1>1 DEF RateInv, RefusalIsEarned
<1>3. /\ Cardinality(AdmittedAfter(time)) \in Nat
      /\ Cardinality({n \in Admitted' : n > time}) \in Nat
      /\ Cardinality(AdmittedAfter(time)) <= Cardinality({n \in Admitted' : n > time})
  BY AdmissionsAdd DEF AdmittedAfter
<1>4. AdmittedAfter(asker[a].now - Window)' = {n \in Admitted' : n > time}
  BY <1>1 DEF AdmittedAfter
<1> QED
  BY <1>2, <1>3, <1>4, RateAssumption

\* A script refuses only when the sorted set has the limit's number of instants
\* in the window, and all of them were admitted.
LEMMA RefusedHasReason ==
  ASSUME RateInv, NEW now \in Nat, ~BelowLimit(now)
  PROVE  Cardinality(AdmittedAfter(now - Window)) >= RateLimit
<1>1. PICK time \in Int : time = now - Window
  BY RateAssumption
<1>2. Pruned(now) = {t \in window : t > time}
  BY <1>1 DEF Pruned
<1>3. /\ Cardinality(Pruned(now)) \in Nat
      /\ Cardinality(AdmittedAfter(time)) \in Nat
      /\ Cardinality(Pruned(now)) <= Cardinality(AdmittedAfter(time))
  BY <1>2, AdmissionsAdd DEF RateInv, AdmittedAfter
<1> QED
  BY <1>1, <1>3, RateAssumption DEF BelowLimit

\* The invariant through the clock, the expiry of the key, and scripts that run
\* in another order than their clocks were read.
THEOREM RateInvariance == RateSpec => []RateInv
<1>1. RateInit => RateInv
  <2> SUFFICES ASSUME RateInit
               PROVE  RateInv
    OBVIOUS
  <2>1. RateType /\ RefusalIsEarned
    BY DEF RateInit, RateType, RefusalIsEarned
  <2>2. Admitted = {} /\ window = {}
    BY DEF RateInit, Admitted
  <2> QED
    BY <2>1, <2>2, FS_EmptySet DEF RateInv
<1>2. RateInv /\ [RateNext]_rateVars => RateInv'
  <2> SUFFICES ASSUME RateInv, [RateNext]_rateVars
               PROVE  RateInv'
    OBVIOUS
  <2> DEFINE Requests == [at : {"idle", "read", "allowed", "limited", "error"},
                          now : Nat]
  <2>0. /\ instant \in Nat /\ expireAt \in Nat
        /\ asker \in [Askers -> Requests]
        /\ \A a \in Askers : asker[a] \in Requests /\ asker[a].now \in Nat
        /\ IsFiniteSet(Admitted) /\ window \subseteq Admitted /\ RefusalIsEarned
    BY DEF RateInv, RateType
  <2>1. ASSUME UNCHANGED asker, window' \subseteq window, instant' \in Nat,
               expireAt' \in Nat
        PROVE  RateInv'
    <3>1. Admitted' = Admitted
      BY <2>1 DEF Admitted
    <3>2. RefusalIsEarned'
      BY <2>0, <2>1, <3>1 DEF RefusalIsEarned, AdmittedAfter
    <3> QED
      BY <2>0, <2>1, <3>1, <3>2 DEF RateInv, RateType
  <2>2. CASE Elapse
    BY <2>0, <2>1, <2>2 DEF Elapse
  <2>3. CASE UNCHANGED rateVars
    BY <2>0, <2>1, <2>3 DEF rateVars
  <2>4. ASSUME NEW a \in Askers, ReadClock(a) \/ ScriptFails(a)
        PROVE  RateInv'
    <3>1. /\ asker' \in [Askers -> Requests]
          /\ asker[a].at \in {"idle", "read"} /\ asker'[a].at \in {"read", "error"}
          /\ \A b \in Askers : b # a => asker'[b] = asker[b]
          /\ UNCHANGED <<instant, window, expireAt>>
      <4>1. CASE ReadClock(a)
        BY <2>0, <4>1 DEF ReadClock
      <4>2. CASE ScriptFails(a)
        <5>1. asker' = [asker EXCEPT ![a] = [asker[a] EXCEPT !.at = "error"]]
          BY <2>0, <4>2 DEF ScriptFails
        <5> QED
          BY <2>0, <4>2, <5>1 DEF ScriptFails
      <4> QED
        BY <2>4, <4>1, <4>2
    <3>2. Admitted' = Admitted
      <4>1. {b \in Askers : asker'[b].at = "allowed"} = {b \in Askers : asker[b].at = "allowed"}
        BY <3>1
      <4> QED
        BY <3>1, <4>1 DEF Admitted
    <3>3. RefusalIsEarned'
      BY <2>0, <3>1, <3>2, EarnedStays DEF RefusalIsEarned
    <3> QED
      BY <2>0, <3>1, <3>2, <3>3 DEF RateInv, RateType
  <2>5. ASSUME NEW a \in Askers, RunScript(a)
        PROVE  RateInv'
    <3>1. PICK now \in Nat : now = asker[a].now
      BY <2>0
    <3>2. PICK ok \in BOOLEAN : ok = BelowLimit(now)
      <4>1. BelowLimit(now) \in BOOLEAN
        BY DEF BelowLimit
      <4> QED
        BY <4>1
    <3>3. /\ asker[a].at = "read" /\ instant' = instant
          /\ window' = Pruned(now) \cup (IF ok THEN {now} ELSE {})
          /\ expireAt' = IF ok THEN instant + Expiry ELSE expireAt
      BY <2>5, <3>1, <3>2 DEF RunScript, Recorded
    <3>4. /\ asker' \in [Askers -> Requests]
          /\ asker'[a].at = IF ok THEN "allowed" ELSE "limited"
          /\ asker'[a].now = now
          /\ \A b \in Askers : b # a => asker'[b] = asker[b]
      <4>1. asker' = [asker EXCEPT ![a] = [asker[a] EXCEPT
                                             !.at = IF ok THEN "allowed" ELSE "limited"]]
        BY <2>5, <3>1, <3>2 DEF RunScript
      <4> QED
        BY <2>0, <3>1, <4>1
    <3>5. Admitted' = Admitted \cup (IF ok THEN {now} ELSE {})
      BY <3>3, <3>4 DEF Admitted
    <3>6. IsFiniteSet(Admitted') /\ Admitted \subseteq Admitted'
      <4>1. CASE ok
        BY <2>0, <3>5, <4>1, FS_AddElement
      <4>2. CASE ~ok
        BY <2>0, <3>5, <4>2
      <4> QED
        BY <4>1, <4>2
    <3>7. window' \subseteq Admitted'
      BY <2>0, <3>3, <3>5 DEF Pruned
    <3>8. RefusalIsEarned'
      <4> SUFFICES ASSUME NEW b \in Askers, asker'[b].at = "limited"
                   PROVE  Cardinality(AdmittedAfter(asker[b].now - Window)') >= RateLimit
        BY DEF RefusalIsEarned
      <4>1. CASE b # a
        BY <3>4, <3>6, <4>1, EarnedStays
      <4>2. CASE b = a
        <5>1. ~ok /\ Admitted' = Admitted
          BY <3>4, <3>5, <4>2
        <5>2. AdmittedAfter(asker[b].now - Window)' = AdmittedAfter(now - Window)
          BY <3>4, <4>2, <5>1 DEF AdmittedAfter
        <5> QED
          BY <3>2, <5>1, <5>2, RefusedHasReason
      <4> QED
        BY <4>1, <4>2
    <3> QED
      <4>1. expireAt' \in Nat
        BY <2>0, <3>3, RateAssumption
      <4> QED
        BY <2>0, <3>3, <3>4, <3>6, <3>7, <3>8, <4>1 DEF RateInv, RateType
  <2> QED
    BY <2>2, <2>3, <2>4, <2>5 DEF RateNext
<1> QED
  BY <1>1, <1>2, PTL DEF RateSpec

\* Nobody is refused for nothing, whatever the limit, the window, the life of
\* the key and the number of requests (Allow).
THEOREM RefusalIsEarnedHolds == RateSpec => []RefusalIsEarned
  BY RateInvariance, PTL DEF RateInv
=============================================================================
