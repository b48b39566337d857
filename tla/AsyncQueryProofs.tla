--------------------------- MODULE AsyncQueryProofs --------------------------
(***************************************************************************)
(* Proofs about AsyncQuery for every set of queries, every lifetime of a   *)
(* result and every choice of hazards.  A query gets one verdict of the    *)
(* search service; what makes the properties inductive is that everything  *)
(* on the way to the client (the message, the entry, the two readings of a *)
(* poll) repeats that verdict, and that an entry never becomes pending     *)
(* again once its submission was answered.                                 *)
(***************************************************************************)
EXTENDS AsyncQuery, TLAPS

(* The search service speaks once about a query, after its job was sent. *)
OneVerdict(q) ==
    /\ submit[q] \in {"new", "publish"} => search[q] = "none"
    /\ search[q] # "done" => outcome[q] = "none"
    /\ reply[q] # "none" => outcome[q] = reply[q]

(* A poll holds nothing but the entry's history: a final reading repeats   *)
(* the verdict, and then the entry is not pending any more.                *)
PollIsTrue(q) ==
    poll[q].at = "read" =>
        /\ submit[q] = "accepted"
        /\ poll[q].old # "none" /\ poll[q].new # "none"
        /\ poll[q].old \in Final => outcome[q] = poll[q].old /\ results[q] # "pending"
        /\ poll[q].new \in Final => outcome[q] = poll[q].new /\ results[q] # "pending"

(* What a client saw of a query agrees with the verdict, and once it was   *)
(* final neither the entry nor a poll under way is pending.                *)
SeenIsTrue(q) ==
    /\ seen[q].status # "none" => submit[q] = "accepted"
    /\ results[q] \in Final => outcome[q] = results[q]
    /\ seen[q].data => outcome[q] # "none"
    /\ seen[q].status \in Final =>
          /\ outcome[q] = seen[q].status
          /\ results[q] # "pending"
          /\ poll[q].at = "read" => poll[q].old # "pending" /\ poll[q].new # "pending"

QInv(q) == OneVerdict(q) /\ PollIsTrue(q) /\ SeenIsTrue(q)

IInv == TypeOK /\ \A q \in Queries : QInv(q)

-----------------------------------------------------------------------------
(* The steps of one query, its submission, job, result and polls. *)
OwnStep(q) ==
    \/ SubmitQuery(q) \/ SubmitPublish(q) \/ SubmitStore(q) \/ SubmitRespond(q)
    \/ handleSearchJob(q) \/ publishResult(q) \/ handleResult(q)
    \/ GetQueryStatus(q) \/ readFields(q) \/ LoseJob(q) \/ LoseResult(q)

(* Nothing of a query that QInv looks at changes. *)
Untouched(q) ==
    /\ submit'[q] = submit[q] /\ results'[q] = results[q] /\ search'[q] = search[q]
    /\ reply'[q] = reply[q] /\ outcome'[q] = outcome[q]
    /\ poll'[q] = poll[q] /\ seen'[q] = seen[q]

(* The values the handlers store have their types. *)
LEMMA Values ==
    /\ \A s \in Status \cup {"none", "notfound"}, d \in BOOLEAN :
          [status |-> s, data |-> d] \in
              [status : Status \cup {"none", "notfound"}, data : BOOLEAN]
    /\ NoPoll \in [at : {"idle", "read"}, old : Status \cup {"none"},
                   new : Status \cup {"none"}]
    /\ "none" \notin Final /\ "pending" \notin Final /\ "notfound" \notin Final
    /\ \A s : HasData(s) \in BOOLEAN
    /\ 0 \in 0 .. ResultTTL + 1
BY AsyncAssumption DEF NoPoll, Status, Final, HasData

(* A step of one query keeps the types. *)
LEMMA OwnType ==
    ASSUME IInv, NEW q \in Queries, OwnStep(q)
    PROVE  TypeOK'
<1> USE Values
<1>0. TypeOK
  BY DEF IInv
<1>1. CASE SubmitQuery(q) \/ SubmitPublish(q) \/ SubmitStore(q) \/ SubmitRespond(q)
  <2>1. CASE SubmitQuery(q)
    <3>1. PICK range \in BOOLEAN : ranged' = [ranged EXCEPT ![q] = range]
      BY <2>1 DEF SubmitQuery
    <3>2. QED BY <1>0, <2>1, <3>1 DEF TypeOK, SubmitQuery, busVars, pollVars
  <2>2. CASE SubmitPublish(q)
    BY <1>0, <2>2 DEF TypeOK, SubmitPublish, pollVars
  <2>3. CASE SubmitStore(q)
    BY <1>0, <2>3 DEF TypeOK, SubmitStore, Status, busVars, pollVars
  <2>4. CASE SubmitRespond(q)
    BY <1>0, <2>4 DEF TypeOK, SubmitRespond, busVars, pollVars
  <2>5. QED BY <1>1, <2>1, <2>2, <2>3, <2>4
<1>2. CASE handleSearchJob(q) \/ LoseJob(q)
  BY <1>0, <1>2 DEF TypeOK, handleSearchJob, LoseJob, webVars, pollVars
<1>3. CASE publishResult(q)
  BY <1>0, <1>3 DEF TypeOK, publishResult, Final, webVars, pollVars
<1>4. CASE handleResult(q)
  <2>1. reply[q] \in Final /\ reply[q] \in Status
    BY <1>0, <1>4 DEF TypeOK, handleResult, Status
  <2>2. /\ results' \in [Queries -> Status \cup {"none"}]
        /\ reply' \in [Queries -> Final \cup {"none"}]
    BY <1>0, <1>4, <2>1 DEF TypeOK, handleResult, SetQueryResult
  <2>a. age' \in [Queries -> 0 .. ResultTTL + 1]
    <3>1. age \in [Queries -> 0 .. ResultTTL + 1]
      BY <1>0 DEF TypeOK
    <3>2. age' = [age EXCEPT ![q] = 0] \/ age' = [age EXCEPT ![q] = age[q]]
      BY <1>4 DEF handleResult, SetQueryResult
    <3>3. QED BY <3>1, <3>2
  <2>3. poll' \in [Queries -> [at : {"idle", "read"}, old : Status \cup {"none"},
                               new : Status \cup {"none"}]]
    <3>1. poll' = poll \/ poll' = [poll EXCEPT ![q].new = reply[q]]
      BY <1>4 DEF handleResult, SetQueryResult
    <3>2. poll \in [Queries -> [at : {"idle", "read"}, old : Status \cup {"none"},
                                new : Status \cup {"none"}]]
      BY <1>0 DEF TypeOK
    <3>3. [poll[q] EXCEPT !.new = reply[q]]
             \in [at : {"idle", "read"}, old : Status \cup {"none"}, new : Status \cup {"none"}]
      BY <2>1, <3>2
    <3>4. QED BY <3>1, <3>2, <3>3
  <2>4. QED BY <1>0, <1>4, <2>2, <2>a, <2>3 DEF TypeOK, handleResult
<1>5. CASE GetQueryStatus(q)
  <2>1. results[q] \in Status \cup {"none"}
    BY <1>0 DEF TypeOK
  <2>2. [at |-> "read", old |-> results[q], new |-> results[q]]
           \in [at : {"idle", "read"}, old : Status \cup {"none"}, new : Status \cup {"none"}]
    BY <2>1
  <2>3. [status |-> "notfound", data |-> FALSE]
           \in [status : Status \cup {"none", "notfound"}, data : BOOLEAN]
    OBVIOUS
  <2>4. UNCHANGED <<webVars, busVars>>
    BY <1>5 DEF GetQueryStatus
  <2>5. poll' \in [Queries -> [at : {"idle", "read"}, old : Status \cup {"none"},
                               new : Status \cup {"none"}]]
    BY <1>0, <1>5, <2>2 DEF TypeOK, GetQueryStatus, Answer
  <2>6. seen' \in [Queries -> [status : Status \cup {"none", "notfound"}, data : BOOLEAN]]
    <3> DEFINE S == [status : Status \cup {"none", "notfound"}, data : BOOLEAN]
               a == [status |-> "notfound", data |-> FALSE]
    <3>1. \/ seen' = seen
          \/ seen' = [seen EXCEPT ![q] = a]
      BY <1>5 DEF GetQueryStatus, Answer
    <3>2. seen \in [Queries -> S] /\ a \in S
      BY <1>0, <2>3 DEF TypeOK
    <3> HIDE DEF S, a
    <3>3. seen' \in [Queries -> S]
      BY <3>1, <3>2
    <3>4. QED BY <3>3 DEF S
  <2>7. QED
    BY <1>0, <2>4, <2>5, <2>6 DEF TypeOK, webVars, busVars
<1>6. CASE readFields(q)
  <2>1. PICK s, b \in {poll[q].old, poll[q].new} : Answer(q, s, HasData(b))
    BY <1>6 DEF readFields
  <2>2. s \in Status \cup {"none"}
    BY <1>0 DEF TypeOK
  <2>3. [status |-> s, data |-> HasData(b)]
           \in [status : Status \cup {"none", "notfound"}, data : BOOLEAN]
    BY <2>2
  <2>4. QED
    BY <1>0, <1>6, <2>1, <2>3 DEF TypeOK, readFields, Answer, webVars, busVars
<1>7. CASE LoseResult(q)
  BY <1>0, <1>7 DEF TypeOK, LoseResult, webVars, pollVars
<1>8. QED
  BY <1>1, <1>2, <1>3, <1>4, <1>5, <1>6, <1>7 DEF OwnStep

(* Every step keeps the types. *)
LEMMA TypeStep ==
    ASSUME IInv, [Next]_vars
    PROVE  TypeOK'
<1>0. TypeOK
  BY DEF IInv
<1>1. ASSUME NEW q \in Queries, OwnStep(q) PROVE TypeOK'
  BY <1>1, OwnType
<1>2. CASE cleanupExpiredResults
  BY <1>0, <1>2, Values
     DEF TypeOK, cleanupExpiredResults, Remove, busVars, pollVars
<1>3. CASE Tick
  <2>1. ASSUME NEW q \in Queries
        PROVE  age[q] \in 0 .. ResultTTL + 1
               /\ (age[q] <= ResultTTL => age[q] + 1 \in 0 .. ResultTTL + 1)
    BY <1>0, AsyncAssumption DEF TypeOK
  <2>2. age' \in [Queries -> 0 .. ResultTTL + 1]
    BY <1>3, <2>1 DEF Tick
  <2>3. QED BY <1>0, <1>3, <2>2 DEF TypeOK, Tick, busVars, pollVars
<1>4. CASE Restart
  BY <1>0, <1>4, Values DEF TypeOK, Restart, busVars
<1>5. CASE UNCHANGED vars
  BY <1>0, <1>5 DEF TypeOK, vars
<1>6. QED BY <1>1, <1>2, <1>3, <1>4, <1>5 DEF Next, OwnStep

-----------------------------------------------------------------------------
(* A step of one query leaves the others alone. *)
LEMMA OthersUntouched ==
    ASSUME TypeOK, NEW q \in Queries, OwnStep(q), NEW p \in Queries, p # q
    PROVE  Untouched(p)
<1>1. CASE SubmitQuery(q) \/ SubmitPublish(q) \/ SubmitStore(q) \/ SubmitRespond(q)
  BY <1>1 DEF TypeOK, SubmitQuery, SubmitPublish, SubmitStore, SubmitRespond, busVars,
              pollVars, Untouched
<1>2. CASE handleSearchJob(q) \/ publishResult(q) \/ LoseJob(q) \/ LoseResult(q)
  BY <1>2 DEF TypeOK, handleSearchJob, publishResult, LoseJob, LoseResult, webVars,
              pollVars, Untouched
<1>3. CASE handleResult(q)
  BY <1>3 DEF TypeOK, handleResult, SetQueryResult, Untouched
<1>4. CASE GetQueryStatus(q) \/ readFields(q)
  BY <1>4 DEF TypeOK, GetQueryStatus, readFields, Answer, webVars, busVars, Untouched
<1>5. QED BY <1>1, <1>2, <1>3, <1>4 DEF OwnStep

(* A query nothing happens to stays as it was. *)
LEMMA UntouchedInv ==
    ASSUME NEW q \in Queries, QInv(q), Untouched(q)
    PROVE  QInv(q)'
BY DEF QInv, OneVerdict, PollIsTrue, SeenIsTrue, Untouched

(* The submission: the entry becomes pending only before the answer 202. *)
LEMMA SubmitInv ==
    ASSUME IInv, NEW q \in Queries,
           SubmitQuery(q) \/ SubmitPublish(q) \/ SubmitStore(q) \/ SubmitRespond(q)
    PROVE  QInv(q)'
<1>0. TypeOK /\ QInv(q)
  BY DEF IInv
<1>1. /\ UNCHANGED <<reply, outcome, poll, seen>>
      /\ submit[q] # "accepted"
      /\ \/ /\ submit[q] \in {"new", "publish", "respond"}
            /\ UNCHANGED results
         \/ submit[q] = "store" /\ results' = [results EXCEPT ![q] = "pending"]
  BY DEF SubmitQuery, SubmitPublish, SubmitStore, SubmitRespond, busVars, pollVars
<1>2. seen[q].status \notin Final /\ poll[q].at # "read"
  BY <1>0, <1>1, Values DEF QInv, SeenIsTrue, PollIsTrue
<1>3. /\ submit'[q] \in {"publish", "store", "refused", "respond", "accepted"}
      /\ submit'[q] = "publish" => submit[q] = "new" /\ search' = search
      /\ search'[q] = search[q] \/ (submit[q] = "publish" /\ search'[q] = "queued")
  <2>1. CASE SubmitQuery(q)
    BY <1>0, <2>1 DEF TypeOK, SubmitQuery, busVars
  <2>2. CASE SubmitPublish(q)
    BY <1>0, <2>2 DEF TypeOK, SubmitPublish
  <2>3. CASE SubmitStore(q)
    BY <1>0, <2>3 DEF TypeOK, SubmitStore, busVars
  <2>4. CASE SubmitRespond(q)
    BY <1>0, <2>4 DEF TypeOK, SubmitRespond, busVars
  <2>5. QED BY <2>1, <2>2, <2>3, <2>4
<1>4. OneVerdict(q)'
  BY <1>0, <1>1, <1>3 DEF QInv, OneVerdict
<1>5. PollIsTrue(q)'
  BY <1>1, <1>2 DEF PollIsTrue
<1>6. SeenIsTrue(q)'
  <2>1. seen[q].status = "none"
    BY <1>0, <1>1 DEF QInv, SeenIsTrue
  <2>2. results'[q] \in Final => results'[q] = results[q]
    BY <1>0, <1>1, Values DEF TypeOK
  <2>3. QED BY <1>0, <1>1, <2>1, <2>2, Values DEF QInv, SeenIsTrue
<1>7. QED BY <1>4, <1>5, <1>6 DEF QInv

(* The job: the verdict is given once, when nothing has repeated it yet. *)
LEMMA SearchInv ==
    ASSUME IInv, NEW q \in Queries,
           handleSearchJob(q) \/ publishResult(q) \/ LoseJob(q) \/ LoseResult(q)
    PROVE  QInv(q)'
<1>0. TypeOK /\ QInv(q)
  BY DEF IInv
<1>1. UNCHANGED <<submit, results, poll, seen>>
  BY DEF handleSearchJob, publishResult, LoseJob, LoseResult, webVars, pollVars
<1>2. CASE publishResult(q)
  <2>1. /\ outcome[q] = "none" /\ reply[q] = "none" /\ search'[q] = "done"
        /\ submit[q] \notin {"new", "publish"}
    BY <1>0, <1>2 DEF QInv, OneVerdict, publishResult, TypeOK
  <2>2. reply'[q] # "none" => outcome'[q] = reply'[q]
    BY <1>0, <1>2, <2>1 DEF publishResult, TypeOK
  <2>3. /\ results[q] \notin Final /\ seen[q].status \notin Final /\ ~seen[q].data
        /\ poll[q].at = "read" => poll[q].old \notin Final /\ poll[q].new \notin Final
    BY <1>0, <2>1, Values DEF QInv, PollIsTrue, SeenIsTrue, TypeOK
  <2>4. QED
    BY <1>0, <1>1, <2>1, <2>2, <2>3 DEF QInv, OneVerdict, PollIsTrue, SeenIsTrue
<1>3. CASE handleSearchJob(q) \/ LoseJob(q) \/ LoseResult(q)
  <2>1. /\ outcome' = outcome
        /\ reply'[q] \in {reply[q], "none"}
        /\ \/ search' = search
           \/ search[q] = "queued" /\ search'[q] # "done"
    BY <1>0, <1>3 DEF handleSearchJob, LoseJob, LoseResult, TypeOK
  <2>2. QED
    BY <1>0, <1>1, <2>1 DEF QInv, OneVerdict, PollIsTrue, SeenIsTrue
<1>4. QED BY <1>2, <1>3

(* The result: the entry, and a poll that points to it, get the verdict. *)
LEMMA ResultInv ==
    ASSUME IInv, NEW q \in Queries, handleResult(q)
    PROVE  QInv(q)'
<1>0. TypeOK /\ QInv(q)
  BY DEF IInv
<1>1. /\ UNCHANGED <<submit, search, outcome, seen>>
      /\ reply'[q] = "none"
      /\ results'[q] = reply[q] /\ reply[q] \in Final /\ outcome[q] = reply[q]
  BY <1>0 DEF handleResult, SetQueryResult, TypeOK, QInv, OneVerdict
<1>2. /\ poll'[q].at = poll[q].at /\ poll'[q].old = poll[q].old
      /\ poll'[q].new \in {poll[q].new, reply[q]}
  BY <1>0 DEF handleResult, SetQueryResult, TypeOK
<1>3. QED
  BY <1>0, <1>1, <1>2, Values DEF QInv, OneVerdict, PollIsTrue, SeenIsTrue

(* The polls: what is read is the entry's history. *)
LEMMA PollInv ==
    ASSUME IInv, NEW q \in Queries, GetQueryStatus(q) \/ readFields(q)
    PROVE  QInv(q)'
<1>0. TypeOK /\ QInv(q)
  BY DEF IInv
<1>1. UNCHANGED <<submit, results, search, reply, outcome>>
  BY DEF GetQueryStatus, readFields, webVars, busVars
<1>2. OneVerdict(q)'
  BY <1>0, <1>1 DEF QInv, OneVerdict
<1>3. CASE GetQueryStatus(q)
  <2>1. CASE results[q] = "none"
    <3>1. seen'[q].status = "notfound" /\ seen'[q].data = FALSE /\ poll'[q].at = "idle"
          /\ submit[q] = "accepted"
      BY <1>0, <1>3, <2>1 DEF GetQueryStatus, Answer, NoPoll, TypeOK
    <3>2. QED BY <1>0, <1>1, <1>2, <3>1, Values DEF QInv, PollIsTrue, SeenIsTrue
  <2>2. CASE results[q] # "none"
    <3>1. /\ seen' = seen /\ submit[q] = "accepted"
          /\ poll'[q].old = results[q] /\ poll'[q].new = results[q]
      BY <1>0, <1>3, <2>2 DEF GetQueryStatus, TypeOK
    <3>2. QED BY <1>0, <1>1, <1>2, <2>2, <3>1, Values DEF QInv, PollIsTrue, SeenIsTrue
  <2>3. QED BY <2>1, <2>2
<1>4. CASE readFields(q)
  <2>1. PICK s, b \in {poll[q].old, poll[q].new} : Answer(q, s, HasData(b))
    BY <1>4 DEF readFields
  <2>2. /\ seen'[q].status = s /\ seen'[q].data = HasData(b) /\ poll'[q].at = "idle"
        /\ poll[q].at = "read"
    BY <1>0, <1>4, <2>1 DEF Answer, NoPoll, TypeOK, readFields
  <2>3. /\ submit[q] = "accepted"
        /\ s \in Final => outcome[q] = s /\ results[q] # "pending"
        /\ b \in Final => outcome[q] = b
    BY <1>0, <2>1, <2>2 DEF QInv, PollIsTrue
  <2>4. HasData(b) => outcome[q] # "none"
    BY <2>3, Values DEF HasData
  <2>5. PollIsTrue(q)'
    BY <2>2 DEF PollIsTrue
  <2>6. SeenIsTrue(q)'
    BY <1>0, <1>1, <2>2, <2>3, <2>4 DEF QInv, SeenIsTrue
  <2>7. QED BY <1>2, <2>5, <2>6 DEF QInv
<1>5. QED BY <1>3, <1>4

(* Expiry and restarts only take entries, polls and submissions away. *)
LEMMA RemovalInv ==
    ASSUME IInv, NEW q \in Queries, cleanupExpiredResults \/ Restart
    PROVE  QInv(q)'
<1>0. TypeOK /\ QInv(q)
  BY DEF IInv
<1>1. /\ results'[q] \in {results[q], "none"}
      /\ UNCHANGED <<search, reply, outcome, seen>>
      /\ \/ poll'[q] = poll[q] /\ submit'[q] = submit[q]
         \/ /\ poll'[q] = NoPoll
            /\ \/ submit'[q] = submit[q]
               \/ submit'[q] = "aborted" /\ submit[q] # "accepted"
  <2>1. CASE cleanupExpiredResults
    BY <2>1 DEF cleanupExpiredResults, Remove, busVars, pollVars
  <2>2. CASE Restart
    BY <2>2 DEF Restart, busVars
  <2>3. QED BY <2>1, <2>2
<1>2. QED
  BY <1>0, <1>1, Values DEF QInv, OneVerdict, PollIsTrue, SeenIsTrue, NoPoll

(* Every step keeps the invariant of every query. *)
LEMMA QueryStep ==
    ASSUME IInv, [Next]_vars, NEW q \in Queries
    PROVE  QInv(q)'
<1>0. TypeOK /\ QInv(q)
  BY DEF IInv
<1>1. ASSUME NEW p \in Queries, OwnStep(p)
      PROVE  QInv(q)'
  <2>1. CASE p = q
    BY <1>1, <2>1, SubmitInv, SearchInv, ResultInv, PollInv DEF OwnStep
  <2>2. CASE p # q
    BY <1>0, <1>1, <2>2, OthersUntouched, UntouchedInv
  <2>3. QED BY <2>1, <2>2
<1>2. CASE cleanupExpiredResults \/ Restart
  BY <1>2, RemovalInv
<1>3. CASE Tick \/ UNCHANGED vars
  <2>1. Untouched(q)
    BY <1>3 DEF Tick, vars, busVars, pollVars, Untouched
  <2>2. QED BY <1>0, <2>1, UntouchedInv
<1>4. QED BY <1>1, <1>2, <1>3 DEF Next, OwnStep

(* The invariant holds at the start, and of every behaviour. *)
LEMMA Invariance == Spec => []IInv
<1>1. Init => IInv
  <2> SUFFICES ASSUME Init PROVE IInv
    OBVIOUS
  <2>1. NotSeen \in [status : Status \cup {"none", "notfound"}, data : BOOLEAN]
    BY Values DEF NotSeen
  <2>2. TypeOK
    BY <2>1, Values DEF Init, TypeOK
  <2>3. \A q \in Queries : QInv(q)
    BY Values DEF Init, QInv, OneVerdict, PollIsTrue, SeenIsTrue, NoPoll, NotSeen
  <2>4. QED BY <2>2, <2>3 DEF IInv
<1>2. IInv /\ [Next]_vars => IInv'
  BY TypeStep, QueryStep DEF IInv
<1>3. QED BY <1>1, <1>2, PTL DEF Spec

(* Submissions, entries, messages and polls keep their types.              *)
THEOREM AsyncQueryType == Spec => []TypeOK
<1>1. IInv => TypeOK
  BY DEF IInv
<1>2. QED BY <1>1, Invariance, PTL

(* Whatever SetQueryResult, SubmitQuery, the expiry and polls that read    *)
(* unlocked fields do to each other, no entry and no answer says anything  *)
(* the search service did not say of that query.                           *)
THEOREM ResultIsTrueHolds == Spec => []ResultIsTrue
<1>1. IInv => ResultIsTrue
  BY DEF IInv, QInv, SeenIsTrue, ResultIsTrue
<1>2. QED BY <1>1, Invariance, PTL

(* No client that was told how its query ended is later told that it is    *)
(* pending, or that it ended the other way.                                *)
THEOREM PollMonotoneHolds == Spec => PollMonotone
<1>1. ASSUME IInv, [Next]_vars, NEW q \in Queries, seen[q].status \in Final
      PROVE  seen'[q].status \in {seen[q].status, "notfound"}
  <2>0. TypeOK /\ QInv(q)
    BY <1>1 DEF IInv
  <2>1. ASSUME NEW p \in Queries, OwnStep(p)
        PROVE  seen'[q].status \in {seen[q].status, "notfound"}
    <3>1. CASE p # q
      BY <2>0, <2>1, <3>1, <1>1, OthersUntouched DEF Untouched
    <3>2. CASE p = q /\ GetQueryStatus(q)
      BY <2>0, <3>2 DEF GetQueryStatus, Answer, TypeOK
    <3>3. CASE p = q /\ readFields(q)
      <4>1. PICK s, b \in {poll[q].old, poll[q].new} : Answer(q, s, HasData(b))
        BY <3>3 DEF readFields
      <4>2. seen'[q].status = s
        BY <2>0, <4>1 DEF Answer, TypeOK
      <4>3. s \in Final /\ outcome[q] = s /\ outcome[q] = seen[q].status
        BY <2>0, <3>3, <4>1, <1>1
           DEF TypeOK, Status, QInv, PollIsTrue, SeenIsTrue, readFields
      <4>4. QED BY <4>2, <4>3
    <3>4. CASE p = q /\ ~GetQueryStatus(q) /\ ~readFields(q)
      <4>1. seen' = seen
        BY <2>1, <3>4 DEF OwnStep, SubmitQuery, SubmitPublish, SubmitStore, SubmitRespond,
              handleSearchJob, publishResult, handleResult, LoseJob, LoseResult, pollVars
      <4>2. QED BY <4>1
    <3>5. QED BY <3>1, <3>2, <3>3, <3>4
  <2>2. CASE cleanupExpiredResults \/ Restart \/ Tick \/ UNCHANGED vars
    BY <2>2 DEF cleanupExpiredResults, Remove, Restart, Tick, vars, pollVars
  <2>3. QED BY <1>1, <2>1, <2>2 DEF Next, OwnStep
<1> DEFINE Monotone ==
        \A q \in Queries :
            seen[q].status \in Final => seen'[q].status \in {seen[q].status, "notfound"}
<1>2. IInv /\ [Next]_vars => [Monotone]_seen
  BY <1>1
<1>3. QED BY <1>2, Invariance, PTL DEF Spec, PollMonotone
=============================================================================
