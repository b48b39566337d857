----------------------------- MODULE MCAlgorithms -----------------------------
(* The algorithms that only read what they are given: in a behaviour one of *)
(* them has an input and the others are idle.                               *)
EXTENDS Aggregation, Normalization, FilterChips, Paging, Authorization

algorithmVars == <<aggregationVars, pipeline, query, listing, decision, console>>

Idle == [at |-> "idle"]

AlgorithmsIdle ==
    /\ AggregationIdle
    /\ pipeline = Idle /\ query = Idle /\ listing = Idle /\ decision = Idle
    /\ console = Idle

AlgorithmsInit ==
    \/ /\ AggregationInit
       /\ pipeline = Idle /\ query = Idle /\ listing = Idle /\ decision = Idle
       /\ console = Idle
    \/ /\ NormalizationInit /\ AggregationIdle
       /\ query = Idle /\ listing = Idle /\ decision = Idle /\ console = Idle
    \/ /\ QueryInit /\ AggregationIdle
       /\ pipeline = Idle /\ listing = Idle /\ decision = Idle /\ console = Idle
    \/ /\ PagingInit /\ AggregationIdle
       /\ pipeline = Idle /\ query = Idle /\ decision = Idle /\ console = Idle
    \/ /\ AuthorizationInit /\ AggregationIdle
       /\ pipeline = Idle /\ query = Idle /\ listing = Idle /\ console = Idle
    \/ /\ ConsoleInit /\ AggregationIdle
       /\ pipeline = Idle /\ query = Idle /\ listing = Idle /\ decision = Idle

AlgorithmsNext ==
    \/ Aggregate /\ UNCHANGED <<pipeline, query, listing, decision, console>>
    \/ ProcessRequest /\ UNCHANGED <<aggregationVars, query, listing, decision, console>>
    \/ ExecuteQuery /\ UNCHANGED <<aggregationVars, pipeline, listing, decision, console>>
    \/ RunSavedSearch /\ UNCHANGED <<aggregationVars, pipeline, listing, decision, console>>
    \/ PagingNext /\ UNCHANGED <<aggregationVars, pipeline, query, decision, console>>
    \/ Decide /\ UNCHANGED <<aggregationVars, pipeline, query, listing, console>>
    \/ ConsoleNext /\ UNCHANGED <<aggregationVars, pipeline, query, listing, decision>>

AlgorithmsSpec == AlgorithmsInit /\ [][AlgorithmsNext]_algorithmVars
=============================================================================
