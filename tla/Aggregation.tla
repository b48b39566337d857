----------------------------- MODULE Aggregation -----------------------------
(***************************************************************************)
(* aggregateResults of the search service (search/internal/nats/           *)
(* handler.go): the events a correlation query found are grouped by a      *)
(* field, and the groups that reach the threshold are the job's matches.   *)
(* The behaviours run it once on every bounded input.                      *)
(***************************************************************************)
EXTENDS Integers, Sequences, FiniteSets, SequencesExt

CONSTANTS Values,        \* values of the aggregation field
          MaxEvents,     \* bound on the events of one job
          MaxThreshold   \* bound on the threshold of a schema

Absent == ""
Unknown == "_unknown"
All == "_all"

\* A value may be the string that stands for events without one.
ASSUME AggregationAssumption ==
    MaxEvents \in Nat /\ MaxThreshold \in Nat /\ Absent \notin Values

(* An event is the string in its aggregation field, if it has one.  A path *)
(* into a nested object is not followed, so such an event has none.        *)
EventKinds == [field : Values \cup {Absent}]

VARIABLES events,     \* what ExecuteSearch returned
          grouped,    \* whether the schema has an aggregation key
          threshold,  \* the schema's threshold
          matches,    \* the job's matches
          done        \* aggregateResults has returned

aggregationVars == <<events, grouped, threshold, matches, done>>

(* event[field] as a string; "" when it is missing. *)
extractStringField(e) == e.field

KeyOf(e) == IF extractStringField(e) = Absent THEN Unknown ELSE extractStringField(e)

(* groups[key] = append(groups[key], event), for each event in order. *)
groupEvents(evs) ==
    LET groups[n \in 0 .. Len(evs)] ==
          IF n = 0 THEN [k \in Values \cup {Unknown} |-> <<>>]
          ELSE [groups[n - 1] EXCEPT ![KeyOf(evs[n])] = Append(@, evs[n])]
    IN  groups[Len(evs)]

(* Mutation of aggregateResults: more events than the threshold. *)
AggregateAbove(evs, byKey, min) ==
    IF ~byKey THEN {[key |-> All, count |-> Len(evs)] : x \in {y \in {1} : Len(evs) > min}}
    ELSE LET groups == groupEvents(evs)
         IN  {[key |-> k, count |-> Len(groups[k])] :
                k \in {x \in DOMAIN groups : groups[x] # <<>> /\ Len(groups[x]) > min}}

(* Without a key the events are one group, even when there are none; with  *)
(* one, a group exists for every key that occurs.                          *)
aggregateResults(evs, byKey, min) ==
    IF ~byKey
    THEN IF Len(evs) >= min THEN {[key |-> All, count |-> Len(evs)]} ELSE {}
    ELSE LET groups == groupEvents(evs)
         IN  {[key |-> k, count |-> Len(groups[k])] :
                k \in {x \in DOMAIN groups : groups[x] # <<>> /\ Len(groups[x]) >= min}}

AggregationInit ==
    /\ events \in UNION {[1 .. n -> EventKinds] : n \in 0 .. MaxEvents}
    /\ grouped \in BOOLEAN
    /\ threshold \in 0 .. MaxThreshold
    /\ matches = {}
    /\ done = FALSE

Aggregate ==
    /\ ~done
    /\ done' = TRUE
    /\ matches' = aggregateResults(events, grouped, threshold)
    /\ UNCHANGED <<events, grouped, threshold>>

AggregationSpec == AggregationInit /\ [][Aggregate]_aggregationVars

\* No job: what the variables hold when another component is checked.
AggregationIdle ==
    /\ events = <<>> /\ grouped = FALSE /\ threshold = 1
    /\ matches = {} /\ done = TRUE

-----------------------------------------------------------------------------
(* The reference: the events that carry a value, or one of several.        *)
CountWith(values) == Cardinality({i \in DOMAIN events : events[i].field \in values})

(* A value of the field triggers exactly when enough events carry it, with *)
(* exactly their number; events without the field are counted together,    *)
(* with those that say "_unknown", and never into another value's group;   *)
(* without a key all events count.                                         *)
MatchesAreExact ==
    done =>
       /\ grouped =>
             /\ \A v \in Values \ {Unknown} :
                LET n == CountWith({v})
                IN  /\ [key |-> v, count |-> n] \in matches <=> n > 0 /\ n >= threshold
                    /\ \A m \in matches : m.key = v => m.count = n
             /\ LET n == CountWith({Absent, Unknown})
                IN  /\ [key |-> Unknown, count |-> n] \in matches <=> n > 0 /\ n >= threshold
                    /\ \A m \in matches : m.key = Unknown => m.count = n
       /\ ~grouped => (matches # {} <=> Len(events) >= threshold)
       /\ \A m, n \in matches : m.key = n.key => m = n
       /\ \A m \in matches : m.count <= Len(events)
=============================================================================
