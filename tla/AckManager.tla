----------------------------- MODULE AckManager -----------------------------
(***************************************************************************)
(* The HEC acknowledgement manager (ingest/internal/ack/manager.go): an    *)
(* in-memory map from ack id to its status, the time since the status was  *)
(* last written, and the gauge of pending acks it exports.  Every          *)
(* operation below runs under the manager's mutex and is one step.  The    *)
(* callers, and the order in which they call, are in IngestService.        *)
(***************************************************************************)
EXTENDS Integers, FiniteSets

CONSTANTS AckIDs,   \* the ids uuid.New() will ever hand out: one per event
          AckTTL    \* Manager.ttl, in clock ticks

ASSUME AckTTLAssumption == AckTTL \in Nat
ASSUME AckIDsAssumption == IsFiniteSet(AckIDs)

VARIABLES acks,     \* Manager.acks: id -> status, "none" when there is no entry
          age,      \* ticks since Ack.Timestamp, saturating just past the TTL
          gauge     \* metrics.AcksPending

ackVars == <<acks, age, gauge>>

AckStatus == {"none", "pending", "success", "failed"}

AckTypeOK ==
    /\ acks \in [AckIDs -> AckStatus]
    /\ age \in [AckIDs -> 0 .. AckTTL + 1]
    /\ gauge \in Int

AckInit ==
    /\ acks = [a \in AckIDs |-> "none"]
    /\ age = [a \in AckIDs |-> 0]
    /\ gauge = 0

(* The gauge is incremented just after the unlock.  It is atomic and no    *)
(* code reads it, so the increment commutes with every step in between and *)
(* is taken together with the insertion.                                   *)
Create(a) ==
    /\ acks' = [acks EXCEPT ![a] = "pending"]
    /\ age' = [age EXCEPT ![a] = 0]
    /\ gauge' = gauge + 1

(* Complete and Fail write the status of an existing entry whatever it was. *)
Resolve(a, status) ==
    IF acks[a] # "none"
    THEN /\ acks' = [acks EXCEPT ![a] = status]
         /\ age' = [age EXCEPT ![a] = 0]
         /\ gauge' = gauge - 1
    ELSE UNCHANGED ackVars

Complete(a) == Resolve(a, "success")

Fail(a) == Resolve(a, "failed")

(* What Query answers for a: an id without entry is left out of the answer. *)
QueryTrue == {a \in AckIDs : acks[a] = "success"}

GetPending == {a \in AckIDs : acks[a] = "pending"}

Expired == {a \in AckIDs : acks[a] # "none" /\ age[a] > AckTTL}

(* Mutation of cleanup: the gauge drops for every entry that is removed. *)
CleanupDecrementsAll ==
    /\ Expired # {}
    /\ acks' = [a \in AckIDs |-> IF a \in Expired THEN "none" ELSE acks[a]]
    /\ age' = [a \in AckIDs |-> IF a \in Expired THEN 0 ELSE age[a]]
    /\ gauge' = gauge - Cardinality(Expired)

(* One pass of cleanup, under the lock: every expired entry goes, and the  *)
(* gauge drops for those that were still pending.                          *)
cleanup ==
    /\ Expired # {}
    /\ acks' = [a \in AckIDs |-> IF a \in Expired THEN "none" ELSE acks[a]]
    /\ age' = [a \in AckIDs |-> IF a \in Expired THEN 0 ELSE age[a]]
    /\ gauge' = gauge - Cardinality(Expired \cap GetPending)

(* time.Now() moves on: every entry gets older. *)
AckTick ==
    /\ \E a \in AckIDs : acks[a] # "none" /\ age[a] <= AckTTL
    /\ age' = [a \in AckIDs |-> IF acks[a] # "none" /\ age[a] <= AckTTL
                                THEN age[a] + 1 ELSE age[a]]
    /\ UNCHANGED <<acks, gauge>>
=============================================================================
