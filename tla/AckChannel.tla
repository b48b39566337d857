----------------------------- MODULE AckChannel -----------------------------
(***************************************************************************)
(* What the HEC acknowledgement channel promises a client, without queue,  *)
(* goroutines or timers.  Each event gets one verdict, which never         *)
(* changes; the ack shows that verdict or, once it is forgotten, nothing.  *)
(* An event is acknowledged only after the storage layer took it, and one  *)
(* reported as failed is not, and will not be, in the storage layer's      *)
(* hands, so that sending it again makes no duplicate.                     *)
(***************************************************************************)
EXTENDS Naturals

CONSTANT Events

VARIABLES verdict,  \* what the service decided about each event
          ack,      \* what a query of its ack shows
          store     \* whether the storage layer took it, or dropped it since

vars == <<verdict, ack, store>>

TypeOK ==
    /\ verdict \in [Events -> {"unissued", "open", "success", "failed", "lost"}]
    /\ ack \in [Events -> {"none", "pending", "success", "failed"}]
    /\ store \in [Events -> {"none", "taken", "dropped"}]

Init ==
    /\ verdict = [e \in Events |-> "unissued"]
    /\ ack = [e \in Events |-> "none"]
    /\ store = [e \in Events |-> "none"]

Issue(e) ==
    /\ verdict[e] = "unissued"
    /\ verdict' = [verdict EXCEPT ![e] = "open"]
    /\ ack' = [ack EXCEPT ![e] = "pending"]
    /\ UNCHANGED store

Decide(e, v) ==
    /\ verdict[e] = "open"
    /\ v = "success" => store[e] # "none"
    /\ v = "failed" => store[e] # "taken"
    /\ verdict' = [verdict EXCEPT ![e] = v]
    /\ ack' = [ack EXCEPT ![e] = IF @ = "none" THEN "none" ELSE v]
    /\ UNCHANGED store

Take(e) ==
    /\ verdict[e] = "open"
    /\ store[e] = "none"
    /\ store' = [store EXCEPT ![e] = "taken"]
    /\ UNCHANGED <<verdict, ack>>

Drop(e) ==
    /\ store[e] = "taken"
    /\ store' = [store EXCEPT ![e] = "dropped"]
    /\ UNCHANGED <<verdict, ack>>

Forget(S) ==
    /\ ack' = [e \in Events |-> IF e \in S THEN "none" ELSE ack[e]]
    /\ UNCHANGED <<verdict, store>>

Restart ==
    /\ ack' = [e \in Events |-> "none"]
    /\ verdict' = [e \in Events |-> IF verdict[e] = "open" THEN "lost" ELSE verdict[e]]
    /\ UNCHANGED store

Next ==
    \/ \E e \in Events :
          \/ Issue(e)
          \/ \E v \in {"success", "failed"} : Decide(e, v)
          \/ Take(e)
          \/ Drop(e)
    \/ \E S \in SUBSET Events : Forget(S)
    \/ Restart

Spec == Init /\ [][Next]_vars
=============================================================================
