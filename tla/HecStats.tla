------------------------------ MODULE HecStats ------------------------------
(***************************************************************************)
(* The usage statistics of HEC tokens (common/hecstats): handlers record   *)
(* into one batch per token, a loop swaps the batches out and writes them  *)
(* to Redis one by one, and merges a batch whose write failed back into    *)
(* what was recorded meanwhile.  The commands of a write are a pipeline,   *)
(* not a transaction: a failed write may have applied any of the first.    *)
(***************************************************************************)
EXTENDS Integers, FiniteSets

CONSTANTS
  HecTokens,    \* token ids
  Addresses,    \* client addresses
  NoAddress,    \* the address of a client whose address does not parse
  MaxRecords,   \* bound on the events recorded for a token
  MaxFailures   \* bound on the writes that fail

ASSUME HecStatsAssumption == NoAddress \notin Addresses

VARIABLES
  batches,   \* batches[t]: recorded and not being flushed
  flushing,  \* flushing[t]: swapped out by the flush under way
  flusher,   \* the loop: waiting, flushing, in its final flush, or stopped
  usage,     \* usage[t]: the keys in Redis
  counted    \* what was recorded, failed, applied twice, or recorded too late

hecStatsVars == <<batches, flushing, flusher, usage, counted>>

NewBatchUpdate == [count |-> 0, ips |-> {}, last |-> NoAddress]
NoBatches == [t \in HecTokens |-> NewBatchUpdate]

HecStatsInit ==
  /\ batches = NoBatches
  /\ flushing = NoBatches
  /\ flusher = "waiting"
  /\ usage = [t \in HecTokens |-> [total |-> 0, hourly |-> 0, ips |-> {},
                                   last |-> NoAddress]]
  /\ counted = [t \in HecTokens |-> [recorded |-> 0, ips |-> {}, againTotal |-> 0,
                                     againHourly |-> 0, failures |-> 0, left |-> FALSE]]

\* Record, with the events of one request.  Nobody flushes what is recorded
\* once the final flush has swapped the batches.
Record(t, ip) ==
  /\ counted[t].recorded < MaxRecords
  /\ batches' = [batches EXCEPT
       ![t] = [count |-> @.count + 1,
               ips |-> IF ip = NoAddress THEN @.ips ELSE @.ips \cup {ip},
               last |-> IF ip = NoAddress THEN @.last ELSE ip]]
  /\ counted' = [counted EXCEPT
       ![t].recorded = @ + 1, ![t].ips = @ \cup ({ip} \ {NoAddress}),
       ![t].left = @ \/ flusher \in {"final", "stopped"}]
  /\ UNCHANGED <<flushing, flusher, usage>>

Swap ==
  /\ flushing' = batches
  /\ batches' = NoBatches
  /\ UNCHANGED <<usage, counted>>

\* The ticker fires.
StartFlush ==
  /\ flusher = "waiting"
  /\ flusher' = "flushing"
  /\ Swap

\* A plausible mistake: Stop ends the loop without a last flush.
StopOnly ==
  /\ flusher = "waiting"
  /\ flusher' = "stopped"
  /\ UNCHANGED <<batches, flushing, usage, counted>>

\* Stop cancels the context: the loop flushes once more and ends.
FinalFlush ==
  /\ flusher = "waiting"
  /\ flusher' = "final"
  /\ Swap

\* The first n commands of FlushBatch: the last address, the total, the hour
\* and the day, the addresses.
Applied(u, batch, n) ==
  [last |-> IF n >= 1 THEN batch.last ELSE u.last,
   total |-> IF n >= 2 THEN u.total + batch.count ELSE u.total,
   hourly |-> IF n >= 3 THEN u.hourly + batch.count ELSE u.hourly,
   ips |-> IF n >= 4 THEN u.ips \cup batch.ips ELSE u.ips]

FlushBatch(t) ==
  /\ flushing[t].count > 0
  /\ usage' = [usage EXCEPT ![t] = Applied(@, flushing[t], 4)]
  /\ flushing' = [flushing EXCEPT ![t] = NewBatchUpdate]
  /\ UNCHANGED <<batches, flusher, counted>>

\* A plausible mistake: what was recorded meanwhile is replaced.
PutBack(existing, batch) == batch

\* The merge of a failed batch; with nothing recorded it is put back as it is.
Merge(existing, batch) ==
  [count |-> existing.count + batch.count,
   ips |-> existing.ips \cup batch.ips,
   last |-> IF batch.last # NoAddress THEN batch.last ELSE existing.last]

FlushFails(t) ==
  /\ flushing[t].count > 0
  /\ counted[t].failures < MaxFailures
  /\ \E n \in 0 .. 4 :
       /\ usage' = [usage EXCEPT ![t] = Applied(@, flushing[t], n)]
       /\ counted' = [counted EXCEPT
            ![t].failures = @ + 1,
            ![t].againTotal = @ + (IF n >= 2 THEN flushing[t].count ELSE 0),
            ![t].againHourly = @ + (IF n >= 3 THEN flushing[t].count ELSE 0),
            ![t].left = @ \/ flusher = "final"]
  /\ batches' = [batches EXCEPT ![t] = Merge(@, flushing[t])]
  /\ flushing' = [flushing EXCEPT ![t] = NewBatchUpdate]
  /\ UNCHANGED flusher

EndFlush ==
  /\ flusher \in {"flushing", "final"}
  /\ \A t \in HecTokens : flushing[t].count = 0
  /\ flusher' = IF flusher = "final" THEN "stopped" ELSE "waiting"
  /\ UNCHANGED <<batches, flushing, usage, counted>>

HecStatsNext ==
  \/ StartFlush \/ FinalFlush \/ EndFlush
  \/ \E t \in HecTokens :
       \/ FlushBatch(t) \/ FlushFails(t)
       \/ \E ip \in Addresses \cup {NoAddress} : Record(t, ip)

HecStatsSpec == HecStatsInit /\ [][HecStatsNext]_hecStatsVars

-----------------------------------------------------------------------------
(***************************************************************************)
(* What is checked.                                                        *)
(***************************************************************************)
\* Records, flushes and failed flushes, in any order, lose no event and count
\* none twice, except that a batch is counted again when a failed write had
\* applied its increment; addresses are never lost (Record, flush, FlushBatch).
CountsAddUp ==
  \A t \in HecTokens :
    LET pending == batches[t].count + flushing[t].count
    IN  /\ usage[t].total + pending = counted[t].recorded + counted[t].againTotal
        /\ usage[t].hourly + pending = counted[t].recorded + counted[t].againHourly
        /\ usage[t].ips \cup batches[t].ips \cup flushing[t].ips = counted[t].ips

\* When Stop has returned, everything recorded is in Redis, unless it was
\* recorded after the last swap or the last write failed.
StopFlushes ==
  flusher = "stopped" =>
    \A t \in HecTokens : batches[t].count > 0 => counted[t].left

\* Usage is conserved from the first record to the end of the process.
UsageIsConserved == CountsAddUp /\ StopFlushes
=============================================================================
