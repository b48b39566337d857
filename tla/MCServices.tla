------------------------------ MODULE MCServices ------------------------------
(* The smaller services and the algorithms, one at a time: they share no state, *)
(* and in a behaviour one of them moves and the others stay as they start.      *)
EXTENDS MCAlgorithms, DetectionSchemas, HecStats, RateLimiter, DeadLetterFiles,
        IndexBootstrap, SavedSearches, AuditLog, TLC

VARIABLE active   \* the service that moves, or "algorithm"

serviceVars ==
    <<schemaVars, hecStatsVars, rateVars, dlqVars, bootVars, savedVars, auditVars>>

Init ==
    /\ \/ /\ active \in {"schemas", "statistics", "limiter", "deadLetters",
                         "indices", "savedSearches", "audit"}
          /\ AlgorithmsIdle
       \/ /\ active = "algorithm"
          /\ AlgorithmsInit
    /\ SchemaInit /\ HecStatsInit /\ RateInit /\ DlqInit /\ BootInit
    /\ SavedInit /\ AuditInit

ServiceNext ==
    \/ /\ active = "schemas" /\ SchemaNext
       /\ UNCHANGED <<hecStatsVars, rateVars, dlqVars, bootVars, savedVars, auditVars>>
    \/ /\ active = "statistics" /\ HecStatsNext
       /\ UNCHANGED <<schemaVars, rateVars, dlqVars, bootVars, savedVars, auditVars>>
    \/ /\ active = "limiter" /\ RateNext
       /\ UNCHANGED <<schemaVars, hecStatsVars, dlqVars, bootVars, savedVars, auditVars>>
    \/ /\ active = "deadLetters" /\ DlqNext
       /\ UNCHANGED <<schemaVars, hecStatsVars, rateVars, bootVars, savedVars, auditVars>>
    \/ /\ active = "indices" /\ BootNext
       /\ UNCHANGED <<schemaVars, hecStatsVars, rateVars, dlqVars, savedVars, auditVars>>
    \/ /\ active = "savedSearches" /\ SavedNext
       /\ UNCHANGED <<schemaVars, hecStatsVars, rateVars, dlqVars, bootVars, auditVars>>
    \/ /\ active = "audit" /\ AuditNext
       /\ UNCHANGED <<schemaVars, hecStatsVars, rateVars, dlqVars, bootVars, savedVars>>

Next ==
    /\ UNCHANGED active
    /\ \/ ServiceNext /\ UNCHANGED algorithmVars
       \/ active = "algorithm" /\ AlgorithmsNext /\ UNCHANGED serviceVars

ServicesSpec == Init /\ [][Next]_<<active, serviceVars, algorithmVars>>

Symmetry == Permutations(Callers) \cup Permutations(Editors)
=============================================================================
