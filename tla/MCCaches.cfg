SPECIFICATION MCSpec
INVARIANTS TypeOK SeenIsCached StaleBounded RevocationLag FirstMatchWins
PROPERTIES InvalidationReaches FleetCap
CHECK_DEADLOCK FALSE
