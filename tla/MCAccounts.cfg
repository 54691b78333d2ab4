SPECIFICATION MCSpec
INVARIANTS TypeOK SingleUse SessionKept RefreshFanout RevokeTakesEffect ToldIsCommitted
           InheritedFromLine
PROPERTIES HouseholdKept GrantFollowsLogin
CHECK_DEADLOCK FALSE
