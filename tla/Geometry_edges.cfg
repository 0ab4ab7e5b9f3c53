SPECIFICATION FairSpec
CONSTANT Requests <- Edges
INVARIANT NearestExact
INVARIANT CastsLoseNothing
INVARIANT WithinACylinder
PROPERTY AlwaysMade
CHECK_DEADLOCK FALSE
