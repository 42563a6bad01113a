SPECIFICATION RoutingSpec
CONSTANT MaxMarkers = 3
INVARIANTS DecisionSafe 
