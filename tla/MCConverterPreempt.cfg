SPECIFICATION Spec
INVARIANTS TypeOK GatesWatched RelayFollowsState
PROPERTIES ErrorBlocksGates
