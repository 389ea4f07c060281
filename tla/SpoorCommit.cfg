SPECIFICATION CommitSpec
CONSTANTS
    Addrs = {p, q}
    MaxIters = 3
    MaxAccesses = 5
    SHADOW_WINDOW = 4
    TrackChoices <- SomeTracks
INVARIANTS CommitTypeOK ClassIsReference WholeIterationsReported NothingInvented
PROPERTIES ClassOnlyRises
