SPECIFICATION CommitSpec
CONSTANTS
    Addrs = {p, q}
    MaxIters = 2
    MaxAccesses = 3
    SHADOW_WINDOW = 4
    TrackChoices <- AllTracks
INVARIANT EveryAddressReported
