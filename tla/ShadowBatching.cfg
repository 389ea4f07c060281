SPECIFICATION Spec
CONSTANTS
    NUM_BATCHES = 3
    SHADOW_WINDOW = 2
    Builds <- WorkingBuilds
    Garbage = {0}
    MaxEntries = 8
INVARIANTS TypeOK OneHolder NoCircularWait ReplaysArePast
PROPERTIES InOrder NeverStuck WaitUsesUpWork
