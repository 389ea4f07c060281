SPECIFICATION Spec
CONSTANTS
    NUM_BATCHES = 2
    SHADOW_WINDOW = 2
    Builds <- DefaultBuild
    Garbage = {0}
    MaxEntries = 5
INVARIANT ExecutedOnce
