SPECIFICATION Spec
CONSTANTS
    NUM_BATCHES = 2
    SHADOW_WINDOW = 2
    Builds <- DefaultBuild
    Garbage = {0, 1}
    MaxEntries = 5
PROPERTY ReportCompletes
CHECK_DEADLOCK FALSE
