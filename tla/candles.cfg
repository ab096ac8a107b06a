SPECIFICATION IngestSpec
CONSTANTS
    MaxBlock = 5
    MaxBlocksPerTick = 2
    MaxLagBlocks = 3
    BucketBlocks = 2
    MaxTickFailures = 0
    Watchers = {}
INVARIANT CandleKeepsSwaps
CHECK_DEADLOCK FALSE
