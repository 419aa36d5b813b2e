\* Close leaves the outport handler running.
CONSTANTS
    MetachainShardId = Meta
    ShardIds <- MCShardIds
    RoundDurations = {500, 1000}
    RefreshIntervals = {0, 1}
    Epochs = {1, 2}
    MaxEpochStarts = 2
SPECIFICATION Spec
CHECK_DEADLOCK FALSE
INVARIANT CloseReleasesEverything
