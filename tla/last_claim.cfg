\* Run last_claim of PROJECT.json; bounds are explained in README.md.
CONSTANTS
    Pids = {p1}
    Pks = {k1}
    Shards = {0, 1}
    AllShardId = AllShardId
    Threads = {t1}
    MaxNumPidsPerPk = 3
    SubTypes = {}
    RegularPeer = RegularPeer
    Epochs = {}
    StartEpoch = 0
    NotValidator = NotValidator
    OracleRotation = FALSE
    CapacityEviction = FALSE
SPECIFICATION Spec
INVARIANT FallbackReflectsLastClaim
