\* Run query of PROJECT.json; bounds are explained in README.md.
CONSTANTS
    Pids = {p1, p2, p3, p4}
    Pks = {k1}
    Shards = {0, 1}
    AllShardId = AllShardId
    Threads = {t1}
    MaxNumPidsPerPk = 3
    SubTypes = {RegularPeer, FullHistoryObserver}
    RegularPeer = RegularPeer
    Epochs = {1}
    StartEpoch = 0
    NotValidator = NotValidator
    OracleRotation = TRUE
    CapacityEviction = FALSE
SPECIFICATION Spec
SYMMETRY PidSymmetry
INVARIANT UnboundPeerIsUnknown
