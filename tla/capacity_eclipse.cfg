\* Run capacity_eclipse of PROJECT.json; bounds are explained in README.md.
CONSTANTS
    Pids = {p1, p2, p3, p4}
    Pks = {k1}
    Shards = {0}
    AllShardId = AllShardId
    Threads = {t1}
    MaxNumPidsPerPk = 3
    SubTypes = {}
    RegularPeer = RegularPeer
    Epochs = {}
    StartEpoch = 0
    NotValidator = NotValidator
    OracleRotation = FALSE
    CapacityEviction = TRUE
SPECIFICATION Spec
SYMMETRY PidSymmetry
INVARIANT EclipseBound
