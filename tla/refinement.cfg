\* One goroutine binds four peer IDs to two keys; every pidQueue step is a
\* step of the abstract IdentityRegistry under the refinement mapping.
CONSTANTS
    Pids = {p1, p2, p3, p4}
    Pks = {k1, k2}
    Shards = {0}
    AllShardId = AllShardId
    Threads = {t1}
    MaxNumPidsPerPk = 3
    SubTypes = {}
    RegularPeer = RegularPeer
    Epochs = {}
    StartEpoch = 0
    NotValidator = NotValidator
    OracleRotation = FALSE
    CapacityEviction = FALSE
SPECIFICATION Spec
SYMMETRY Symmetry
VIEW LiveArgsView
PROPERTY RegistryRefinement
