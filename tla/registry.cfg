\* Two goroutines call UpdatePeerIDInfo on four peer IDs and two keys:
\* enough for a fourth peer ID to overflow a key's pidQueue (maxNumPidsPerPk = 3).
CONSTANTS
    Pids = {p1, p2, p3, p4}
    Pks = {k1, k2}
    Shards = {0}
    AllShardId = AllShardId
    Threads = {t1, t2}
    MaxNumPidsPerPk = 3
    SubTypes = {}
    RegularPeer = RegularPeer
    Epochs = {}
    StartEpoch = 0
    NotValidator = NotValidator
    OracleRotation = FALSE
    CapacityEviction = FALSE
SPECIFICATION Spec
SYMMETRY Symmetry
INVARIANT TypeOK
INVARIANT EclipseBound
INVARIANT BindingMatchesQueues
VIEW LiveArgsView
