\* One GetPeerInfo caller beside one UpdatePeerIDInfo goroutine and a
\* rotating oracle: two pids and two keys let a pid move between keys while
\* a query holds the old key in pInfo.
CONSTANTS
    Pids = {p1, p2}
    Pks = {k1, k2}
    Shards = {0, 1}
    AllShardId = AllShardId
    Threads = {t1}
    MaxNumPidsPerPk = 3
    SubTypes = {}
    RegularPeer = RegularPeer
    Epochs = {}
    StartEpoch = 0
    NotValidator = NotValidator
    OracleRotation = TRUE
    CapacityEviction = FALSE
SPECIFICATION QSpec
SYMMETRY QuerySymmetry
INVARIANT QueryAnswerSeenUnlessRebound
