\* Two goroutines contend for mutUpdatePeerIdPublicKey; under the fairness of
\* FairSpec every UpdatePeerIDInfo call they make returns.
CONSTANTS
    Pids = {p1}
    Pks = {k1}
    Shards = {0}
    AllShardId = AllShardId
    Threads = {t1, t2}
    MaxNumPidsPerPk = 3
    SubTypes = {}
    RegularPeer = RegularPeer
    Epochs = {}
    StartEpoch = 0
    NotValidator = NotValidator
    OracleRotation = TRUE
    CapacityEviction = TRUE
SPECIFICATION FairSpec
PROPERTY UpdateReturns
