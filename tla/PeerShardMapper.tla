--------------------------- MODULE PeerShardMapper ---------------------------
(***************************************************************************)
(* PeerShardMapper (src/sharding/networksharding/peerShardMapper.go).      *)
(*                                                                         *)
(* State: the five caches of the struct, the epoch, and the view of the    *)
(* nodes coordinator (an external oracle, modelled as a variable that the  *)
(* environment changes when the validator set rotates).  A cache is a      *)
(* partial function: its DOMAIN is the set of keys it holds.               *)
(*                                                                         *)
(* Concurrency: each thread of Threads runs UpdatePeerIDInfo.  It takes   *)
(* mutUpdatePeerIdPublicKey in one step; the body of updatePeerIDPublicKey *)
(* and the deferred Unlock are the next step, since nothing else writes    *)
(* the two identity caches.  The two fallback writes that follow are made  *)
(* outside the lock, so each is a step of its own.  Every single cache     *)
(* call is atomic (the Cacher implementations are thread-safe).            *)
(***************************************************************************)
EXTENDS Naturals, Sequences, FiniteSets, TLC, PidQueue
LOCAL INSTANCE Functions

CONSTANTS
    Pids,             \* peer IDs (model values)
    Pks,              \* public keys (model values)
    Shards,           \* shard IDs a peer may claim, AllShardId excluded
    AllShardId,       \* core.AllShardId, the "all shards / unknown" sentinel
    Threads,          \* goroutines calling UpdatePeerIDInfo concurrently
    MaxNumPidsPerPk,  \* the constant maxNumPidsPerPk (3 in the code)
    SubTypes,         \* peer subtypes UpdatePeerIdSubType may be called with
    RegularPeer,      \* core.RegularPeer, the zero value of a subtype
    Epochs,           \* epochs carried by epoch-start headers
    StartEpoch,       \* ArgPeerShardMapper.StartEpoch
    NotValidator,     \* marks a key the nodes coordinator does not know
    OracleRotation,   \* whether the validator set may change during a run
    CapacityEviction  \* whether the caches may evict entries on capacity

ASSUME /\ AllShardId \notin Shards
       /\ MaxNumPidsPerPk \in Nat \ {0}
       /\ NotValidator \notin Shards
       /\ RegularPeer \in SubTypes \cup {RegularPeer}
       /\ OracleRotation \in BOOLEAN /\ CapacityEviction \in BOOLEAN

VARIABLES
    peerIdPkCache,          \* pid -> pk
    pkPeerIdCache,          \* pk  -> pidQueue
    fallbackPkShardCache,   \* pk  -> shard
    fallbackPidShardCache,  \* pid -> shard
    peerIdSubTypeCache,     \* pid -> subtype
    epoch,
    validators,             \* nodes coordinator view: pk -> shard or NotValidator
    pc,                     \* program counter of each UpdatePeerIDInfo caller
    args,                   \* arguments of each caller's current or last call
    mutUpdatePeerIdPublicKey \* goroutine holding the mutex, or NoThread

cacheVars == <<peerIdPkCache, pkPeerIdCache, fallbackPkShardCache,
               fallbackPidShardCache, peerIdSubTypeCache>>
threadVars == <<pc, args, mutUpdatePeerIdPublicKey>>
vars == <<cacheVars, epoch, validators, threadVars>>

NoThread == NotValidator

NoCall == [pid |-> NotValidator, pk |-> NotValidator, shard |-> NotValidator]

-----------------------------------------------------------------------------
(* The storage.Cacher operations used by the mapper.                       *)

CachePut(c, k, v) == (k :> v) @@ c
CacheHasOrAdd(c, k, v) == IF k \in DOMAIN c THEN c ELSE (k :> v) @@ c
CacheRemove(c, k) == Restrict(c, DOMAIN c \ {k})
CacheRemoveAll(c, ks) == Restrict(c, DOMAIN c \ ks)

-----------------------------------------------------------------------------
(* Queries.  P2PPeerInfo is a record; PkBytes is NotValidator when empty.  *)

UnknownPeer == "UnknownPeer"
ValidatorPeer == "ValidatorPeer"
ObserverPeer == "ObserverPeer"
defaultShardId == 0

PeerInfo(type, shard, pk, sub) ==
    [peerType |-> type, shardID |-> shard, pkBytes |-> pk, peerSubType |-> sub]

getPeerInfoWithNodesCoordinator(pid) ==
    IF pid \notin DOMAIN peerIdPkCache
    THEN [info |-> PeerInfo(UnknownPeer, 0, NotValidator, RegularPeer), ok |-> FALSE]
    ELSE LET pk == peerIdPkCache[pid] IN
         IF validators[pk] = NotValidator
         THEN [info |-> PeerInfo(UnknownPeer, 0, pk, RegularPeer), ok |-> FALSE]
         ELSE [info |-> PeerInfo(ValidatorPeer, validators[pk], pk, RegularPeer), ok |-> TRUE]

getShardIDSearchingPkInFallbackCache(pk) ==
    IF pk = NotValidator \/ pk \notin DOMAIN fallbackPkShardCache
    THEN [shard |-> defaultShardId, ok |-> FALSE]
    ELSE [shard |-> fallbackPkShardCache[pk], ok |-> TRUE]

getPeerSubType(pid) ==
    IF pid \in DOMAIN peerIdSubTypeCache THEN peerIdSubTypeCache[pid] ELSE RegularPeer

getPeerInfoSearchingPidInFallbackCache(pid) ==
    IF pid \notin DOMAIN fallbackPidShardCache
    THEN PeerInfo(UnknownPeer, 0, NotValidator, RegularPeer)
    ELSE PeerInfo(ObserverPeer, fallbackPidShardCache[pid], NotValidator, getPeerSubType(pid))

GetPeerInfo(pid) ==
    LET nc == getPeerInfoWithNodesCoordinator(pid)
        fb == getShardIDSearchingPkInFallbackCache(nc.info.pkBytes)
    IN  IF nc.ok THEN nc.info
        ELSE IF fb.ok
             THEN [nc.info EXCEPT !.peerType = ObserverPeer, !.shardID = fb.shard,
                                  !.peerSubType = getPeerSubType(pid)]
             ELSE getPeerInfoSearchingPidInFallbackCache(pid)

-----------------------------------------------------------------------------
(* updatePeerIDPublicKey, computed as the values the three caches it       *)
(* writes hold when it returns.                                            *)

\* Mutant: the old key's queue keeps pid.
removePidAssociationKeepsPid(pid) == pkPeerIdCache

\* removePidAssociation: the pk -> pidQueue cache once pid left its old queue.
removePidAssociation(pid) ==
    IF pid \notin DOMAIN peerIdPkCache THEN pkPeerIdCache
    ELSE LET oldPk == peerIdPkCache[pid] IN
         IF oldPk \notin DOMAIN pkPeerIdCache THEN pkPeerIdCache
         ELSE LET pq == QRemove(pkPeerIdCache[oldPk], pid) IN
              IF pq = <<>> THEN CacheRemove(pkPeerIdCache, oldPk)
              ELSE CachePut(pkPeerIdCache, oldPk, pq)

\* Mutant: the loop pops the second oldest entry (an off-by-one index).
RECURSIVE PopOverflowSkipsOldest(_, _)
PopOverflowSkipsOldest(pq, evicted) ==
    IF Len(pq) > MaxNumPidsPerPk
    THEN PopOverflowSkipsOldest(<<pq[1]>> \o SubSeq(pq, 3, Len(pq)), evicted \cup {pq[2]})
    ELSE [pq |-> pq, evicted |-> evicted]

\* The loop "for len(pq.data) > maxNumPidsPerPk { pq.pop() ... }".
RECURSIVE PopOverflow(_, _)
PopOverflow(pq, evicted) ==
    IF Len(pq) > MaxNumPidsPerPk
    THEN PopOverflow(QPop(pq), evicted \cup {QPopped(pq)})
    ELSE [pq |-> pq, evicted |-> evicted]

\* Mutants of the eviction loop: the popped pid stays bound in
\* peerIdPkCache, or keeps its fallback-by-pid entry.
updatePeerIDPublicKeyKeepsBinding(pid, pk) ==
    LET pkPeerId == removePidAssociation(pid)
        bound    == CachePut(peerIdPkCache, pid, pk)
    IN
    IF pk \notin DOMAIN pkPeerId
    THEN [peerIdPk |-> bound, pkPeerId |-> CachePut(pkPeerId, pk, QPush(<<>>, pid)),
          fallbackPid |-> fallbackPidShardCache]
    ELSE LET pq == pkPeerId[pk] IN
         IF QIndexOf(pq, pid) # IndexNotFound
         THEN [peerIdPk |-> bound,
               pkPeerId |-> CachePut(pkPeerId, pk, QPromote(pq, QIndexOf(pq, pid))),
               fallbackPid |-> fallbackPidShardCache]
         ELSE LET r == PopOverflow(QPush(pq, pid), {}) IN
              [peerIdPk |-> bound,
               pkPeerId |-> CachePut(pkPeerId, pk, r.pq),
               fallbackPid |-> CacheRemoveAll(fallbackPidShardCache, r.evicted)]

updatePeerIDPublicKeyKeepsFallback(pid, pk) ==
    LET pkPeerId == removePidAssociation(pid)
        bound    == CachePut(peerIdPkCache, pid, pk)
    IN
    IF pk \notin DOMAIN pkPeerId
    THEN [peerIdPk |-> bound, pkPeerId |-> CachePut(pkPeerId, pk, QPush(<<>>, pid)),
          fallbackPid |-> fallbackPidShardCache]
    ELSE LET pq == pkPeerId[pk] IN
         IF QIndexOf(pq, pid) # IndexNotFound
         THEN [peerIdPk |-> bound,
               pkPeerId |-> CachePut(pkPeerId, pk, QPromote(pq, QIndexOf(pq, pid))),
               fallbackPid |-> fallbackPidShardCache]
         ELSE LET r == PopOverflow(QPush(pq, pid), {}) IN
              [peerIdPk |-> CachePut(CacheRemoveAll(peerIdPkCache, r.evicted), pid, pk),
               pkPeerId |-> CachePut(pkPeerId, pk, r.pq),
               fallbackPid |-> fallbackPidShardCache]

updatePeerIDPublicKey(pid, pk) ==
    LET pkPeerId == removePidAssociation(pid)
        bound    == CachePut(peerIdPkCache, pid, pk)
    IN
    IF pk \notin DOMAIN pkPeerId
    THEN [peerIdPk |-> bound, pkPeerId |-> CachePut(pkPeerId, pk, QPush(<<>>, pid)),
          fallbackPid |-> fallbackPidShardCache]
    ELSE LET pq == pkPeerId[pk] IN
         IF QIndexOf(pq, pid) # IndexNotFound
         THEN [peerIdPk |-> bound,
               pkPeerId |-> CachePut(pkPeerId, pk, QPromote(pq, QIndexOf(pq, pid))),
               fallbackPid |-> fallbackPidShardCache]
         ELSE LET r == PopOverflow(QPush(pq, pid), {}) IN
              [peerIdPk |-> CachePut(CacheRemoveAll(peerIdPkCache, r.evicted), pid, pk),
               pkPeerId |-> CachePut(pkPeerId, pk, r.pq),
               fallbackPid |-> CacheRemoveAll(fallbackPidShardCache, r.evicted)]

-----------------------------------------------------------------------------
(* Operations.                                                             *)

Init ==
    /\ peerIdPkCache = <<>>
    /\ pkPeerIdCache = <<>>
    /\ fallbackPkShardCache = <<>>
    /\ fallbackPidShardCache = <<>>
    /\ peerIdSubTypeCache = <<>>
    /\ epoch = StartEpoch
    /\ validators \in [Pks -> Shards \cup {NotValidator}]
    /\ pc = [t \in Threads |-> "Idle"]
    /\ args = [t \in Threads |-> NoCall]
    /\ mutUpdatePeerIdPublicKey = NoThread

\* A goroutine calls UpdatePeerIDInfo; its first statement calls
\* updatePeerIDPublicKey, which blocks on mutUpdatePeerIdPublicKey.
UpdatePeerIDInfo(t, pid, pk, shardID) ==
    /\ pc[t] = "Idle"
    /\ args' = [args EXCEPT ![t] = [pid |-> pid, pk |-> pk, shard |-> shardID]]
    /\ pc' = [pc EXCEPT ![t] = "Lock"]
    /\ UNCHANGED <<cacheVars, epoch, validators, mutUpdatePeerIdPublicKey>>

\* psm.mutUpdatePeerIdPublicKey.Lock()
LockUpdatePeerIdPublicKey(t) ==
    /\ pc[t] = "Lock"
    /\ mutUpdatePeerIdPublicKey = NoThread
    /\ mutUpdatePeerIdPublicKey' = t
    /\ pc' = [pc EXCEPT ![t] = "Bind"]
    /\ UNCHANGED <<cacheVars, epoch, validators, args>>

\* Writes of the critical section.
BindCaches(t) ==
    LET r == updatePeerIDPublicKey(args[t].pid, args[t].pk) IN
    /\ peerIdPkCache' = r.peerIdPk
    /\ pkPeerIdCache' = r.pkPeerId
    /\ fallbackPidShardCache' = r.fallbackPid
    /\ UNCHANGED <<fallbackPkShardCache, peerIdSubTypeCache>>

\* Mutants: no early return on the AllShardId sentinel; the deferred
\* Unlock missing.
UpdatePeerIDPublicKeyNoSentinelReturn(t) ==
    /\ pc[t] = "Bind"
    /\ BindCaches(t)
    /\ mutUpdatePeerIdPublicKey' = NoThread
    /\ pc' = [pc EXCEPT ![t] = "PkShard"]
    /\ UNCHANGED <<epoch, validators, args>>

UpdatePeerIDPublicKeyNoUnlock(t) ==
    /\ pc[t] = "Bind"
    /\ BindCaches(t)
    /\ pc' = [pc EXCEPT ![t] = IF args[t].shard = AllShardId THEN "Idle" ELSE "PkShard"]
    /\ UNCHANGED <<epoch, validators, args, mutUpdatePeerIdPublicKey>>

\* The body of updatePeerIDPublicKey and its deferred Unlock; back in
\* UpdatePeerIDInfo, the call returns here when shardID = AllShardId.
UpdatePeerIDPublicKey(t) ==
    /\ pc[t] = "Bind"
    /\ BindCaches(t)
    /\ mutUpdatePeerIdPublicKey' = NoThread
    /\ pc' = [pc EXCEPT ![t] = IF args[t].shard = AllShardId THEN "Idle" ELSE "PkShard"]
    /\ UNCHANGED <<epoch, validators, args>>

\* updatePublicKeyShardId, outside the lock.
UpdatePublicKeyShardId(t) ==
    /\ pc[t] = "PkShard"
    /\ fallbackPkShardCache' = CacheHasOrAdd(fallbackPkShardCache, args[t].pk, args[t].shard)
    /\ pc' = [pc EXCEPT ![t] = "PidShard"]
    /\ UNCHANGED <<peerIdPkCache, pkPeerIdCache, fallbackPidShardCache,
                   peerIdSubTypeCache, epoch, validators, args, mutUpdatePeerIdPublicKey>>

\* updatePeerIdShardId, outside the lock; the call then returns (the
\* preferredPeersHolder.Put that follows writes no state of this component).
UpdatePeerIdShardId(t) ==
    /\ pc[t] = "PidShard"
    /\ fallbackPidShardCache' = CacheHasOrAdd(fallbackPidShardCache, args[t].pid, args[t].shard)
    /\ pc' = [pc EXCEPT ![t] = "Idle"]
    /\ UNCHANGED <<peerIdPkCache, pkPeerIdCache, fallbackPkShardCache,
                   peerIdSubTypeCache, epoch, validators, args, mutUpdatePeerIdPublicKey>>

UpdatePeerIdSubType(pid, subType) ==
    /\ peerIdSubTypeCache' = CacheHasOrAdd(peerIdSubTypeCache, pid, subType)
    /\ UNCHANGED <<peerIdPkCache, pkPeerIdCache, fallbackPkShardCache,
                   fallbackPidShardCache, epoch, validators, threadVars>>

\* EpochStartAction with a non-nil header (a nil header only logs).
EpochStartAction(hdrEpoch) ==
    /\ epoch' = hdrEpoch
    /\ UNCHANGED <<cacheVars, validators, threadVars>>

\* Environment: the nodes coordinator's validator set rotates.
ValidatorSetChange(pk, s) ==
    /\ OracleRotation
    /\ validators' = [validators EXCEPT ![pk] = s]
    /\ UNCHANGED <<cacheVars, epoch, threadVars>>

\* Environment: an LRU cache drops an entry when its capacity is reached.
\* Which entry is least recently used depends on traffic for keys outside
\* the model, so any entry may be the one dropped.
CapacityEvict ==
    /\ CapacityEviction
    /\ \/ \E p \in DOMAIN peerIdPkCache :
             peerIdPkCache' = CacheRemove(peerIdPkCache, p)
             /\ UNCHANGED <<pkPeerIdCache, fallbackPkShardCache, fallbackPidShardCache, peerIdSubTypeCache>>
       \/ \E k \in DOMAIN pkPeerIdCache :
             pkPeerIdCache' = CacheRemove(pkPeerIdCache, k)
             /\ UNCHANGED <<peerIdPkCache, fallbackPkShardCache, fallbackPidShardCache, peerIdSubTypeCache>>
       \/ \E k \in DOMAIN fallbackPkShardCache :
             fallbackPkShardCache' = CacheRemove(fallbackPkShardCache, k)
             /\ UNCHANGED <<peerIdPkCache, pkPeerIdCache, fallbackPidShardCache, peerIdSubTypeCache>>
       \/ \E p \in DOMAIN fallbackPidShardCache :
             fallbackPidShardCache' = CacheRemove(fallbackPidShardCache, p)
             /\ UNCHANGED <<peerIdPkCache, pkPeerIdCache, fallbackPkShardCache, peerIdSubTypeCache>>
    /\ UNCHANGED <<epoch, validators, threadVars>>

\* The steps one goroutine takes inside UpdatePeerIDInfo.
ThreadStep(t) ==
    \/ LockUpdatePeerIdPublicKey(t)
    \/ UpdatePeerIDPublicKey(t)
    \/ UpdatePublicKeyShardId(t)
    \/ UpdatePeerIdShardId(t)

Next ==
    \/ \E t \in Threads, pid \in Pids, pk \in Pks, s \in Shards \cup {AllShardId} :
          UpdatePeerIDInfo(t, pid, pk, s)
    \/ \E t \in Threads : ThreadStep(t)
    \/ \E pid \in Pids, st \in SubTypes : UpdatePeerIdSubType(pid, st)
    \/ \E e \in Epochs : EpochStartAction(e)
    \/ \E pk \in Pks, s \in Shards \cup {NotValidator} : ValidatorSetChange(pk, s)
    \/ CapacityEvict

Spec == Init /\ [][Next]_vars

\* Goroutines are scheduled fairly by the Go runtime, so a step a goroutine
\* can take continuously is eventually taken (weak fairness).  A goroutine
\* waiting in Lock sees the mutex free only intermittently; sync.Mutex
\* switches to starvation mode and hands the lock to a waiter blocked for
\* more than 1ms, which justifies strong fairness for Lock.
FairSpec ==
    /\ Spec
    /\ \A t \in Threads :
          /\ SF_vars(LockUpdatePeerIdPublicKey(t))
          /\ WF_vars(UpdatePeerIDPublicKey(t))
          /\ WF_vars(UpdatePublicKeyShardId(t))
          /\ WF_vars(UpdatePeerIdShardId(t))

-----------------------------------------------------------------------------
(* Properties.                                                             *)

PidsOf(pk) == {p \in DOMAIN peerIdPkCache : peerIdPkCache[p] = pk}

\* Type invariant.  Fallback caches hold real shards only: the sentinel
\* AllShardId never reaches them (UpdatePeerIDInfo returns early on it).
TypeOK ==
    /\ DOMAIN peerIdPkCache \subseteq Pids /\ \A p \in DOMAIN peerIdPkCache : peerIdPkCache[p] \in Pks
    /\ DOMAIN pkPeerIdCache \subseteq Pks /\ \A k \in DOMAIN pkPeerIdCache : pkPeerIdCache[k] \in Seq(Pids)
    /\ DOMAIN fallbackPkShardCache \subseteq Pks
    /\ \A k \in DOMAIN fallbackPkShardCache : fallbackPkShardCache[k] \in Shards
    /\ DOMAIN fallbackPidShardCache \subseteq Pids
    /\ \A p \in DOMAIN fallbackPidShardCache : fallbackPidShardCache[p] \in Shards
    /\ DOMAIN peerIdSubTypeCache \subseteq Pids
    /\ epoch \in Epochs \cup {StartEpoch}
    /\ validators \in [Pks -> Shards \cup {NotValidator}]
    /\ pc \in [Threads -> {"Idle", "Lock", "Bind", "PkShard", "PidShard"}]
    /\ mutUpdatePeerIdPublicKey \in Threads \cup {NoThread}

\* Eclipse bound (the reason pkPeerIdCache exists): no public key is bound
\* to more than maxNumPidsPerPk peer IDs in peerIdPkCache, whatever
\* sequence of UpdatePeerIDInfo calls peers make.
EclipseBound == \A pk \in Pks : Cardinality(PidsOf(pk)) <= MaxNumPidsPerPk

\* The two identity caches agree: pid is bound to pk in peerIdPkCache
\* exactly when pid is in pk's pidQueue, and a pidQueue held in the cache
\* is never empty (removePidAssociation drops emptied queues).
BindingMatchesQueues ==
    \A pk \in Pks :
        /\ pk \in DOMAIN pkPeerIdCache => pkPeerIdCache[pk] # <<>>
        /\ PidsOf(pk) = IF pk \in DOMAIN pkPeerIdCache
                        THEN {pkPeerIdCache[pk][i] : i \in DOMAIN pkPeerIdCache[pk]}
                        ELSE {}

\* An identity evicted from its key's queue, or never bound, is classified
\* Unknown by GetPeerInfo (scenario A): the eviction loop tears down the
\* fallback-by-pid entry of the pid it pops.
UnboundPeerIsUnknown ==
    \A p \in Pids \ DOMAIN peerIdPkCache : GetPeerInfo(p).peerType = UnknownPeer

\* Every UpdatePeerIDInfo call returns: a goroutine that entered it gets
\* the mutex, releases it, and finishes the fallback writes.
UpdateReturns == \A t \in Threads : pc[t] # "Idle" ~> pc[t] = "Idle"

\* The fallback caches record the last shard a peer claimed (spec 4.4):
\* once a call UpdatePeerIDInfo(pid, pk, s) with s # AllShardId returned,
\* a peer whose key the coordinator does not know is an observer of s.
FallbackReflectsLastClaim ==
    \A t \in Threads :
        (pc[t] = "Idle" /\ args[t].shard \in Shards /\ args[t].pid \in DOMAIN peerIdPkCache
         /\ validators[args[t].pk] = NotValidator)
            => GetPeerInfo(args[t].pid).shardID = args[t].shard

=============================================================================
