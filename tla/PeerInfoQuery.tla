---------------------------- MODULE PeerInfoQuery ----------------------------
(***************************************************************************)
(* GetPeerInfo as the code runs it: one Get per step, beside the           *)
(* UpdatePeerIDInfo goroutines and the environment of PeerShardMapper.     *)
(* GetPeerInfo takes no lock, so each cache read and the nodes-coordinator *)
(* call is a step of its own, and any writer step may come between two of  *)
(* them.  The pkBytes that the first step stores in pInfo is what the      *)
(* later steps look up, as in the code.                                    *)
(*                                                                         *)
(* The subtype read that follows an Observer answer is folded into the     *)
(* fallback read before it: only UpdatePeerIdSubType writes that cache,    *)
(* with HasOrAdd, so reading it one step later can only see it filled.    *)
(***************************************************************************)
EXTENDS PeerShardMapper

VARIABLES
    qpc,       \* "Idle", "NodesCoordinator", "PkFallback", "PidFallback", "Done"
    qpid,      \* the pid being queried
    qinfo,     \* pInfo, the P2PPeerInfo the query is building
    qseen,     \* history: the one-state answers GetPeerInfo(qpid) since the call
    qrebound   \* history: qpid's binding in peerIdPkCache changed since the call

queryVars == <<qpc, qpid, qinfo, qseen, qrebound>>

\* The key peerIdPkCache binds pid to, or NotValidator when it binds none.
PidBinding(pid) ==
    IF pid \in DOMAIN peerIdPkCache THEN peerIdPkCache[pid] ELSE NotValidator

NoPeerInfo == PeerInfo(UnknownPeer, 0, NotValidator, RegularPeer)

QInit ==
    /\ Init
    /\ qpc = "Idle"
    /\ qpid \in Pids
    /\ qinfo = NoPeerInfo
    /\ qseen = {}
    /\ qrebound = FALSE

\* GetPeerInfo(pid) is called; getPeerInfoWithNodesCoordinator reads
\* peerIdPkCache.  With no pk, getShardIDSearchingPkInFallbackCache returns
\* at its len(pkBuff) == 0 check, so the pid fallback comes next.
QueryGetPk(pid) ==
    /\ qpc = "Idle"
    /\ qpid' = pid
    /\ qseen' = {GetPeerInfo(pid)}
    /\ qrebound' = FALSE
    /\ IF pid \in DOMAIN peerIdPkCache
       THEN /\ qinfo' = PeerInfo(UnknownPeer, 0, peerIdPkCache[pid], RegularPeer)
            /\ qpc' = "NodesCoordinator"
       ELSE /\ qinfo' = NoPeerInfo
            /\ qpc' = "PidFallback"

\* GetValidatorWithPublicKey(pkBuff): a validator ends the query; an error
\* keeps PkBytes for the fallback by pk.
QueryNodesCoordinator ==
    /\ qpc = "NodesCoordinator"
    /\ IF validators[qinfo.pkBytes] # NotValidator
       THEN /\ qinfo' = PeerInfo(ValidatorPeer, validators[qinfo.pkBytes], qinfo.pkBytes, RegularPeer)
            /\ qpc' = "Done"
       ELSE /\ qpc' = "PkFallback"
            /\ UNCHANGED qinfo
    /\ UNCHANGED <<qpid, qseen, qrebound>>

\* getShardIDSearchingPkInFallbackCache(pInfo.PkBytes); a hit makes pInfo
\* an Observer of that shard, with getPeerSubType(pid).
QueryPkFallback ==
    /\ qpc = "PkFallback"
    /\ IF qinfo.pkBytes \in DOMAIN fallbackPkShardCache
       THEN /\ qinfo' = [qinfo EXCEPT !.peerType = ObserverPeer,
                                      !.shardID = fallbackPkShardCache[qinfo.pkBytes],
                                      !.peerSubType = getPeerSubType(qpid)]
            /\ qpc' = "Done"
       ELSE /\ qpc' = "PidFallback"
            /\ UNCHANGED qinfo
    /\ UNCHANGED <<qpid, qseen, qrebound>>

\* pInfo = getPeerInfoSearchingPidInFallbackCache(pid): PkBytes is lost.
QueryPidFallback ==
    /\ qpc = "PidFallback"
    /\ qinfo' = getPeerInfoSearchingPidInFallbackCache(qpid)
    /\ qpc' = "Done"
    /\ UNCHANGED <<qpid, qseen, qrebound>>

\* return *pInfo
QueryReturn ==
    /\ qpc = "Done"
    /\ qpc' = "Idle"
    /\ qseen' = {}
    /\ qrebound' = FALSE
    /\ UNCHANGED <<qpid, qinfo>>

QueryStep ==
    \/ \E pid \in Pids : QueryGetPk(pid)
    \/ QueryNodesCoordinator
    \/ QueryPkFallback
    \/ QueryPidFallback
    \/ QueryReturn

\* A writer or environment step; while a query runs, the answer of the new
\* state joins its history, and a change of qpid's binding is recorded.
WriterStep ==
    /\ Next
    /\ UNCHANGED <<qpc, qpid, qinfo>>
    /\ IF qpc = "Idle"
       THEN UNCHANGED <<qseen, qrebound>>
       ELSE /\ qseen' = qseen \cup {GetPeerInfo(qpid)'}
            /\ qrebound' = (qrebound \/ PidBinding(qpid)' # PidBinding(qpid))

QNext == WriterStep \/ (QueryStep /\ UNCHANGED vars)

QSpec == QInit /\ [][QNext]_<<vars, queryVars>>

-----------------------------------------------------------------------------
(* Properties *)

\* Spec section 5 accepts one race for queries: "a concurrent update may
\* change a pid's bound PublicKey between a query's internal steps".  A
\* GetPeerInfo call during which peerIdPkCache keeps qpid's binding returns
\* an answer that GetPeerInfo gives in one of the states the call spans,
\* whatever fallback writes (UpdatePeerIDInfo's HasOrAdd steps outside the
\* lock), oracle rotations or other binds overlap its separate reads.
QueryAnswerSeenUnlessRebound ==
    (qpc = "Done" /\ ~qrebound) => qinfo \in qseen

=============================================================================
