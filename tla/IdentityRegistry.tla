-------------------------- MODULE IdentityRegistry --------------------------
(***************************************************************************)
(* What the peer-identity registry of PeerShardMapper promises, with no    *)
(* caches and no locks: every public key owns a recency-ordered list of at *)
(* most MaxNumPidsPerPk peer IDs, a peer ID is in at most one list, and    *)
(* binding a peer ID moves it to the most recent end of its key's list,    *)
(* dropping the least recently bound peer ID when the list overflows.      *)
(***************************************************************************)
EXTENDS Naturals, Sequences

CONSTANTS Pids, Pks, MaxNumPidsPerPk

VARIABLE queues   \* pk -> sequence of peer IDs, least recent first

Without(s, p) == SelectSeq(s, LAMBDA x : x # p)

Capped(s) == IF Len(s) > MaxNumPidsPerPk
             THEN SubSeq(s, Len(s) - MaxNumPidsPerPk + 1, Len(s))
             ELSE s

Init == queues = [k \in Pks |-> <<>>]

Bind(p, k) ==
    queues' = [j \in Pks |-> IF j = k THEN Capped(Append(Without(queues[k], p), p))
                                      ELSE Without(queues[j], p)]

Next == \E p \in Pids, k \in Pks : Bind(p, k)

Spec == Init /\ [][Next]_queues

=============================================================================
