------------------------- MODULE MCPeerShardMapper -------------------------
(***************************************************************************)
(* Instantiates PeerShardMapper for TLC.  The model values for peer IDs,   *)
(* public keys and threads are given in each .cfg file.                    *)
(***************************************************************************)
EXTENDS PeerShardMapper

\* Peer IDs and public keys are opaque byte strings compared only for
\* equality, so permuting them maps behaviours to behaviours.
Symmetry == Permutations(Pids) \cup Permutations(Pks)

PidSymmetry == Permutations(Pids)

\* An idle goroutine's last arguments are dead: the next call overwrites
\* them before any step reads them.  Runs whose properties do not read
\* them identify states that differ only there.
LiveArgsView ==
    <<cacheVars, epoch, validators, pc, mutUpdatePeerIdPublicKey,
      [t \in Threads |-> IF pc[t] = "Idle" THEN NoCall ELSE args[t]]>>

\* The registry seen through the refinement mapping: a key's list is its
\* pidQueue, or empty when pkPeerIdCache holds no queue for it.
Registry == INSTANCE IdentityRegistry WITH
    queues <- [k \in Pks |-> IF k \in DOMAIN pkPeerIdCache THEN pkPeerIdCache[k] ELSE <<>>]

\* UpdatePeerIDInfo implements the abstract registry: every locked
\* updatePeerIDPublicKey is an abstract Bind, every other step stutters.
RegistryRefinement == Registry!Spec

=============================================================================
