-------------------------- MODULE MCStatusComponents --------------------------
(***************************************************************************)
(* Instantiates StatusComponents for TLC.                                  *)
(***************************************************************************)
EXTENDS StatusComponents

\* core.MetachainShardId is 4294967295, past TLC's integers: a model value.
MCShardIds == {0, MetachainShardId}

=============================================================================
