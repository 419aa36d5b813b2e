--------------- MODULE MCPrintDoubleTransactionsDetector ---------------
(***************************************************************************)
(* Instantiates PrintDoubleTransactionsDetector for TLC.                   *)
(***************************************************************************)
EXTENDS PrintDoubleTransactionsDetector, TLC

\* Transaction hashes are compared only for equality.
TxSymmetry == Permutations(TxHashes)

=============================================================================
