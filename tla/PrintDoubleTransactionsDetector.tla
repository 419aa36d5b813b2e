------------------ MODULE PrintDoubleTransactionsDetector ------------------
(***************************************************************************)
(* The printDoubleTransactionsDetector of package coordinator               *)
(* (src/process/coordinator/printDoubleTransactionsDetector.go).           *)
(*                                                                         *)
(* ProcessBlockBody scans a block body for a transaction hash that occurs   *)
(* more than once, across all its miniblocks, and ends in one of four log   *)
(* outcomes.  EpochConfirmed, called by the epoch notifier the detector     *)
(* registers with, sets the flag that turns an Error report into a Debug   *)
(* line while epochs are below AddFailedRelayedTxToInvalidMBsDisableEpoch.  *)
(*                                                                         *)
(* A miniblock is abstracted to its sequence of transaction hashes: its    *)
(* shards, type and hash only feed the log.  A log call is modelled by     *)
(* which message it emits, the last one kept in outcome.                   *)
(***************************************************************************)
EXTENDS Naturals, Sequences, TLC
LOCAL INSTANCE SequencesExt

CONSTANTS
    TxHashes,        \* transaction hashes that may appear in a miniblock
    MaxTxsPerMb,     \* bound on a miniblock's length
    MaxMbsPerBody,   \* bound on a body's number of miniblocks
    Epochs,          \* epochs the notifier may confirm
    AddFailedRelayedTxToInvalidMBsDisableEpoch,
    NilBody,         \* the nil *block.Body
    NoEpoch          \* no EpochConfirmed call has been made yet

VARIABLES
    flagAddFailedRelayedTxToInvalidMBs,  \* the atomic.Flag
    outcome,         \* message of the last ProcessBlockBody call
    lastBody,        \* body of that call (history)
    lastEpoch        \* epoch of the last EpochConfirmed call (history)

vars == <<flagAddFailedRelayedTxToInvalidMBs, outcome, lastBody, lastEpoch>>

MiniBlocks == SeqOf(TxHashes, MaxTxsPerMb)
Bodies == SeqOf(MiniBlocks, MaxMbsPerBody)

\* Log outcomes of ProcessBlockBody.
NilBlockBody == "nilBlockBodyMessage"            \* Error
NoDoubles == "noDoubledTransactionsFoundMessage" \* Debug
FlagActive == "doubledTransactionsFoundButFlagActive" \* Debug
PrintReport == "printReportHeader"                \* Error with the report
NoCall == "none"

\* One pass of the inner loop over a miniblock's TxHashes:
\* transactions[txHash]++, then doubleTransactionsExist ||= count > 1.
\* Mutant: the comparison off by one.
ScanTxHashOffByOne(txs, acc) ==
    LET h == Head(txs)
        count == [acc.transactions EXCEPT ![h] = @ + 1]
    IN [transactions |-> count, exist |-> acc.exist \/ count[h] > 2]

ScanTxHash(txs, acc) ==
    LET h == Head(txs)
        count == [acc.transactions EXCEPT ![h] = @ + 1]
    IN [transactions |-> count, exist |-> acc.exist \/ count[h] > 1]

RECURSIVE ScanTxHashes(_, _)
ScanTxHashes(txs, acc) ==
    IF txs = <<>> THEN acc ELSE ScanTxHashes(Tail(txs), ScanTxHash(txs, acc))

NewTransactions == [h \in TxHashes |-> 0]

\* One pass of the outer loop over body.MiniBlocks: the transactions map
\* made before the loop is shared by all miniblocks.  Mutant: the map made
\* afresh for every miniblock.
ScanMiniBlockFreshMap(mbs, acc) ==
    ScanTxHashes(Head(mbs), [acc EXCEPT !.transactions = NewTransactions])

ScanMiniBlock(mbs, acc) == ScanTxHashes(Head(mbs), acc)

RECURSIVE ScanMiniBlocks(_, _)
ScanMiniBlocks(mbs, acc) ==
    IF mbs = <<>> THEN acc ELSE ScanMiniBlocks(Tail(mbs), ScanMiniBlock(mbs, acc))

doubleTransactionsExist(body) ==
    ScanMiniBlocks(body, [transactions |-> NewTransactions, exist |-> FALSE]).exist

\* Reference: some hash occurs at two positions of the flattened body.
HasDoubleTransactions(body) ==
    LET all == FlattenSeq(body)
    IN \E i, j \in 1..Len(all) : i < j /\ all[i] = all[j]

Init ==
    /\ flagAddFailedRelayedTxToInvalidMBs = FALSE
    /\ outcome = NoCall
    /\ lastBody = NilBody
    /\ lastEpoch = NoEpoch

ProcessBlockBody(body) ==
    /\ outcome' = CASE body = NilBody                          -> NilBlockBody
                    [] ~doubleTransactionsExist(body)          -> NoDoubles
                    [] flagAddFailedRelayedTxToInvalidMBs      -> FlagActive
                    [] OTHER                                   -> PrintReport
    /\ lastBody' = body
    /\ UNCHANGED <<flagAddFailedRelayedTxToInvalidMBs, lastEpoch>>

\* Mutant: the flag kept set through the disable epoch itself.
EpochConfirmedInclusive(epoch) ==
    /\ flagAddFailedRelayedTxToInvalidMBs' = (epoch <= AddFailedRelayedTxToInvalidMBsDisableEpoch)
    /\ lastEpoch' = epoch
    /\ UNCHANGED <<outcome, lastBody>>

EpochConfirmed(epoch) ==
    /\ flagAddFailedRelayedTxToInvalidMBs' = (epoch < AddFailedRelayedTxToInvalidMBsDisableEpoch)
    /\ lastEpoch' = epoch
    /\ UNCHANGED <<outcome, lastBody>>

Next ==
    \/ \E b \in Bodies \cup {NilBody} : ProcessBlockBody(b)
    \/ \E e \in Epochs : EpochConfirmed(e)

Spec == Init /\ [][Next]_vars

-----------------------------------------------------------------------------
(* Properties *)

TypeOK ==
    /\ flagAddFailedRelayedTxToInvalidMBs \in BOOLEAN
    /\ outcome \in {NoCall, NilBlockBody, NoDoubles, FlagActive, PrintReport}
    /\ lastBody \in Bodies \cup {NilBody}
    /\ lastEpoch \in Epochs \cup {NoEpoch}

\* The counting loops of ProcessBlockBody, whose map is shared across
\* miniblocks, flag the body of the last call exactly when some transaction
\* hash occurs twice anywhere in it (within one miniblock or across two).
\* Every bounded body is the last one in some reachable state.
DetectionMatchesReference ==
    lastBody # NilBody =>
        doubleTransactionsExist(lastBody) = HasDoubleTransactions(lastBody)

\* Every ProcessBlockBody call (a step that leaves lastEpoch alone and logs
\* an outcome other than the nil-body error) logs the double-transactions
\* report as an Error exactly when the scan found a doubled hash and the
\* flag set by the last EpochConfirmed call does not mute it: that epoch is
\* at or past AddFailedRelayedTxToInvalidMBsDisableEpoch, or no epoch was
\* confirmed yet (the atomic.Flag's zero value).  This ties the scan to the
\* flag that EpochConfirmed computed from an earlier epoch.
ReportOnlyAfterDisableEpoch ==
    [][ (lastEpoch' = lastEpoch /\ outcome' \notin {NoCall, NilBlockBody}) =>
          ((outcome' = PrintReport) <=>
              /\ lastBody' # NilBody
              /\ doubleTransactionsExist(lastBody')
              /\ \/ lastEpoch = NoEpoch
                 \/ lastEpoch >= AddFailedRelayedTxToInvalidMBsDisableEpoch) ]_vars

=============================================================================
