\* Bodies of up to two miniblocks of up to three hashes over three hashes (a
\* double within a miniblock and across two); epochs below, at and above the
\* disable epoch.
CONSTANTS
    TxHashes = {h1, h2, h3}
    MaxTxsPerMb = 3
    MaxMbsPerBody = 2
    Epochs = {0, 1, 2}
    AddFailedRelayedTxToInvalidMBsDisableEpoch = 1
    NilBody = NilBody
    NoEpoch = NoEpoch
SPECIFICATION Spec
SYMMETRY TxSymmetry
INVARIANT DetectionMatchesReference
PROPERTY ReportOnlyAfterDisableEpoch
