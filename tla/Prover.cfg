CONSTANTS
    none = none
    zero = zero
    NoPrefix = none
    ZeroChallenge = zero
    Manifest <- UltraManifest
    Hash <- MCHash
    ChallengesPerHash = 2
    MaxProofs = 2
SPECIFICATION Spec
INVARIANTS CommittedIsStored ProofAccepted BlindedAfresh
PROPERTY EveryProofFinishes
\* The prover stops after MaxProofs proofs.
CHECK_DEADLOCK FALSE
