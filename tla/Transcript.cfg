CONSTANTS
    none = none
    zero = zero
    v1 = v1
    v2 = v2
    NoPrefix = none
    ZeroChallenge = zero
    Manifest <- MCManifest
    Hash <- MCHash
    Buffers <- MCBuffers
    ChallengesPerHash = 2
SPECIFICATION Spec
INVARIANTS ChallengesBindElements NoChallengeTwice VerifierAgrees
PROPERTY NothingRewritten
