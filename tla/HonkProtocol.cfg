SPECIFICATION HonkSpec
CONSTANTS
    Modulus = 46337
    LogCircuitSize = 3
    Circuits <- MC_Circuits
    HashFunctions = {1999, 31337, 7}
INVARIANTS AcceptsExactlyTheSatisfied AlteredProofIsRejected VerifierFollowsProver EvaluationsAreMultilinear
CHECK_DEADLOCK FALSE
