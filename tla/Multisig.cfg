SPECIFICATION MultisigSpec
CONSTANTS
    Modulus = 46337
    PrivateKeys <- MC_PrivateKeys
    Messages = {5, 9}
    Randomness <- MC_Randomness
    HashSeed = 31337
    KeyLists <- MC_KeyLists
    MaxDraws = 3
    MaxShares = 2
INVARIANTS CombinesAgreedShares
PROPERTIES ImplementsApprovals
CHECK_DEADLOCK FALSE
