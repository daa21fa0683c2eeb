\* Key generation, two reshares by changing producers, evaluations by every
\* ordered quorum; curve over GF(41) with a subgroup of order 5.
SPECIFICATION Spec
CONSTANTS
    BaseModulus = 41
    ScalarModulus = 5
    J = 19
    Z = 3
    Permutation <- MCPermutation
    NonceHash <- MCNonceHash
    Null = Null
    Party <- MCParty
    Degree = 1
    Secrets <- MCSecrets
    Coeffs <- MCCoeffs
    EphKeys <- MCEphKeys
    EncNonces = {7}
    NoncePairs <- MCNoncePairs
    Queries <- MCQueries
    Blindings = {2}
    MaxEpoch = 2
INVARIANTS SharesAreOfTheSecret ReshareCommitsToOldShare ProofAcceptedIffNonzero OutputIsTheKeys EncodingIsRfc
