CONSTANTS
    v1 = v1
    v2 = v2
    a1 = a1
    a2 = a2
    NoAuthor = NoAuthor
    Validators <- MCValidators
    Authors <- MCAuthors
    Proposers <- MCProposers
    Prng <- MCPrng
    VoteSets <- MCVoteSets
    WindowSize = 1
    ActiveWeight = 3
    InactiveWeight = 1
    MaxRound = 5
SPECIFICATION Spec
INVARIANTS SingleAcceptedAuthor
SYMMETRY MCSymmetry
