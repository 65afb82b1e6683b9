CONSTANTS
    ann = ann
    ben = ben
    cat = cat
    n1 = n1
    n2 = n2
    None = None
    Fp <- People
    Key <- Keys
    Short <- Truncated
    Nonce <- Nonces
    MaxAttempts = 2
    Tolerance = 1
    NonceCap = 1
    Horizon = 2
    MaxCalls = 5
SPECIFICATION Spec
INVARIANTS
    LockedAfterRefusals
    ReplayIffSpent
SYMMETRY NonceSymmetry
