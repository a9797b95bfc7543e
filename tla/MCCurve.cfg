SPECIFICATION Spec
CONSTANTS
    P = 163
    MaxMul = 8
    MaxMag = 32
    CURVE_B = 2
    BETA = 104
    GX = 2
    GY = 70
    ORDER = 139
    ScalarBits = 8
    LAMBDA_ = 42
    MinusB1 = 10
    MinusB2 = 136
    G1 = 22
    G2 = 74
    SplitShift = 10
    WINDOW_A = 4
    WINDOW_G = 5
    GenBits = 2
    NumsX = 36
    SizeT = 8
    Scales = {1, 3}
    Scalars = {0, 1, 42, 69, 138}
    Blinds = {1, 77}
    FirstScale = 5
    FirstBlind = 31
    Secrets = {0, 1, 5, 138, 139, 144}
    Tweaks = {0, 1, 7, 138, 139, 150}
    Messages = {0, 25}
    NonceLists <- Nonces
    Moduli <- Primes
    MaxPoint = 3
    MaxKey = 3
INVARIANTS
    CurveChecksHold
    GroupLaw
    BlindingKept
    KeysAgree
    KeyParseExact
    SignatureExact
    VerifyExact
    RecoverExact
    SerializationExact
    ChainsExact
CHECK_DEADLOCK FALSE
