CONSTANTS
    None = None
    A = A
    B = B
    Hash = {1, 2, 3, 4}
    MAX_FAILED_RETRIES = 1
    CLOSE_TIME = 0
    MaxFaults = 1
SPECIFICATION Spec
SYMMETRY NodeSymmetry
INVARIANTS AnswersOpen OneRotationInitiator PongFindsKey
PROPERTY KeyInstalledOnce
