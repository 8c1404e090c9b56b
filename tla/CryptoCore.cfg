SPECIFICATION Spec
CONSTANTS
    A = A
    B = B
    Low = 3
    High = 2
    Start = 2
    MaxSend = 3
    MaxTick = 3
INVARIANTS ReplayWindow LateMessagesAccepted UniqueNonces NoReflection
