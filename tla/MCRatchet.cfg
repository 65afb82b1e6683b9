CONSTANTS
    Alice = Alice
    Bob = Bob
    None = None
    MaxSkip = 1
    MaxSend = 3
    MaxExtra = 1
SPECIFICATION Spec
INVARIANTS
    LateMessagesOpen
    OpenedOnce
    KeysUnique
    KeysForgotten
CHECK_DEADLOCK FALSE
