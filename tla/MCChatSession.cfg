SPECIFICATION ChatSpec
CONSTANTS
    MaxAttempts = 4
    MaxDeltas = 1
VIEW Live
INVARIANTS
    ChatInv
PROPERTIES
    OkIsFinal
CHECK_DEADLOCK FALSE
