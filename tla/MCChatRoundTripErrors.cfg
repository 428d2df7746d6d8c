SPECIFICATION TripSpec
CONSTANTS
    MaxAttempts = 1
    MaxDeltas = 1
    UnhandledRejectionExits = TRUE
INVARIANTS
    ErrorsAreShown
