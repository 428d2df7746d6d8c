SPECIFICATION TripFairSpec
CONSTANTS
    MaxAttempts = 1
    MaxDeltas = 1
    UnhandledRejectionExits = TRUE
PROPERTIES
    ComposerUnlocks
