SPECIFICATION TripSpec
CONSTANTS
    MaxAttempts = 2
    MaxDeltas = 1
    UnhandledRejectionExits = TRUE
INVARIANTS
    WhatIsShownIsStored
