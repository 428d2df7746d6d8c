SPECIFICATION ShellSpec
CONSTANTS
    Initial = 2
    MaxCalls = 2
    Titles = {t, u}
    DeferredUpdaters = TRUE
    Panes = {w1, w2}
    Drafting = {w1}
    MaxPrompts = 2
    MaxTemplates = 2
    RecentMax = 2
    MaxAnswers = 2
    Nobody = Nobody
    MaxSent = 2
    Matching = {w1}
    NoPane = NoPane
    RecentsMax = 2
    RecentsShown = 1
    MaxVisible = 2
    MaxNotices = 3
INVARIANTS
    ShellInv
PROPERTIES
    OwnSettlementRestores
    DraftsSurvive
    
    FocusShowsUnread
    StarsStay
CHECK_DEADLOCK FALSE
