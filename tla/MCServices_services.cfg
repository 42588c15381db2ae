SPECIFICATION Spec
CONSTANTS
    NotOpened = NotOpened
    Attempts = {a1, a2, a3}
    Threshold = 3
    Cooldown = 3
    Polls = {p1, p2}
    Required = 2
    MaxActivations = 2
    Signals = {s1, s2}
    MaxClears = 1
    Hits = {h1, h2}
    Limit = 2
    Styles = {noir, anime}
    Likers = {l1, l2}
    Batch = 1
    MaxLikes = 2
    MaxTrainings = 2
    Runs = 2
    Degradable = {1, 3}
    MaxLines = 3
    Threads = {i1, i2}
    LongCooldown = 2
    ShortCooldown = 1
    MaxNow = 2
    WarnPct = 5
    CriticalPct = 20
    MinCompletedWindow = 5
    MaxHours = 2
    Worlds <- ThreeWorlds
    Probes = {p1, p2}
    AlertPause = 2
    PostTimeout = 1
    MaxTime = 2
    MaxAlerts = 3
INVARIANTS
    PausedHasOwner
    
    
    AnswerIsFinal
    OneCallPerCooldown
    QueuedSignalIsReadable
    AlertsPaced
PROPERTIES
    ShieldedAfterFailures
    PauseEnds
    
    WindowEnds
    
    EveryRunAnswered
    RecoveryFollows
CHECK_DEADLOCK FALSE
