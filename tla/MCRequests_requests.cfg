SPECIFICATION RequestsSpec
CONSTANTS
    Stages = 4
    Attempts = 2
    c1 = c1
    c2 = c2
    Clients = {c1, c2}
    Limit <- SingleRun
    Users = {u1, u2}
    Requests = {r1, r2}
    UserLimit = 1
    GlobalLimit = 2
    MaxDay = 1
    Tabs = {t1, t2}
    MaxLogins = 2
    MaxSecond = 1
    MaxCalls = 3
    CreateDtos <- SomeProjects
    LyricsSent = {"unset", "null", "blank"}
    PostedTypes = {"TRAIN_LORA", "RENDER_VIDEO"}
    Edits <- FalseProgress
    MaxVotes = 3
    Ballots <- SomeBallots
    DedupeWindow = 0
    Enough = 2
    SimilarityLimit = 2
    CandidateLimit = 2
    MaxMoment = 1
    film = film
    clip = clip
    typo = typo
    Shown <- Addresses
    Own <- TwoFilms
    Malformed <- Mistyped
    Nothing = Nothing
    MaxConnections = 2
    MaxDown = 2
    MaxScene = 1
SYMMETRY TabSymmetry
INVARIANTS
    RequestsTypeOK
    StagesInOrder
    OneStageAtATime
    QuotasHold
    
    SourceModeFits
    DoneShowsAll
    DuplicateVotesOverlap
    StreamIsTheProjects
PROPERTIES
    RevocationsLast
CHECK_DEADLOCK FALSE
