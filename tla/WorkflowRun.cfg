SPECIFICATION Spec
CONSTANTS
    IntMin <- MCIntMin
    IntMax = 7
    KnownTools = {}
    PureFuel = 100
    MaxBranches = 2
    MaxIterations = 2
    Permits = 2
    MaxCrashes = 2
    Accepts <- Accepted
    Position <- PositionOf
    LatestAccess <- AccessAfter
    Answers <- AnswersTo
    MayFail <- MayFailTo
    Programs <- MCPrograms
INVARIANTS
    OccurrencesHaveTheirOwnKey
    AcceptedProgramsStayInTheLanguage
    AcceptedProgramsAreDeterministic
    ReplaysAskTheSame
    LivesAgree
    OneActionPerAgent
    SuspensionsAreStable
PROPERTIES
    EvaluationIsOrderly
CHECK_DEADLOCK FALSE
