SPECIFICATION FairSpec
CONSTANTS
    FrameLen = 3
    BuffLen = 4
    MaxJunk = 1
    MqSize = 1
    None = None
    Conns <- MCConns
    Brackets <- MCBrackets
    ChunkLen = 4
    TextFits <- CommandFits
    AnswersSize = 1
    Steps <- StepsOf
    AnswerFits <- StepFits
    NoAnswer = NoAnswer
    Actions <- MCActions
    Updates = {"update", "history"}
    LongTexts = {"edata"}
    LongAnswers = {"history"}
    Plans <- MCPlans
CHECK_DEADLOCK FALSE
INVARIANTS
    TypeOK
    NothingTorn
    DecodedInStep
    CommandsWhole
    CarriedOutInOrder
    OwnAnswers
PROPERTIES
    FramesRight
    ImplementsChannel
    EverythingArrives
