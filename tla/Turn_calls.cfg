CONSTANTS
    Backends = {"anthropic", "openai", "bedrock"}
    MaxTokens = 2
    Ceiling = 3
    Attempts = 2
    Usages <- One
    None = None
    MaxMessages = 2
    MaxNoise = 2
    OutPipe = 1
    ErrPipe = 1
    Large = TRUE
    Asks = FALSE
    Mortal = TRUE
    Heirs = TRUE
    Chatter = 2
    Logs = 2
    MaxRequests = 4
    Silent = Silent
    MaxTurns = 2
    MaxCalls = 1
SPECIFICATION FairTurns
INVARIANTS
    AnswersAreSound
    AnswersItsCall
PROPERTIES
    RunEnds
    EndsUnlessBlocked
CHECK_DEADLOCK FALSE
