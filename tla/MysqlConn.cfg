CONSTANTS
    MaxPacketSize = 16777215
    PacketNumbers = 256
    MaxAllowed = 33554431
    Strict = TRUE
    Results <- MCResults
    Rests <- MCRests
    Handshakes <- MCHandshakes
    Queries <- MCQueries
    Arguments <- MCArguments
    Careless = {}
    Templates <- MCTemplates
    Bound <- MCBound
    Fetched <- MCFetched
    Runs <- MCRuns
    MaxStatement = 33554431
SPECIFICATION MCSpec
INVARIANTS
    AnswersAreOwn
    NeverStuck
    CommandsArrive
    ValuesSurvive
