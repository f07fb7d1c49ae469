SPECIFICATION Spec
CONSTANTS
    Sides = {"request", "response"}
    Requests <- MCRequests
    Responses <- MCResponses
    Bodies <- MCBodies
    Paths <- MCPaths
    MaxCalls = 3
    MaxBodySize = 3
    Careless = {}
    Dates <- MCDates
INVARIANTS
    ArrivesAsSet
    StaysInFrame
    CutShortIsRefused
