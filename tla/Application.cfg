SPECIFICATION Spec
CONSTANTS
  Workers <- MCWorkers
  Contexts <- MCContexts
  Patterns <- MCPatterns
  Controllers <- MCControllers
  Paths <- MCPaths
  Methods <- MCMethods
  Settings <- MCSettings
CHECK_DEADLOCK FALSE
INVARIANTS
  RoutesAreFound
  AnswersAreOwn
  ContextsAreOwn
