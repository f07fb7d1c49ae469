SPECIFICATION Spec
CONSTANTS
  Workers <- MCWorkers
  Requests <- MCRequests
  FileIds <- MCFileIds
  maxSmallFileSize <- MCmaxSmallFileSize
  Settings <- MCSettings
CHECK_DEADLOCK FALSE
INVARIANTS
  ReadersAreCounted
  BodiesAreWhatWasAsked
PROPERTIES
  FilesAreClosed
