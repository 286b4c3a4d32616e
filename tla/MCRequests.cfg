\* The process from its command line to its answers, one request at a time.
SPECIFICATION Spec
CONSTANTS
  NULL = NULL
  Half = 4
  Text <- MCText
  Word <- MCWord
  MaxWords = 5
  Row = {1, 2}
  StoredRows <- MCStoredRows
  Random = {1, 2}
  Sent <- MCSent
INVARIANTS
  TypeOK
  ArgumentsTaken
  ReadAsSent
  AcceptedAsListed
  BlameFits
  PartsFound
  OneRowOrNothing
  MissingRowsAreTold
CHECK_DEADLOCK FALSE
