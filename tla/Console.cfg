INIT ConsoleInit
NEXT ConsoleNext
CONSTANTS
  Asked <- MCAsked
  EventKinds <- MCKinds
  Features = {"f", "g"}
  Limit = 1
  MaxTime = 3
  MaxEvents = 3
  Tokens = {"t1", "t2"}
  Users = {"m", "n"}
  Nobody = "nobody"
  ConsumptionLifetime = 1
  AbilityLifetime = 2
  LastTime = 3
  Requests = {1, 2}
  SavedIds = {1, 2}
  PageLimit = 2
  HistoryLimit = 3
  MaxQueries = 4
INVARIANTS
  ScanFaithful RecordsKept AnswersEntitled
CHECK_DEADLOCK FALSE
