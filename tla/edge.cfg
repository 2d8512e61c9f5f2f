SPECIFICATION Spec
CONSTANTS
  Path = {1, 2, 3}
  Caller = {"c1", "c2"}
  Casts <- MCCasts
  InitialFiles <- MCInitialFiles
  DefaultLimit = 2
  DefaultHead = 2
  MaxFaults = 2
  MessageID = {"d1", "d2", "t1", "i1"}
  ThreadOf <- MCThreadOf
  MaxFileBytes = 3
  MaxFiles = 2
  MaxTotalBytes = 5
  MaxChars <- MCMaxChars
INVARIANTS FilesAreTrue EventsAreTrue AnswersAreTrue ReportsReadWell
PROPERTIES TelegramArrives
