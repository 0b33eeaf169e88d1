\* A child that is slow, hangs, dies, or prints a few other lines; three requests.
CONSTANTS
  Timeout = 1
  MaxSize = 2
  StdinCapacity = 8
  StdoutCapacity = 2
  ChatterKinds = {"notification", "blank", "garbage", "overlong"}
  Floods = FALSE
  MaxChatter = 2
  MaxChannel = 3
  MaxRequests = 3
SPECIFICATION Spec
INVARIANTS TypeOK AnswerIsOurs
PROPERTIES RequestReturns ReaderEnds
CHECK_DEADLOCK FALSE
