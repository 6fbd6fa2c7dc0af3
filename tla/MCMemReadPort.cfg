CONSTANTS
  None = None
  Address = {8, 9}
  Value = {0, 1}
SPECIFICATION FairSpec
INVARIANTS TypeOK NoneLost AnswersItsRequest
PROPERTIES ResponseHeld Answered FetchTaken
