SPECIFICATION Spec
CONSTANTS
  First <- MCFirst
  Later <- MCLater
  TextLen <- MCTextLen
  Offsets <- MCOffsets
  MaxRequests = 2
INVARIANTS
  StreamIsRead
  AnswersAreWhole
PROPERTIES
  RequestsAreTaken
CHECK_DEADLOCK FALSE
