SPECIFICATION FairSpec
CONSTANTS
  Requests = {"read", "write"}
  Writes = {"write"}
  NoRequest = "none"
  MaxParts = 2
  MaxOpens = 1
  MaxDefer = 1
  Kernels <- MCKernels
INVARIANTS
  TypeOK
  AnswersAreHonest
  ImageOutlivesRequests
PROPERTIES
  RequestsAndDestroyEnd
CHECK_DEADLOCK FALSE
