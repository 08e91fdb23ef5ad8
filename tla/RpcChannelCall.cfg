SPECIFICATION Spec
CONSTANTS
  m_service_map <- TestServices
  NoDot = "nodot"
  MaxAnswers = 2
  GivenIdLength = 100
  TextLength <- Texts
INVARIANTS
  CrashCauses
  SuccessMeansResult
PROPERTIES
  ImplementsRpcCall
  Settles
CHECK_DEADLOCK FALSE
