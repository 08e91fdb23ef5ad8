SPECIFICATION Spec
CONSTANTS
  m_service_map <- TestServices
  NoDot = "nodot"
  MaxAnswers = 1
  GivenIdLength = 16
  TextLength <- Texts
PROPERTY ErrorReported
CHECK_DEADLOCK FALSE
