SPECIFICATION Spec
CONSTANTS
  Loggers = {p, q}
  Syncer = Syncer
  Writer = Writer
  m_max_file_size = 0
  MaxLines = 2
  MaxStarts = 2
  MaxDay = 2
  None = None
INVARIANTS
  LinesConserved
  FilesInOrder
  OverrunsBounded
PROPERTIES
  ImplementsJournal
  LinesWritten
CHECK_DEADLOCK FALSE
