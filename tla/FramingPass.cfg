SPECIFICATION FairSpec
CONSTANTS
  kHeaderLen = 2
  m_base_size = 6
  Protocols <- SmallProtocols
  MaxMessages = 3
INVARIANTS Intact
PROPERTIES EndsAfterClose ImplementsMessageStream
CHECK_DEADLOCK FALSE
