SPECIFICATION MCSpec
CONSTANTS
  v1 = v1
  v2 = v2
  junk = junk
  m_base_size = 2
  Values <- TwoValues
  Junk <- junk
  MaxNodes = 3
  MaxOp = 3
  ByteBits = 3
  Size <- Widths
  V6Octets = 3
  Texts <- SomeTexts
  Tails <- SomeTails
  Held = 2
SYMMETRY ValueSymmetry
INVARIANTS
  TypeOK
  InBounds
  WireRoundTrip
  SubnetExact
PROPERTY ImplementsByteBuffer
CHECK_DEADLOCK FALSE
