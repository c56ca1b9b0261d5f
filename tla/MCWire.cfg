SPECIFICATION Spec
CONSTANTS
  Conns = {1, 2}
  Scenarios <- MCScenarios
  LengthBase = 4
  ByteBase = 256
  Len7 = 6
  LineLen = 2
  ResponseMax = 8
INVARIANTS
  WhatArrivesWasSent
  WhatIsReadWasAsked
  KeptIntact
PROPERTIES
  EverythingGetsThrough
