SPECIFICATION Spec
CONSTANTS
  LengthBase = 4
  ByteBase = 16
  Grow = 2
  MaxProps = 3
  MaxChars = 4
  Values <- MCValues
  Requests <- MCRequests
  Answers <- MCAnswers
  Chars <- MCChars
  Servers <- MCServers
  Proxies <- MCProxies
  Behind <- MCBehind
INVARIANTS
  BrokerUnderstands
  ClientUnderstands
  UTF8Agrees
  AddressAsWritten
PROPERTIES
  DecodingEnds
