CONSTANTS
  V4Bits = 6
  V6Bits = 8
  OutBits = 4
  LegacyBits = 6
  VpcPrefixes <- MCVpcPrefixesWithLinknet
  MaxUsed = 3
  NoRead = NoRead
  ReadErr = ReadErr
SPECIFICATION Spec
PROPERTY LinknetStatsMatchReference
