CONSTANTS
  V4Bits = 6
  V6Bits = 8
  OutBits = 4
  LegacyBits = 6
  VpcPrefixes <- MCVpcPrefixes
  MaxUsed = 3
  NoRead = NoRead
  ReadErr = ReadErr
SPECIFICATION Spec
INVARIANT TypeOK
PROPERTY LinknetStatsMatchReference LegacyAgreesWithLinknet
