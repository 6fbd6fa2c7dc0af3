CONSTANTS
  None = None
  t0 = t0
  t1 = t1
  t2 = t2
  t3 = t3
  t4 = t4
  Tag <- MCTags
  Tag0 = t0
  Index = {0}
  Lane = {0, 1}
  Byte = {0, 1}
  Byte0 = 0
  Reads <- MCReads
  Writes <- MCWrites
  Images <- MCImages
  DeviceReads <- MCDeviceReads
  LedWrites <- MCLedWrites
  PixelWrites <- MCPixelWrites
  Input <- MCInput
SPECIFICATION HSpec
INVARIANTS MapTypeOK NoResponseHidden AnsweredInOrder DevicesUncached ScreenFollows
PROPERTY CachedTrafficAtomic
