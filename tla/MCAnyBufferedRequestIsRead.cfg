CONSTANTS
  None = None
  t0 = t0
  t1 = t1
  Tag <- AllTags
  Tag0 = t0
  Index = {0, 1}
  Lane = {0}
  Byte = {0, 1}
  Byte0 = 0
  Reads <- ThreeAddresses
  Writes <- WordWrites
  Images <- ZeroImages
SPECIFICATION AnySpec
INVARIANT BufferedRequestIsRead
