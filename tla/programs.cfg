SPECIFICATION USpec
CONSTANTS
  SignBit = 2
  NSlots = 3
  NLoc = 3
  Asked = {1, 2, 3}
  Chars <- Glyphs
  Lens <- Rhythms
  HexPlaces = 2
  Bytes = {1, 2, 200}
  MaxLen = 2
  Cells = 11
  NameSize = 4
  GrepBuf = 3
  MaxFile = 6
INVARIANTS
  ListSound StringsRight MemoryRight PrintfRight ParseRight GrepRight
PROPERTY ImplementsList
