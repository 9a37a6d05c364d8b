CONSTANTS
  Size = 9
  HeaderSize = 2
  ByteBits = 2
  IndexMax = 2
  FieldMod = 16
  v1 = v1
  v2 = v2
  Values <- MCValues
  DataSizes <- MCDataSizes
  Erased = Erased
  Torn = Torn
SPECIFICATION Spec
SYMMETRY Symmetry
INVARIANTS
  TypeOK
  CommittedReadable
  FreeSlotsErased
  BitmapIsPrefix
  WritesStayInArea
PROPERTY ImplementsStore
