SPECIFICATION Spec
CONSTANTS
  Half <- MCHalf
  ByteBits = 4
  Digits = 3
  Nibble = 4
  AddressSpace = 64
  Programs <- MCPrograms
  Images <- MCImages
  Org = 0
  XOSERA_ADDRESS = 32
  Patterns <- MCPatterns
  Character = 10
  Color = 2
  Characters = 3
  MaxUnready = 2
  Parts = 2
INVARIANTS
  TypeOK
  ScreenCleared
  RoutinesRight
PROPERTIES
  ArithmeticExact
  ProductsExact
  ShiftsStepwise
  OnlyDestination
  LengthsAgree
