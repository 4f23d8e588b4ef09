CONSTANTS
  NaN = NaN
  ParseError = ParseError
  NonPrimitive = NonPrimitive
  TextOrder <- MCTextOrder
  ParseScalar <- MCParseScalar
  SerializeScalar <- MCSerializeScalar
  Keys <- MCKeys
  OpTexts = {"=", "!=", ">", ">=", "<", "<=", "=="}
  ValueTexts = {"", "01", "2", "NaN", "x"}
  ListOpTexts = {"in", "not in", "IN"}
  ListTexts = {"1", "null"}
  MaxList = 2
  Schema <- MCSchema
  GivenScalars <- MCGivenScalars
  HivePieces = {"t", "01"}
  MaxPieces = 3
  MaxFilters = 1
  MaxPartitions = 2

SPECIFICATION Spec
INVARIANT NoPanic
