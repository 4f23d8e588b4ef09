CONSTANTS
  NaN = NaN
  ParseError = ParseError
  NonPrimitive = NonPrimitive
  TextOrder <- SerTextOrder
  ParseScalar <- SerParseScalar
  SerializeScalar <- SerSerializeScalar
  Keys = {"k", "k NOT"}
  OpTexts = {"=", "!=", ">", ">=", "<", "<="}
  ValueTexts = {"a"}
  ListOpTexts = {"in", "not in"}
  ListTexts = {"a"}
  MaxList = 2
  Schema <- SerSchema
  GivenScalars <- SerNoScalars
  HivePieces = {"a"}
  MaxPieces = 1
  MaxFilters = 2
  MaxPartitions = 0

SPECIFICATION Spec
INVARIANT SerializationInjective
