CONSTANTS
  NaN = NaN
  ParseError = ParseError
  NonPrimitive = NonPrimitive
  TextOrder <- SerTextOrder
  ParseScalar <- SerParseScalar
  SerializeScalar <- SerSerializeScalar
  Keys = {"k", "j"}
  OpTexts = {"=", "!=", ">", ">=", "<", "<="}
  ValueTexts = {"a", "a, b"}
  ListOpTexts = {"in", "not in"}
  ListTexts = {"a", "b", "a, b"}
  MaxList = 2
  Schema <- SerSchema
  GivenScalars <- SerNoScalars
  HivePieces = {"a"}
  MaxPieces = 1
  MaxFilters = 2
  MaxPartitions = 0

SPECIFICATION Spec
INVARIANT SerializationInjective
