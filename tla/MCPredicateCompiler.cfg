CONSTANTS
  NaN = NaN
  ParseError = ParseError
  NonPrimitive = NonPrimitive
  TextOrder <- MCTextOrder
  ParseScalar <- MCParseScalar
  SerializeScalar <- MCSerializeScalar
  Keys <- MCCompilerKeys
  OpTexts = {"=", "<", "=="}
  ValueTexts = {"", "2", "x"}
  ListOpTexts = {"in", "not in"}
  ListTexts = {"1", "x"}
  MaxList = 2
  Schema <- MCCompilerTypeMap
  GivenScalars <- MCNoScalars
  HivePieces = {"t"}
  MaxPieces = 1
  MaxFilters = 2
  MaxPartitions = 0
  TableSchema <- MCTableSchema

SPECIFICATION CSpec
INVARIANT CompilerTypeOK
INVARIANT CompileAllOrNothing
