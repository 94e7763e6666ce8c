SPECIFICATION CsvSpec
CONSTANTS
  Parsers <- MCParsers
  MaxLen = 5
INVARIANTS
  CsvTypeOK
  ChunksInvisible
