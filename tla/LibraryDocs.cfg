CONSTANTS
  Subjects = {"matrix", "array", "bitset", "date", "integers", "expression", "bytes", "utf8", "points", "text", "buffer", "registry",
           "json", "tokens", "csv", "records", "config", "lines", "files", "cli", "variants", "pointers", "tuples",
           "random", "draws", "message", "uuid"}
  MaxItems = 6
  MaxBits = 8
  MaxDays = 9
  MaxChars = 5
  MaxCalls = 3
SPECIFICATION DocsSpec
INVARIANT ClaimsHold
CHECK_DEADLOCK FALSE
