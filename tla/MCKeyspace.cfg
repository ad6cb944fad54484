CONSTANTS
  key1 = key1
  key2 = key2
  big = big
  Keys <- MCKeys
  None = None
  Long <- MCLong
  InlineMax = 1
  Word = 64
  OK = OK
  WRONGTYPE = WRONGTYPE
  OVERFLOW = OVERFLOW
  NOTINTEGER = NOTINTEGER
  NOTFLOAT = NOTFLOAT
  OUTOFRANGE = OUTOFRANGE
  NOSUCHKEY = NOSUCHKEY
  SYNTAX = SYNTAX
  INVALIDEXP = INVALIDEXP
  MinInt <- MCMinInt
  MaxInt = 8
  Scores <- MCScores
  ByteBits = 2
  MaxOffset = 8
  Sec = 2
  Nano = 2
  Families = {"hash", "set", "list", "zset", "string", "bits"}
  Commands <- MCCommands
  MaxTime = 2
SPECIFICATION Spec
CONSTRAINT Small
INVARIANTS Represented CommandsCorrect CrashSafe DeadlinesIndexed  ScansComplete
