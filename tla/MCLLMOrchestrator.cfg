SPECIFICATION FairSpec
CONSTANTS
  local = local
  groq = groq
  deepseek = deepseek
  Characters = {char, nl}
  Newline = nl
  Order <- MCOrder
  Configured = {groq, deepseek}
  Keys = {{groq, deepseek}, {groq}}
  Payloads <- MCPayloads
  Budget = 3
  MaxAttempts = 2
INVARIANTS
  NothingDropped
  EveryAttemptRecorded
  FallbackInOrder
  ChunkerIsRight
PROPERTIES
  TooLargeNotResent
  EveryGenerateEnds
CHECK_DEADLOCK FALSE
