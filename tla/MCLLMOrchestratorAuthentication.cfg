SPECIFICATION Spec
CONSTANTS
  local = local
  groq = groq
  deepseek = deepseek
  Characters = {char, nl}
  Newline = nl
  Order <- MCOrder
  Configured = {groq, deepseek}
  Keys = {{groq, deepseek}}
  Payloads <- MCPayloads
  Budget = 3
  MaxAttempts = 2
INVARIANT
  AuthenticationFallsBack
CHECK_DEADLOCK FALSE
