\* Two calls around one save; the only message is longer than the prompt limit, so
\* the guard cuts it to 3 and one context rejection to 1, below Short.
SPECIFICATION Spec
CONSTANTS
  c1 = c1
  c2 = c2
  Calls = {c1, c2}
  Uses <- MCUses
  Lengths <- MCLengths
  MaxPrompt = 8
  MaxRetries = 3
  MaxSaves = 1
INVARIANTS
  FreshBackend
  OutcomeIsOwn
  NoFruitlessRetry
