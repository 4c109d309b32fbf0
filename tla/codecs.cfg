SPECIFICATION Spec
CONSTANTS
  Token <- MCToken
  MaxToken <- MCMaxToken
  MAX_PARSE = 4
INVARIANT LengthRead
INVARIANT FormRead
INVARIANT EventRead
INVARIANT ConfigRead
CHECK_DEADLOCK FALSE
