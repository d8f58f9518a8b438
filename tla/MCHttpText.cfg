SPECIFICATION Spec
CONSTANTS
  Symbol <- MCSymbols
  Values <- MCValues
  Keys <- MCKeys
  Typings <- MCTypings
  Tails <- MCTails
INVARIANT
  TextInv
  FieldsRead
  EmptyTakesNext
  KeyArrives
CHECK_DEADLOCK FALSE
