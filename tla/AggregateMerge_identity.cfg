SPECIFICATION Spec
CONSTANTS
  MaxInt = 3
  MaxFloat = 2
  Null = Null
  NumPartials = 2
  KeyWidth = 2
  DictOf <- MCDictOf
  Queries <- MCFloatQueries
  Inputs <- MCInfinities
INVARIANT FirstValueWins
CHECK_DEADLOCK FALSE
