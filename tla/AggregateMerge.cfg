SPECIFICATION Spec
CONSTANTS
  MaxInt = 3
  MaxFloat = 2
  Null = Null
  NumPartials = 2
  KeyWidth = 2
  DictOf <- MCDictOf
  Queries <- MCQueries
  Inputs <- MCInputs
INVARIANTS
  TypeOK
  EachGroupOnce
  PartialIsAnswer
  ResultIsAnswer
CHECK_DEADLOCK FALSE
