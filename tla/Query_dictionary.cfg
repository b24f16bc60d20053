SPECIFICATION Spec
CONSTANTS
  Null = Null
  NaN = NaN
  MaxExact = 8
  MaxDays = 9
  BlockRows = 2
  DateOf <- MCDateOf
  Schemas <- MCSchemas
  Statements <- DictStatements
  Rejected <- None
  Unsettled <- None
  Layouts <- MCLayouts
  Orders <- MCOrders
  FailAt = {0}
INVARIANT
  ResultIsReference
