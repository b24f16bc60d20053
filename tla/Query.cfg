SPECIFICATION Spec
CONSTANTS
  Null = Null
  NaN = NaN
  MaxExact = 8
  MaxDays = 9
  BlockRows = 2
  DateOf <- MCDateOf
  Schemas <- MCSchemas
  Statements <- MCStatements
  Rejected <- MCRejected
  Unsettled <- MCUnsettled
  Layouts <- MCLayouts
  Orders <- MCOrders
  FailAt = {0, 1, 2, 3, 4, 5}
INVARIANTS
  TypeOK
  ResultIsReference
  ReadersOwned
  PruningKeepsRows
