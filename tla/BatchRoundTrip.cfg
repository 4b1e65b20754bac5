CONSTANTS
  RowLengths <- MCLengths
  MaxRows = 6
  Groups <- MCGroups
  Budgets <- MCBudgets
SPECIFICATION Spec
CHECK_DEADLOCK FALSE
INVARIANTS DispatchRoundTrip ChunksFillBudget PartitionsBalanced WorkersGetTheirBin PackRoundTrip
