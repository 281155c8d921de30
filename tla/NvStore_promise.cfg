SPECIFICATION Spec
CONSTANTS
  Key <- MCKey
  Value <- MCValue
  Default <- MCDefault
  Before <- MCBefore
  SlotCount = 2
  DataCount = 3
  MaxFaults = 3
INVARIANTS TypeOK MapExact CleanAgrees AstrayAfterCut
PROPERTIES WrittenBack PutReads ImplementsPromise
