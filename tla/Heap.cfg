SPECIFICATION HeapSpec
CONSTANTS
  NumPages = 7
  FirstFree = 2
  MaxRef = 3
  PageUnits = 4
  LeastUnits = 8
  Requests = {20, 70, 128}
INVARIANTS TypeOK HeadIsUnused BlocksTile FreeListSorted
PROPERTY NeverRecycled
