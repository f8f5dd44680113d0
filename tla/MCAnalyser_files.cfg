SPECIFICATION Spec
CONSTANT
  Files <- MCFiles
INVARIANTS TypeOK MarkedIsReachable RowsCountOccurrences PairsFallThrough PrintedIsSorted
PROPERTIES ImplementsExploration 
