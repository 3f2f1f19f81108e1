CONSTANTS
  Functions = {f1}
  Tables = {usr02, t001}
  Empty = Empty
  QueryTable = QueryTable
  OtherParams = {rowcount}
  Cases = {upper, lower}
  MaxKeys = 2
  Results <- MCResults
  MaxTableRows = 2
  MaxSerializedBytes = 33
  ScalarBytes = 3
  KeyBytes = 4
  MaxNesting = 5
SPECIFICATION RfcSpec
INVARIANTS TypeOK CheckedTableIsRead NothingDropped LimitsExact
CHECK_DEADLOCK FALSE
