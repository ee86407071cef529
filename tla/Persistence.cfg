\* Three runs, four writes, pages of one row, recovery pages of two.
CONSTANTS
  Runs = {1, 2, 3}
  Stamps = {1, 2}
  Deadline = 2
  TimersPerRun = 2
  PageSize = 1
  ScanPageSize = 2
  MaxWrites = 4
  Requests <- SomeRequests
SPECIFICATION StoreSpec
INVARIANTS DriversAgree ReadsAgree IndexesSound PagesComplete
CHECK_DEADLOCK FALSE
