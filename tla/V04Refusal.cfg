SPECIFICATION Spec
CONSTANTS
  Children = 2
  Prerequisites = {1, 2}
  \* one whose cause names the child, one whose cause does not
  LaunchFailures = {"child_exit", "timeout"}
  MaxAttempts = 3
  MaxRunning = 1
CHECK_DEADLOCK FALSE
INVARIANTS
  RefusalNamesARetry
