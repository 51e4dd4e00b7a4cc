\* two ranks that write and read rank 0's window, two repetitions
SPECIFICATION RSpec
CONSTANTS
    Size = 3
    Repetitions = 2
    Operations = 2
INVARIANTS
    SectionsApart
    TargetCountsRight
