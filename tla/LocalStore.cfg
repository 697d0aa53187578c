CONSTANTS
    Actor = {1, 2}
    Name = {milk}
    Quantity = {1, 7, 8, 9}
    Limit = 7
    MaxEdits = 2
    Half = 8
SPECIFICATION HistorySpec
INVARIANTS TypeOK OwnEntriesDominate WritesAreUnique SameEditsSameList CopiesAreExplained
PROPERTIES DatabasesGrow EditsMeanWhatTheySay ImplementsCausalList
