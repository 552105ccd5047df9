SPECIFICATION LinkedListSpec
CONSTANTS
    StoreLength = 4
    Values = {0, 1}
PROPERTY RefusedOnlyWhenFull
