SPECIFICATION TxSpec
CONSTANTS
    Size = 4
    BackToBack = TRUE
    MaxMessage = 3
    TxMaxChars = 9
PROPERTY SendsInOrder
CHECK_DEADLOCK FALSE
