CONSTANTS
    MaxNeed = 2
    Margin = 0
    SameThread = TRUE
SPECIFICATION FairSpec
PROPERTIES
    EndKeyDetaches
