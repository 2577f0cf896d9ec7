SPECIFICATION BanksSpec
CONSTANTS
    Programs = {16}
    Patterns = {16}
    Bytes = {0, 3, 70}
    MaxSet = 2
PROPERTY DebugReadsQuiet
