SPECIFICATION CheatsSpec
CONSTANTS
    Addresses = {1}
    Bytes = {0, 1, 2}
    CodeLists <- MCCodeLists
    MaxGroups = 2
INVARIANTS Restored Applied
