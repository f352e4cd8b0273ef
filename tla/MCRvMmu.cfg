SPECIFICATION Spec
CONSTANTS
    Levels = 2
    Index = {0, 1}
    Tables <- MCTables
    Ptes <- MCPtes
    Asids = {0, 1}
    Accesses <- MCAccesses
    Images <- MCImages
    Stores <- MCStores
    Fenced <- MCFenced
    DefaultSize = 2
    Sizes = {1, 2}
    MaxChanges = 2
INVARIANTS AdBitsTrue
PROPERTIES Implements
