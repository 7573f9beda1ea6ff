SPECIFICATION Spec
CONSTANTS
    Builds <- TheBuilds
    Names <- TheNames
    Keys <- TheKeys
INVARIANTS
    TypeOK
    ServedIsComplete
    SeededRolesContained
