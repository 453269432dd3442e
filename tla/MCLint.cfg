CONSTANTS
    MaxDepth = 20
    Files <- MCFiles
SPECIFICATION Spec
INVARIANTS
    AliasesAreTransparent UnknownCannotHide DictionariesAreFound WideningIsFound
CHECK_DEADLOCK FALSE
