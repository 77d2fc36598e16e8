\* Every chip size the service accepts.
SPECIFICATION Spec
CONSTANTS
    Chips <- MCChips
    Operations <- MCOperations
INVARIANTS
    FitsMap
    AreaDefined
    TargetUnprotected
    HalfStaysProtected
    CodesDistinct
