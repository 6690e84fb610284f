SPECIFICATION Spec
CONSTANT Responses <- Restored
\* A stream that has ended does nothing more.
CHECK_DEADLOCK FALSE
INVARIANTS
    TypeOK
    ShownIsRestored
    AllShown
    HeldForALabel
