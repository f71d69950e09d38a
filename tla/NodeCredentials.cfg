SPECIFICATION Spec
CONSTANTS
    Enrollments = {e1, e2}
    Calls = {c1, c2}
    Root = Root
    None = None
SYMMETRY Symmetry
INVARIANTS TokensSound WithdrawnStaysOut RotationKeepsWorker
PROPERTY LockedCreatesNoNode
CHECK_DEADLOCK FALSE
