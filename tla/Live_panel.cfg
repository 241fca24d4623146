SPECIFICATION Spec
CONSTANTS
    Users = {teacher, student}
    Sockets = {x1, x2}
    None = None
SYMMETRY Symmetry
INVARIANT PanelsFollowTheClass
CHECK_DEADLOCK FALSE
