SPECIFICATION Spec
CONSTANTS
    Users = {teacher, student}
    Sockets = {x1, x2}
    None = None
SYMMETRY Symmetry
INVARIANTS
    TypeOK
    AttendanceIsExact
    AnnouncedPeersAreForgotten
    DeadSocketsAreForgotten
PROPERTY ImplementsRoom
CHECK_DEADLOCK FALSE
