SPECIFICATION PageSpec
CONSTANTS
    Me = s1
    None = None
    Students = {s1}
    Reqs = {r1, r2}
    mcq1 = mcq1
    Questions = {mcq1}
    Kind <- PageKind
    Marks <- PageMarks
    AnswerSheets = {{}}
    Violations = {"tab_switch"}
    Dtos <- PageDtos
    Patches <- PagePatches
    Undefined = Undefined
    MaxRequests = 3
    MaxIncidents = 2
    MaxFailures = 1
SYMMETRY Symmetry
INVARIANTS
    NothingIsForgotten
    DisqualifiedForCause
    TerminationIsRecorded
    DraftsHaveNoSubmissions
CHECK_DEADLOCK FALSE
