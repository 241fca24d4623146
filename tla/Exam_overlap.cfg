SPECIFICATION Spec
CONSTANTS
    Students = {s1, s2}
    Reqs = {r1, r2, r3}
    mcq1 = mcq1
    essay1 = essay1
    Questions = {mcq1, essay1}
    Kind <- MCKind
    Marks <- MCMarks
    AnswerSheets <- MCSheets
    Violations = {"fullscreen_exit", "tab_switch"}
    Limits = {1}
    Openings = {"open"}
    Dtos <- MCDtos
    Patches <- MCPatches
    Undefined = Undefined
    MaxRequests = 3
INVARIANTS
    AttemptsWithinLimits
    PassesAreEarned
    NoFalseDisqualification
    FlagsAreReported
    HighFlagsAreAlerted
SYMMETRY Symmetry
CHECK_DEADLOCK FALSE
