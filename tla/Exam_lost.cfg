SPECIFICATION Spec
CONSTANTS
    Students = {s1, s2}
    Reqs = {r1, r2}
    mcq1 = mcq1
    essay1 = essay1
    Questions = {mcq1, essay1}
    Kind <- MCKind
    Marks <- MCMarks
    AnswerSheets <- MCSheets
    Violations = {"fullscreen_exit"}
    Limits = {1}
    Openings = {"none"}
    Dtos <- MCDtos
    Patches <- MCPatches
    Undefined = Undefined
    MaxRequests = 3
INVARIANTS
    SubmissionsSurvive
CHECK_DEADLOCK FALSE
