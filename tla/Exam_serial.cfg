SPECIFICATION Spec
CONSTANTS
    Students = {s1, s2}
    Reqs = {r1}
    mcq1 = mcq1
    essay1 = essay1
    Questions = {mcq1, essay1}
    Kind <- MCKind
    Marks <- MCMarks
    AnswerSheets <- FilledSheets
    Violations = {"fullscreen_exit"}
    Limits = {1, 2}
    Openings = {"none"}
    Dtos <- MCDtos
    Patches <- MCPatches
    Undefined = Undefined
    MaxRequests = 4
INVARIANTS
    TypeOK
    AcceptedAreStored
    AcceptedWithinLimit
    AckedFlagsAreListed
    ThresholdDisqualifies
PROPERTIES
    DisqualificationIsPermanent
    ImplementsLedger
CHECK_DEADLOCK FALSE
