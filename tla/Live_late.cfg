SPECIFICATION Spec
CONSTANTS
    teacher = teacher
    student = student
    t1 = t1
    s1 = s1
    x1 = x1
    None = None
    Teacher = teacher
    Students = {student}
    Sockets = {t1, s1, x1}
    Plans <- MCPlans
PROPERTY StudentsAreCalled
CHECK_DEADLOCK FALSE
