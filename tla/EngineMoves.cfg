CONSTANTS
    s1 = s1
    s2 = s2
    maths = maths
    art = art
    teacher = teacher
    other = other
    NoClass = NoClass
    NoTeacher = NoTeacher
    Students = {s1}
    Classes = {maths, art}
    Teachers = {teacher, other}
    TeacherOf <- TwoTeachers
    Roster0 <- Everyone
    Ordered = {s1}
    Doings = {"tap", "end", "protection_off"}
    MaxSessions = 2
    MaxTime = 2
    MaxRecords = 2
    MaxInstalls = 1
    MaxWrites = 4
    Lessons = {1}
    MaxTotal = 2
    Day = 2
    Lag = 0
    Skews <- Now
SPECIFICATION Spec
INVARIANTS
    LessonsApart
    LastTapDecides
PROPERTIES
    Attends
CHECK_DEADLOCK FALSE
