CONSTANTS
    s1 = s1
    s2 = s2
    maths = maths
    art = art
    teacher = teacher
    other = other
    NoClass = NoClass
    NoTeacher = NoTeacher
    Students = {s1}
    Classes = {maths}
    Teachers = {teacher}
    TeacherOf <- OneTeacher
    Roster0 <- Everyone
    Ordered = {}
    Doings = {"tap", "unlock", "refocus", "protection_off", "silence", "extend"}
    MaxSessions = 1
    MaxTime = 3
    MaxRecords = 2
    MaxInstalls = 1
    MaxWrites = 4
    Lessons = {1}
    MaxTotal = 2
    Day = 2
    Lag = 0
    Skews <- Behind
SPECIFICATION Spec
INVARIANTS
    TypeOK
    SilencePaired
    ReportFollows
    RecapAgrees
PROPERTIES
    BellMovesLater
CHECK_DEADLOCK FALSE
