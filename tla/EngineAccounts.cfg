CONSTANTS
    s1 = s1
    s2 = s2
    maths = maths
    art = art
    teacher = teacher
    other = other
    NoClass = NoClass
    NoTeacher = NoTeacher
    Students = {s1}
    Classes = {maths}
    Teachers = {teacher}
    TeacherOf <- OneTeacher
    Roster0 <- Everyone
    Ordered = {s1}
    Doings = {"tap", "unlock", "join", "leave", "remove", "delete", "reinstall"}
    MaxSessions = 1
    MaxTime = 1
    MaxRecords = 3
    MaxInstalls = 2
    MaxWrites = 2
    Lessons = {1}
    MaxTotal = 3
    Day = 2
    Lag = 0
    Skews <- Now
SPECIFICATION Spec
INVARIANTS
    LiveIsEnrolled
    DeletedLeavesNothing
CHECK_DEADLOCK FALSE
