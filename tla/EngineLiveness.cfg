CONSTANTS
    s1 = s1
    s2 = s2
    maths = maths
    art = art
    teacher = teacher
    other = other
    NoClass = NoClass
    NoTeacher = NoTeacher
    Students = {s1}
    Classes = {maths}
    Teachers = {teacher}
    TeacherOf <- OneTeacher
    Roster0 <- Everyone
    Ordered = {s1}
    Doings = {"tap", "extend", "tap_unlock", "remove"}
    MaxSessions = 1
    MaxTime = 2
    MaxRecords = 2
    MaxInstalls = 1
    MaxWrites = 4
    Lessons = {1}
    MaxTotal = 3
    Day = 2
    Lag = 1
    Skews <- Now
SPECIFICATION LiveSpec
PROPERTIES
    EveryLessonOver
    EveryUnlockRecorded
    EveryTapAnswered
CHECK_DEADLOCK FALSE
