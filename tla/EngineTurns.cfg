CONSTANTS
    s1 = s1
    s2 = s2
    maths = maths
    art = art
    teacher = teacher
    other = other
    NoClass = NoClass
    NoTeacher = NoTeacher
    Students = {s1}
    Classes = {maths}
    Teachers = {teacher}
    TeacherOf <- OneTeacher
    Roster0 <- Everyone
    Ordered = {s1}
    Doings = {"tap", "tap_unlock", "unlock", "refocus", "protection_off", "protection_on", "reason"}
    MaxSessions = 1
    MaxTime = 1
    MaxRecords = 4
    MaxInstalls = 1
    MaxWrites = 4
    Lessons = {1}
    MaxTotal = 3
    Day = 2
    Lag = 0
    Skews <- Now
SPECIFICATION Spec
INVARIANTS
    NewestActionStands
    PictureExplained
    RecordedOnce
    KeptUnlockFiled
    AnswersNameTrueSessions
    ChipMirrors
CHECK_DEADLOCK FALSE
