CONSTANTS
    s1 = s1
    maths = maths
    teacher = teacher
    NoClass = NoClass
    NoTeacher = NoTeacher
    Students = {s1}
    Classes = {maths}
    Teachers = {teacher}
    TeacherOf <- OneTeacher
    Roster0 <- Everyone
    Ordered = {s1}
    Doings = {"tap", "crash", "unread", "check_in", "lost_read", "unknown_block", "block_stays"}
    MaxSessions = 1
    MaxTime = 1
    MaxRecords = 2
    MaxInstalls = 1
    MaxWrites = 4
    Lessons = {1}
    MaxTotal = 3
    Day = 2
    Lag = 0
    Skews <- Now
    Bound = 1
    Me = s1
    TapCap = 1
    Recalls = FALSE
    MaxFaults = 2
SPECIFICATION PhoneLive
PROPERTIES
    QueueDrains
    Converges
CHECK_DEADLOCK FALSE
