CONSTANTS
    Bell = 2
    MaxTime = 2
    MaxQuestions = 2
    Drafts = {"d1"}
    MaxActs = 3
    MaxId = 2
SPECIFICATION Spec
INVARIANTS
    ShownIsLastAsked
    NewestPickStands
    AskedOnce
    FinalCounts
PROPERTIES
    AnswerNeverGoesBack
    CardCatchesUp
    PageCatchesUp
CHECK_DEADLOCK FALSE
