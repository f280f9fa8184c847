CONSTANTS
    Questions = 2
    MaxAttempts = 2
    QuestionWall = 2
    RunWall = 3
    Horizon = 6
SPECIFICATION SliceSpec
PROPERTIES
    VerdictInTime
    BlameIsRight
    SliceEnds
