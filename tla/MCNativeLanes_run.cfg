CONSTANTS
    Wall = 2
    MaxDisturbs = 2
    Slots = 2
    Samples = 2
SPECIFICATION Spec
INVARIANTS
    SettledIsCaptured
    VerdictIsEarned
    CorruptHasCause
