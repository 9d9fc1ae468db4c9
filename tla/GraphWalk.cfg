SPECIFICATION Spec
CONSTANTS
    TaskStartID = "START"
    TaskEndID = "END"
    Absent <- MCAbsent
    ShortNames = {"ok"}
    Documents <- AllDocs
    MaxRuns = 6
CHECK_DEADLOCK FALSE
INVARIANTS TypeOK NoSilentEnd JumpsTaken BranchesRun StoredIsExecutable
