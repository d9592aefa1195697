CONSTANTS
    File = {f1, f2}
    Struct = {s1, s2}
    NoFile = NoFile
    MaxEdits = 1
    MaxRuns = 2
SYMMETRY Symmetry
SPECIFICATION Spec
INVARIANTS TypeOK OkMeansGenerated WholeOrUntouched RerunRepairs HandWrittenKept
CHECK_DEADLOCK FALSE
