CONSTANTS
    Views <- MCViews
    MaxArgs = 2
    MaxId = 5
    Half = 2
SPECIFICATION Spec
INVARIANTS ValuesReachColumns ServerUnderstands KeyIsFilled
