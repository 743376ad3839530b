SPECIFICATION Spec
CONSTANT
    MaxSteps = 3
INVARIANTS
    DirectIsGeneric
    HeadersSurvive
    LastReplyWins
    LengthIsOwn
