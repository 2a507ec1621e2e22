SPECIFICATION Spec
CONSTANTS
    MaxOptions = 0
    MaxAnswers = 1
    MaxBytes = 0
INVARIANTS
    NamesOfBothFormsAreRead
