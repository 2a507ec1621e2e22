SPECIFICATION Spec
CONSTANTS
    MaxOptions = 0
    MaxAnswers = 0
    MaxBytes = 6
INVARIANTS
    ChecksumAlwaysVerifies
