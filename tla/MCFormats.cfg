SPECIFICATION Spec
CONSTANTS
    MaxOptions = 3
    MaxAnswers = 3
    MaxBytes = 6
INVARIANTS
    TruncationIsNoticed
    ReadsWholeReply
    ChecksumVerifies
    HeaderThenData
    SentIsReceived
    WireChecksums
    StackReadsItself
    StackIsOnItsCard
