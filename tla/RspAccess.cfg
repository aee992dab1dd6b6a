SPECIFICATION MCFairSpec
CONSTANTS
    ByteBase = 16
    WordCount = 5
    DigitBase = 4
    MAX_GPRS = 1
    HasPic = TRUE
    HasTick = FALSE
    BufMax = 16
    MaxRequests = 2
    MaxTimeouts = 1
    PatientMonitor = TRUE
    NoJob = NoJob
    GdbRequest <- TwoRequests
INVARIANTS TypeOK OnlyWholeRequests OneReplyPerRequest
PROPERTIES ImplementsRemoteMemory RequestsAreAnswered
