CONSTANTS
    MaxRenders = 3
    Concurrency = 2
    QueueLimit = 1
SPECIFICATION FairSpec
INVARIANTS NoStrayBrowser CleanExit
PROPERTIES AdmittedIsAnswered RetiredIsGone ImplementsSharedBrowser
CHECK_DEADLOCK FALSE
