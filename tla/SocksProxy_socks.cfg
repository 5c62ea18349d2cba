SPECIFICATION Spec
CONSTANTS
    None = None
    store = store
    nas = nas
    Clients = {c1, c2}
    Literals <- MCLiterals
    Names <- MCNames
    Answers <- MCAnswers
    Exempt <- MCExempt
    Private <- MCPrivate
    Public <- MCPublic
    MaxConnections = 1
INVARIANTS OnlyPublicPeers NothingAfterAbort
PROPERTY HandlersFinish
CHECK_DEADLOCK FALSE
