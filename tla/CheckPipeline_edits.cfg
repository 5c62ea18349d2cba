CONSTANTS
    p1 = p1
    sAuto = sAuto
    sPinned = sPinned
    sBrowser = sBrowser
    gA = gA
    gB = gB
    GBP = GBP
    EUR = EUR
    Listings = {l1}
    Products = {p1}
    ProductOf <- OneProduct
    Settings = {sAuto, sPinned}
    Browser = {}
    Pages = {gA, gB}
    Readable <- ReadableMC
    Tagged = {gA, gB}
    Currencies = {GBP}
    CurrencyOf <- StatedGBP
    Handlers = {h1}
    Editors = {e1}
    BatchSize = 1
    RetryLimit = 0
    MaxEdits = 2
    MaxFaults = 0
    None = None
    Keep = Keep
SPECIFICATION Spec
INVARIANTS ValidatorEarned NotModifiedMeansUnchanged
PROPERTIES RecordedUnderCurrentSettings DueUntilRecorded ImplementsLedger
