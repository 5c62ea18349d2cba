CONSTANTS
    p1 = p1
    sAuto = sAuto
    sPinned = sPinned
    sBrowser = sBrowser
    gA = gA
    gB = gB
    GBP = GBP
    EUR = EUR
    Listings = {l1, l2}
    Products = {p1}
    ProductOf <- OneProduct
    Settings = {sAuto}
    Browser = {}
    Pages = {gA}
    Readable <- NothingReadable
    Tagged = {}
    Currencies = {}
    CurrencyOf <- NoneStated
    Handlers = {h1}
    Editors = {e1}
    BatchSize = 2
    RetryLimit = 0
    MaxEdits = 0
    MaxFaults = 0
    None = None
    Keep = Keep
SPECIFICATION FairSpec
PROPERTY DueIsChecked
CHECK_DEADLOCK FALSE
