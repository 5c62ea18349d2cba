CONSTANTS
    p1 = p1
    sAuto = sAuto
    sPinned = sPinned
    sBrowser = sBrowser
    gA = gA
    gB = gB
    GBP = GBP
    EUR = EUR
    Listings = {l1}
    Products = {p1}
    ProductOf <- OneProduct
    Settings = {sAuto}
    Browser = {}
    Pages = {gA}
    Readable <- NothingReadable
    Tagged = {}
    Currencies = {}
    CurrencyOf <- NoneStated
    Handlers = {h1, h2}
    Editors = {e1}
    BatchSize = 1
    RetryLimit = 1
    MaxEdits = 1
    MaxFaults = 1
    None = None
    Keep = Keep
SPECIFICATION FairSpec
INVARIANT OneCheckPerListing
PROPERTIES DueIsChecked JobsSettle
CHECK_DEADLOCK FALSE
