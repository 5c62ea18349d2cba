CONSTANTS
    GBP = GBP
    None = None
    Listings = {l1}
    Handlers = {h1}
    Observations <- Reaching
    Currencies = {GBP}
    Configs <- LowsOrEdges
    Owners <- Admin
    Patches <- Silencing
    Environment = {"haUrl", "haWebhookId"}
    Mailer = TRUE
    DefaultThreshold = 2
    MaxThreshold = 2
    Conditional = {l1}
    MaxEdits = 2
    MaxFaults = 1
SPECIFICATION FairSpec
PROPERTIES  OneAlarmPerOutage RecoveryClears BrokenIsTold SavedSettingsKept
CHECK_DEADLOCK FALSE
