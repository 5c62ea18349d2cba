CONSTANTS
    None = None
    MaxValidations = 5
    ReservedValidations = 2
    MaxSelectorDepth = 2
    MaxQueries = 6
    MaxPriceTexts = 2
    MaxCandidates = 4
    MaxDocuments = 2
    PriceTexts <- PriceTextsMC
    Storefronts <- StorefrontsMC
    Storefront <- StorefrontMC
    Layout <- LayoutMC
    Layouts <- LayoutsMC
    ModeQueues <- ModeQueuesMC
SPECIFICATION Spec
INVARIANTS ReadsBack AcceptedIsShown RecordedInAnyOrder SuggestedReadsIt FoundIsOffered RiskLast BudgetIsShared
CHECK_DEADLOCK FALSE
