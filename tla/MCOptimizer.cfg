SPECIFICATION Spec
CONSTANTS
    Cycles <- SomeCycles
    Limits = {12, 90, 1000}
    FeeScale = 100
    FeeFactor = 99
    MinInput = 10
    MaxInput = 400
    Steps = 12
    Tolerance = 4
    Prices <- SomePrices
    PriceOne = 8
    MaxWord = 3000
    ProviderFees <- Fees
    Routings <- SomeRoutings
    FeeBase = 1000
    GasCosts = {0, 3}
    MinProfit = 2
INVARIANTS
    BracketHoldsPeak
    HalfOfPeak
    GivenUpEarnsNothing
    AcceptedPays
