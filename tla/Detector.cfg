SPECIFICATION FlowSpec
CONSTANTS
    Address <- MCAddress
    zero = "zero"
    NoUser = "nobody"
    Proxy = {"proxy"}
    Token <- MCToken
    StableToken = {"usd", "steth"}
    LPToken = {}
    ActionMap <- MCActionMap
    Capital = {"liquidateBorrow"}
    Histories <- MCHistories
    StartBlock = 9
    XToken <- MCXToken
    Rate <- MCRate
    Price <- MCPrice
    Bucket = 2
    Usd = "USD"
    All = "ALL"
    Priced <- MCPriced
INVARIANTS
    InnermostAction
    ExtractedFromHistory
    TotalsAtEndOfTx
    MergedIsDifference
    VerdictFromHistory
CHECK_DEADLOCK FALSE
