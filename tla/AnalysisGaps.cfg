SPECIFICATION AnalysisSpec
CONSTANTS
    Marks = {2, 5}
    Quantities = {1, 3}
    Bankrolls = {10, 20}
    FillFee = 1
    Spread = 1
    MaxOrders = 5
    Series <- SixCloses
    Strategies <- FewStrategies
    Baselines <- FewBaselines
    Plans <- TwoPlans
    Short = 1
    Long = 2
    InitialCash = 100
    MinTrade = 10
    Base = 10
    FeeRate = 1
    Slippage = 1
    PositionPct = 10
    Contents <- FewContents
    Requests <- FewRequests
    Origin = 4
    Day = 2
INVARIANT GapsAreEmpty
