SPECIFICATION Spec
CONSTANTS
    u1 = u1  u2 = u2  h1 = h1  h2 = h2
    NoHandler = NoHandler
    Users <- OneUser
    Handlers <- TwoHandlers
    Billers <- TwoHandlers
    Rates = {3}
    Breaks = {0}
    TaxRates = {1}
    TaxBase = 2
    Hour = 2
    PageLimit = 2
    NumberCycle = 2
    MaxTime = 2
    MaxEntries = 2
INVARIANTS NoDoubleBilling
