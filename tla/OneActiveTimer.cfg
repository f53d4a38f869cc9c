SPECIFICATION Spec
CONSTANTS
    u1 = u1  u2 = u2  h1 = h1  h2 = h2
    NoHandler = NoHandler
    Users <- OneUser
    Handlers <- OneHandler
    Billers <- OneHandler
    Rates = {1}
    Breaks = {0, 1}
    TaxRates = {1}
    TaxBase = 2
    Hour = 2
    PageLimit = 1
    NumberCycle = 2
    MaxTime = 2
    MaxEntries = 3
INVARIANTS OneActiveTimer
