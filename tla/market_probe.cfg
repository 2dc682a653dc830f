SPECIFICATION CircuitSpec
CONSTANTS
    NoCall = NoCall
    NoKey = NoKey
    c1 = c1
    c2 = c2
    q = q
    h = h
    Calls = {c1, c2}
    Quotes = {q}
    Histories = {h}
    Threshold = 2
    OpenFor = 2
    Fresh = 1
    Stale = 2
    MaxCall = 1
    Deployments <- MCDeployments
    Mock = TRUE
INVARIANTS
    ProbeReturns
CHECK_DEADLOCK FALSE
