CONSTANTS
    h1 = h1
    h2 = h2
    c1 = c1
    c2 = c2
    c3 = c3
    k1 = k1
    k2 = k2
    none = none
    Handles = {h1, h2}
    Callers = {c1, c2, c3}
    HandleOf <- SharedHandle
    NoCaller = NoCaller
    Keys = {k1, k2, none}
    Data = {"a", "b"}
    Requests <- One
    NoKey = none
    Strict = {}
    MaxCalls = 3
    MaxFiles = 1
    MaxRewrites = 0
    Faults = {"commit"}
SPECIFICATION FairSpec
PROPERTIES
    CallsReturn
