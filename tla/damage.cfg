CONSTANTS
    h1 = h1
    h2 = h2
    c1 = c1
    c2 = c2
    c3 = c3
    k1 = k1
    k2 = k2
    none = none
    Handles = {h1, h2}
    Callers = {c1, c2}
    HandleOf <- TwoProcesses
    NoCaller = NoCaller
    Keys = {k1, k2, none}
    Data = {"a", "b"}
    Requests <- Mixed
    NoKey = none
    Strict = {}
    MaxCalls = 2
    MaxFiles = 2
    MaxRewrites = 1
    Faults = {"rewrite", "bypass", "replace", "openfail"}
SPECIFICATION Spec
PROPERTIES
    ExtendsOnlySoundJournal
    ReplaysOnlyWhatIsStored
