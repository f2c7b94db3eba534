SPECIFICATION PartsSpec
CONSTANTS
    Hosts = {h1, h2}
    Claimants = {c1, c2}
    Ids = {i1, i2}
    NoProof = NoProof
    NoRow = NoRow
    Ttl = 1
    MaxRemint = 2
    MaxTime = 2
    Tabs = {t1, t2}
    Links = {l1}
    Typed = {p1, bad}
    Malformed = {bad}
    Nowhere = Nowhere
    MaxKeys = 3
    MaxActs = 7
    Nothing = Nothing
    Commands = {k1, k2}
    FirstSecret = s0
    Calls = {a, b}
    IndexName = index
    Names = {index, channel}
    MaxCalls = 3
    MaxOutside = 2
CHECK_DEADLOCK FALSE
INVARIANTS
    OnlyOldOrNew
