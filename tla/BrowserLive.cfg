SPECIFICATION FairBrowserSpec
CONSTANTS
    ta = ta
    tb = tb
    NoTab = NoTab
    Orphan = Orphan
    s1 = s1
    s2 = s2
    k1 = k1
    k2 = k2
    k3 = k3
    c1 = c1
    c2 = c2
    o1 = o1
    o2 = o2
    NoToken = NoToken
    Tokens = {k1, k2, k3}
    Sessions = {s1, s2}
    Checks = {c1, c2}
    Changes = {o1, o2}
    FirstTokens <- TwoSessions
    g1 = g1
    t1 = t1
    a1 = a1
    NoGeneration = NoGeneration
    NoChat = NoChat
    Parts = {"locks", "chain", "some", "stream"}
CHECK_DEADLOCK FALSE
PROPERTIES
    PagesEnd
    DispatchesEnd
