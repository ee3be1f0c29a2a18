SPECIFICATION FairSpec
CONSTANTS
    t1 = t1
    t2 = t2
    t3 = t3
    alice = alice
    bob = bob
    None = None
    Ids = {1, 2}
    Tabs = {t1, t2, t3}
    BrowserOf <- MCBrowserOf
    HostTabs = {h1, h2}
    PlanCap = 1
    Overrides = {2}
    LastDay = 2
    Scenarios <- Evenings
    Poller = poller
    Guests = {g1, g2}
    Host = host
    Queries = {q1}
    Waits = {0, 1}
    DefaultWait = 2
    Ttl = 1
    Interval = 1
INVARIANTS OneSearchPerKey OvershootIsTheOverlap
PROPERTIES CallsRespectWindows BannerClears
CHECK_DEADLOCK FALSE
