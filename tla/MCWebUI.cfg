SPECIFICATION Spec
CONSTANTS
    MaxDisks = 2
    MaxZfcp = 1
    Users = {u1, u2}
    NoUser = NoUser
    HCPs = {h1, h2}
    NoHcp = NoHcp
    MaxLookups = 2
    MaxNode = 3
    n1 = n1
    n2 = n2
    n3 = n3
    g1 = g1
    g2 = g2
    NoGroup = NoGroup
    MaxCalls = 2
    MaxProcs = 4
    Names = {p1}
    MaxRefresh = 1
    MaxOpen = 2
    PageSize = 1
    MaxClicks = 3
    Targets = {t1, t2}
    NoTab = NoTab
    MaxTabs = 2
    MaxTabActs = 4
    MaxChains = 2
    RowsPerPage = 1
    MaxEdits = 2
    Priorities = {100, 998}
    MaxPolicyActs = 3
    Inputs = {v1, v2}
    Planned = v1
    Drawers = 2
    MaxTurns = 2
    MaxWizardActs = 1
    Unused = Unused
INVARIANTS
    TypeOK
    AdvancedEntryForUser
    SameTargets
    LoaderWhileBusy
    LoaderHidden
    CookieCounts
    TableExact
    
    ShowsSelected
    EditKeepsRest
    OwnRule
    UpdateAsEntered
PROPERTIES
    OsAfterDisks
    BootOnlyIfAllSucceeded
    QuietWhenHidden
    HcpAsEntered
    WaitingEnds
CHECK_DEADLOCK FALSE
