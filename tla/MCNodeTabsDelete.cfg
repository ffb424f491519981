SPECIFICATION Spec
CONSTANTS
    Targets = {t1, t2}
    NoTab = NoTab
    MaxTabs = 2
    MaxActs = 4
INVARIANT DeleteAsChecked
CHECK_DEADLOCK FALSE
