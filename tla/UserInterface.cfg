SPECIFICATION Spec
CONSTANTS
    i1 = i1  i2 = i2  i3 = i3
    w1 = w1  w2 = w2  w3 = w3
    r1 = r1  r2 = r2  r3 = r3  r4 = r4  r5 = r5
    Items <- MCItems
    Configured <- MCConfigured
    Kinds = {"codec", "database", "protocol", "user", "vocabulary"}
    MaxClicks = 2
    MaxHaste = 1
    MaxEdits = 1
    MaxWrites = 1
    Workspaces <- MCWorkspaces
    Reactors <- MCReactors
    Topology <- MCTopology
    NoWorkspace = NoWorkspace
    NewTab = NewTab
    MaxConnections = 3
    MaxActs = 4
    MaxRush = 1
CHECK_DEADLOCK FALSE
INVARIANTS PageAgrees 
PROPERTIES
    UnsavedIsNotLeft
    OnlyDeletedPanesLeave
    ShownBecomesSelected
    GoneBeforeRemoved
