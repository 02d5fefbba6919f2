CONSTANTS
    Tree <- MCTree
    Root = "root"
    Inboxes <- MCInboxes
    Integrations = 2
    GroupInterval = 1
    RepeatInterval = 2
    MaxTime = 1
    MaxStoreFaults = 1
    Calls = {"c1", "c2", "c3"}
    EmailOf <- MCEmailOf
    MaxSetupFaults = 1
    MaxIterations = 2
    MaxRetries = 2
    MaxBatch = 2
    Turns = {"t1", "t2"}
    MaxEmit = 2
    MaxChatFaults = 1
    Folders = {"f1", "f2", "f3"}
    MaxDepth = 2
    Requests = {1, 2, 3}
    Window = 3
    MaxHits = 2
    LimiterTime = 8
    Hooks <- MCHooks
    Priority <- MCPriority
    Browsers = {"b1", "b2"}
    MaxLifetime = 4
    IdleTimeout = 1
    SessionTime = 5
    ApprovalRows <- MCRows
    GrantSets <- MCGrantSets
SPECIFICATION Spec
INVARIANTS
    SilenceIsEarned
    DeliveryIsRecorded
    SecondAdminNeedsFailure
    
    RequestsArePaired
    ReplayOrder
    
    OverlapsToBlame
    WindowHolds
    
    
PROPERTIES
    
    CallsEnd
    SignalledExits
CHECK_DEADLOCK FALSE
