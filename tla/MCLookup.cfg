SPECIFICATION Spec
CONSTANTS
    None = None
    ConsoleName <- NamesOfConsoles
    RootClass = "r"
    Parents <- SomeParents
    Instances <- SomeInstances
    CommandLists <- SomeLists
    DefaultCommands <- HelpOnly
    Requests <- SomeRequests
    Principals = {"u", "v"}
    Configs <- SomeConfigs
    MaxSubs = 2
INVARIANTS
    LookupAgrees
    ExecutesWhatItChecked
    
CHECK_DEADLOCK FALSE
