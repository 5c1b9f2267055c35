CONSTANTS
    Configs <- MCConfigs
    Documented = {}
CHECK_DEADLOCK FALSE
SPECIFICATION FairSpec
INVARIANTS
    ServedIsReady
    UsersMatchRoutes
    
    
PROPERTY SignalEndsIt
