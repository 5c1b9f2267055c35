CONSTANTS
    PageSize = 1
    Days = 1
    MaxMessages = 2
    MaxAttempts = 1
    MaxRejections = 2
    MaxDbErrors = 1
    Horizon = 2
SPECIFICATION FairSpec
PROPERTIES
    OnlyShownRejectionsDeleted
    KeptForRetention
    RejectionsExpire
    
