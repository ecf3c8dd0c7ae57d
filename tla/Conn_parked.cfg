CONSTANTS
    Scripts <- GetScript
    RCap = 3
    WCap = 3
    KCap = 3
    Builds = {TRUE}
SPECIFICATION ConnFairSpec
PROPERTIES AllExecuted
