\* A timeout that fits: only the second reading of the clock can go wrong.
CONSTANTS
    Scheme = "HTTP"
    Configured = {{}, {"user", "secret", "prefix", "broker"}}
    Named = {TRUE}
    Reported = {"UNCLAIMED", "ACTIVE"}
    MaxIssued = 2
    Timeouts = {3}
    CapMs = 2
    IntMax = 3
SPECIFICATION FairWaitSpec
PROPERTIES ConnectReturns
