\* A plain MQTT broker; a timeout that fits an int of three bits and one that does not.
CONSTANTS
    Scheme = "HTTP"
    Configured = {{}, {"user", "broker"}, {"secret"}, {"user", "secret", "prefix"}, {"user", "secret", "prefix", "broker"}}
    Named = {TRUE, FALSE}
    Reported = {"UNCLAIMED", "CLAIMED", "ACTIVE", "EXPIRED"}
    MaxIssued = 2
    Timeouts = {3, 5}
    CapMs = 2
    IntMax = 3
SPECIFICATION RetryWaitSpec
INVARIANTS WaitTypeOK ConnectedMeansAccepted StatusGate CoherentCredentials NoOrphanSession PollMeetsDeadline
PROPERTIES KeepsPort ReturnsOrStrands BackOnline
