\* The documented wss broker.
CONSTANTS
    Scheme = "WSS"
    Configured = {{}}
    Named = {TRUE}
    Reported = {"ACTIVE"}
    MaxIssued = 1
SPECIFICATION Spec
INVARIANTS HandshakeNamesBroker
