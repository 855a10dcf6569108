\* The same, with a backend that rotates the secret once.
CONSTANTS
    Scheme = "HTTP"
    Configured = {{}}
    Named = {TRUE}
    Reported = {"UNCLAIMED", "ACTIVE"}
    MaxIssued = 2
SPECIFICATION RetrySpec
PROPERTIES EventuallyOnline
