\* Somebody else made the interface connect; lab_wifi_init allows for that.
CONSTANTS
    RetryMs = 2
    TimeMod = 4
    MaxTurnMs = 1
    HeartbeatEvery = 4
    TelemetryEvery = 2
    ControlEvery = 4
    TurnMod = 4
    BootLinks = {"connecting"}
SPECIFICATION FairSpec
PROPERTIES RedMeansNoWifi
