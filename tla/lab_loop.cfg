\* Nobody but the application manages the Wi-Fi interface.
CONSTANTS
    RetryMs = 2
    TimeMod = 4
    MaxTurnMs = 1
    HeartbeatEvery = 4
    TelemetryEvery = 2
    ControlEvery = 4
    TurnMod = 4
    BootLinks = {"down"}
SPECIFICATION FairSpec
INVARIANTS TypeOK EngineTracksFlag FlagLagsEvents PendingIsAnswered QueueStaysShort AnswersAreFresh
PROPERTIES BlueIsEarned EngineFollowsWifi WifiRetried EngineComesBack RedMeansNoWifi
