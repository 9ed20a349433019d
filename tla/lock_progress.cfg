SPECIFICATION FairSpec
CONSTANTS
    Callers = {c1, c2, c3}
    Nobody = Nobody
    Ops = {"ReadActive", "ActivateProfile", "Start", "Stop", "Kill", "MonitorTick",
           "GenerateMapSnapshot"}
PROPERTY OpsFinish
