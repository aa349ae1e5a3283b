\* Three robots that differ in a gantry, a camera and the sensors service.  A page
\* that was left comes to rest, so there is no deadlock check.
SPECIFICATION FairSpec
CONSTANTS
    Resource = {"gantry", "camera", "sensors"}
    Relevant = {"gantry"}
    NeedsStatus = {"gantry"}
    Sensors = "sensors"
    Configs <- MCConfigs
    MaxEvents = 4
CHECK_DEADLOCK FALSE
INVARIANTS StreamFollowsResources
PROPERTIES  ConnectsUnattended
