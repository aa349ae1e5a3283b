\* One card at a time; MaxClouds and MaxId allow a cloud or a waypoint to be
\* replaced, MaxListed a list that three entries can be sorted into.
SPECIFICATION FairSpec
CONSTANTS
    p1 = p1
    p2 = p2
    Pos = {p1, p2}
    MaxInits = 2
    MaxId = 3
    MaxErrors = 1
    MaxClouds = 2
    Width = 2
    MaxDrift = 3
    Epsilon = 0
    MaxPoses = 2
    MaxAsked = 1
    MaxCloudsAsked = 2
    Quantity = {"orientation", "position"}
    Joint = {"j1", "j2"}
    Amount <- Steps
    Reported = {0, 1}
    Typed = {2}
    MaxSteps = 2
    Component = {"c1", "c2"}
    Token = {":", "/", "acme", "rdk", "component", "service", "arm", "input_controller",
             "WebGamepad", "r", "a"}
    Namespaces <- Spaces
    Types <- TypeNames
    Subtypes <- SubtypeNames
    Names <- ResourceNames
    Controller <- RdkController
    ComponentType = 1
    Gamepad = "WebGamepad"
    Elapsed = {0, 1, 2}
    MaxListed = 3
    Index = {0, 1}
    Control = {"A", "B"}
    Lacks <- LacksB
    NoPad = 99
    MaxPlugs = 2
    MaxTime = 3
    MaxTS = 5
    Axis = {"x", "y"}
    ServoAxis = "x"
    StepSize <- Steps
    Start <- StartAtTwo
    MaxRequests = 2
    MaxPresses = 3
INVARIANTS
    MarkersAreKnown MarkerRemovesItsOwn
    Scene2dIsCurrent
    OneRefreshChain
    JointStepsAddUp
    PatientStepsAddUp
    ReadingsAreOwn CardOrderIsStable KindReadBack  NewestFirst
    ReportedIsCurrent
PROPERTIES TurningDoesNotPick WaypointAppears  LossIsReported
CHECK_DEADLOCK FALSE
