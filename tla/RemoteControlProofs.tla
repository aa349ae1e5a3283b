------------------------- MODULE RemoteControlProofs -------------------------
(***************************************************************************)
(* The status stream and the connection attempts of the page, for any      *)
(* resources and any number of drops, errors and reconfigurations; and     *)
(* cards of the page, each by itself: the point cloud views, the SLAM      *)
(* card's intervals, the movement sensor's refreshes, DoCommand and the    *)
(* arm's joints.  The bounds of the modules are arbitrary here.            *)
(***************************************************************************)
EXTENDS RemoteControl, MovementSensor, DoCommand, ArmCard, SlamCard, CameraCloud, TLAPS

-----------------------------------------------------------------------------
(* The point cloud view. *)

\* NewestCloudOnly with what update relies on: the mesh it removes is the one
\* that is in the scene.
ViewInv ==
    /\ pointcloud \in Nat
    /\ NewestCloudOnly
    /\ viewShown => mesh = pointcloud

\* The mouse and the buttons of the view leave its clouds alone.
LEMMA ViewStepKeeps ==
  ASSUME ViewInv, ViewStep
  PROVE  ViewInv' /\ UNCHANGED pointcloud
<1>1. UNCHANGED <<pointcloud, viewShown, cloudVars>>
  BY DEF ViewStep, MouseDown, MouseUp, HandleCenter, HandleMove, HandleToggleGrid,
         HandleToggleTransformControls
<1> QED
  BY <1>1, SMTT(30) DEF cloudVars, ViewInv, NewestCloudOnly

\* A new cloud replaces the one in the scene.
LEMMA NewCloudKeeps ==
  ASSUME ViewInv, NewCloud(pointcloud + 1)
  PROVE  ViewInv'
<1>1. pointcloud' = pointcloud + 1 /\ pointcloud' \in Nat /\ pointcloud' # 0 /\ viewShown' = viewShown
  BY DEF NewCloud, ViewInv
<1>2. CASE viewShown
  <2>1. /\ meshes' = (meshes \ {mesh}) \union {pointcloud'}
        /\ mesh' = pointcloud' /\ attached' = pointcloud'
    BY <1>1, <1>2 DEF NewCloud, Update
  <2>2. meshes \ {mesh} = {}
    BY <1>2 DEF ViewInv, NewestCloudOnly
  <2> QED
    BY <1>1, <2>1, <2>2 DEF ViewInv, NewestCloudOnly
<1>3. CASE ~viewShown
  BY <1>1, <1>3 DEF ViewInv, NewestCloudOnly
<1> QED
  BY <1>2, <1>3

\* A view that is set up shows the cloud there is, or is not shown.
LEMMA SetUpKeeps ==
  ASSUME ViewInv, ShowView \/ HideView
  PROVE  ViewInv' /\ UNCHANGED pointcloud
<1>1. CASE ShowView
  BY <1>1 DEF ShowView, SetUpView, ViewInv, NewestCloudOnly
<1>2. CASE HideView
  BY <1>2 DEF HideView, SetUpView, ViewInv, NewestCloudOnly
<1> QED
  BY SMTT(30), <1>1, <1>2

PanelSpec == PanelInit /\ ViewInit /\ [][PanelNext]_<<panelVars, viewVars>>

\* The camera's panel never shows but the newest cloud, for any number of clouds
\* and requests, and however it is opened and closed in between.
THEOREM PanelShowsNewest == PanelSpec => []NewestCloudOnly
<1>1. ViewInit => ViewInv
  BY DEF ViewInit, ViewInv, NewestCloudOnly
<1>2. ViewInv /\ [PanelNext]_<<panelVars, viewVars>> => ViewInv'
  <2> SUFFICES ASSUME ViewInv, [PanelNext]_<<panelVars, viewVars>> PROVE ViewInv'
    OBVIOUS
  <2>1. CASE TogglePCDExpand
    BY <2>1, SetUpKeeps DEF TogglePCDExpand
  <2>2. CASE CloudReply
    BY <2>2, NewCloudKeeps DEF CloudReply
  <2>3. CASE ViewStep
    BY SMTT(30), <2>3, ViewStepKeeps
  <2>4. CASE UNCHANGED viewVars
    BY <2>4 DEF viewVars, ViewInv, NewestCloudOnly
  <2> QED
    BY <2>1, <2>2, <2>3, <2>4 DEF PanelNext, CloudError
<1> QED
  BY <1>1, <1>2, PTL DEF PanelSpec, ViewInv

\* A drag that the orbit controls see began where mousedown says.
DragInv == pressed # Nowhere /\ orbit => mousedown = pressed

\* It holds whatever the view and its card do.
LEMMA DragKeeps ==
  ASSUME DragInv, NEW cloud,
         ViewStep \/ ShowView \/ HideView \/ NewCloud(cloud) \/ UNCHANGED viewVars
  PROVE  DragInv'
<1>1. ASSUME NEW x \in Place, MouseDown(x) PROVE DragInv'
  BY <1>1 DEF MouseDown, DragInv
<1>2. ASSUME NEW x \in Place, MouseUp(x) PROVE DragInv'
  BY <1>2 DEF MouseUp, DragInv
<1>3. CASE HandleCenter \/ HandleMove \/ HandleToggleGrid \/ HandleToggleTransformControls
  BY <1>3, Zenon DEF HandleCenter, HandleMove, HandleToggleGrid, HandleToggleTransformControls, mouseVars,
              DragInv
<1>4. CASE ShowView \/ HideView
  BY <1>4 DEF ShowView, HideView, SetUpView, DragInv
<1>5. CASE NewCloud(cloud) \/ UNCHANGED viewVars
  BY <1>5, Zenon DEF NewCloud, mouseVars, viewVars, DragInv
<1> QED
  BY <1>1, <1>2, <1>3, <1>4, <1>5 DEF ViewStep

\* So the vector that mouseup looks at is how far the mouse went.
LEMMA TurnDoesNotPick ==
  ASSUME DragInv, NEW x \in Place, MouseUp(x), orbit, Far(pressed - x)
  PROVE  click' = click
<1>1. mousedown' = pressed - x
  BY DEF MouseUp, DragInv
<1> QED
  BY <1>1 DEF MouseUp

\* In the camera's panel and on the SLAM card alike, turning the view picks no
\* point, for any size of the canvas and any tolerance of a click.
THEOREM PanelTurnDoesNotPick == PanelSpec => TurningDoesNotPick
<1>1. ViewInit => DragInv
  BY DEF ViewInit, DragInv
<1>2. ASSUME DragInv, [PanelNext]_<<panelVars, viewVars>> PROVE DragInv'
  <2>1. CASE ViewStep \/ UNCHANGED viewVars
    BY <1>2, <2>1, DragKeeps
  <2>2. CASE TogglePCDExpand
    BY <1>2, <2>2, DragKeeps DEF TogglePCDExpand
  <2>3. CASE CloudReply
    BY <1>2, <2>3, DragKeeps DEF CloudReply
  <2> QED
    BY <1>2, <2>1, <2>2, <2>3 DEF PanelNext, CloudError
<1>3. DragInv => [\A x \in Place : MouseUp(x) /\ orbit /\ Far(pressed - x) => click' = click]_viewVars
  BY TurnDoesNotPick
<1> QED
  BY <1>1, <1>2, <1>3, PTL DEF PanelSpec, TurningDoesNotPick

-----------------------------------------------------------------------------
(* The SLAM card. *)

allSlamVars == <<slamVars, viewVars>>
SlamSpec == SlamInit /\ ViewInit /\ [][SlamNext]_allSlamVars

\* The steps of the card that only send requests, take errors, or are the view's.
Quiet ==
    \/ Tick2d \/ Tick3d \/ MapError \/ PoseError
    \/ ViewStep /\ UNCHANGED slamVars
    \/ UNCHANGED allSlamVars

\* They change neither the intervals nor what is rendered.
LEMMA QuietSteps ==
  ASSUME ViewInv, Quiet
  PROVE  UNCHANGED <<slamShown, show2d, show3d, refreshVars, pose, updateCount, scene2d, pointcloud>>
<1>1. CASE Tick2d \/ Tick3d \/ MapError \/ PoseError
  BY <1>1 DEF Tick2d, Tick3d, MapError, PoseError, viewVars
<1>2. CASE ViewStep /\ UNCHANGED slamVars
  BY <1>2, ViewStepKeeps, SMTT(30) DEF slamVars
<1>3. CASE UNCHANGED allSlamVars
  BY <1>3, SMTT(30) DEF allSlamVars, slamVars, viewVars
<1> QED
  BY <1>1, <1>2, <1>3, SMTT(30) DEF Quiet

\* Every step of the SLAM card keeps the view's invariant.
LEMMA SlamStepKeepsView ==
  ASSUME ViewInv, [SlamNext]_allSlamVars
  PROVE  ViewInv'
<1>1. CASE UNCHANGED viewVars
  BY <1>1 DEF viewVars, ViewInv, NewestCloudOnly
<1>2. CASE ShowView \/ HideView
  BY <1>2, SetUpKeeps
<1>3. CASE NewCloud(pointcloud + 1)
  BY <1>3, NewCloudKeeps
<1>4. CASE ViewStep
  BY <1>4, ViewStepKeeps
<1> QED
  BY SMTT(30), <1>1, <1>2, <1>3, <1>4
     DEF SlamNext, Toggle2dExpand, Toggle3dExpand, Select2d, Select3d, Tick2d, Tick3d, MapReply,
         MapError, PoseReply, PoseError, SlamUnmount, allSlamVars

\* So the view's invariant holds throughout in the SLAM card.
LEMMA SlamViewInvariant == SlamSpec => []ViewInv
<1>1. ViewInit => ViewInv
  BY DEF ViewInit, ViewInv, NewestCloudOnly
<1>2. ViewInv /\ [SlamNext]_allSlamVars => ViewInv'
  BY SlamStepKeepsView
<1> QED
  BY <1>1, <1>2, PTL DEF SlamSpec

\* A SLAM card's 3D view never shows but the newest cloud, also when the cloud
\* was fetched for the 2D rendering.
THEOREM SlamShowsNewest == SlamSpec => []NewestCloudOnly
<1>1. ViewInv => NewestCloudOnly
  BY DEF ViewInv
<1> QED
  BY <1>1, SlamViewInvariant, PTL

\* Nor does turning the view of the SLAM card, which is refreshed under the hand.
THEOREM SlamTurnDoesNotPick == SlamSpec => TurningDoesNotPick
<1>1. ViewInit => DragInv
  BY DEF ViewInit, DragInv
<1>2. ASSUME DragInv, [SlamNext]_allSlamVars PROVE DragInv'
  <2>1. ViewStep \/ ShowView \/ HideView \/ NewCloud(pointcloud + 1) \/ UNCHANGED viewVars
    BY SMTT(30), <1>2
       DEF SlamNext, Toggle2dExpand, Toggle3dExpand, Select2d, Select3d, Tick2d, Tick3d, MapReply,
           MapError, PoseReply, PoseError, SlamUnmount, allSlamVars
  <2> QED
    BY <1>2, <2>1, DragKeeps
<1>3. DragInv => [\A x \in Place : MouseUp(x) /\ orbit /\ Far(pressed - x) => click' = click]_viewVars
  BY TurnDoesNotPick
<1> QED
  BY <1>1, <1>2, <1>3, PTL DEF SlamSpec, TurningDoesNotPick

Periodic2d == show2d /\ selected2d = "periodic"
Periodic3d == show3d /\ selected3d = "periodic"

\* OneIntervalPerView with what clearInterval relies on: the id of the interval
\* that runs is held.
IntervalInv ==
    slamShown => /\ held2d <=> Periodic2d
                 /\ intervals2d = IF Periodic2d THEN 1 ELSE 0
                 /\ held3d <=> Periodic3d
                 /\ intervals3d = IF Periodic3d THEN 1 ELSE 0

\* Each view of the SLAM card has one interval or none, as its switch and its
\* rate say, whatever is switched, selected and answered.
THEOREM IntervalsAreOne == SlamSpec => []OneIntervalPerView
<1>1. SlamInit /\ ViewInit => IntervalInv
  BY SMTT(30) DEF SlamInit, IntervalInv, Periodic2d, Periodic3d
<1>2. IntervalInv /\ ViewInv /\ [SlamNext]_allSlamVars => IntervalInv'
  <2> SUFFICES ASSUME IntervalInv, ViewInv, [SlamNext]_allSlamVars PROVE IntervalInv'
    BY SMTT(30)
  <2> USE DEF IntervalInv, Periodic2d, Periodic3d
  <2>0. ASSUME UNCHANGED <<slamShown, show2d, show3d, refreshVars>> PROVE IntervalInv'
    BY <2>0, SMTT(30) DEF refreshVars
  <2>1. ASSUME slamShown, NEW time, Refresh2d(time),
               time = "periodic" <=> Periodic2d',
               UNCHANGED <<show3d, selected3d>>
        PROVE  IntervalInv'
    <3>1. Cleared(intervals2d, held2d) = 0
      BY <2>1, SMTT(30) DEF Cleared
    <3>2. intervals2d' = IF time = "periodic" THEN 1 ELSE 0
      BY <2>1, <3>1, SMTT(30) DEF Refresh2d
    <3>3. /\ held2d' <=> time = "periodic"
          /\ UNCHANGED <<intervals3d, held3d>>
      BY <2>1, Zenon DEF Refresh2d
    <3> QED
      BY <2>1, <3>2, <3>3
  <2>2. ASSUME slamShown, NEW time, Refresh3d(time),
               time = "periodic" <=> Periodic3d',
               UNCHANGED <<show2d, selected2d>>
        PROVE  IntervalInv'
    <3>1. Cleared(intervals3d, held3d) = 0
      BY <2>2 DEF Cleared
    <3>2. intervals3d' = IF time = "periodic" THEN 1 ELSE 0
      BY <2>2, <3>1 DEF Refresh3d
    <3>3. /\ held3d' <=> time = "periodic"
          /\ UNCHANGED <<intervals2d, held2d>>
      BY <2>2, ZenonT(30) DEF Refresh3d
    <3> QED
      BY <2>2, <3>2, <3>3
  <2>3. CASE Toggle2dExpand
    BY <2>1, <2>3 DEF Toggle2dExpand
  <2>4. CASE Toggle3dExpand
    BY <2>2, <2>4 DEF Toggle3dExpand
  <2>5. ASSUME NEW time \in Rates, Select2d(time) PROVE IntervalInv'
    BY <2>1, <2>5, SMTT(30) DEF Select2d
  <2>6. ASSUME NEW time \in Rates, Select3d(time) PROVE IntervalInv'
    BY <2>2, <2>6, SMTT(30) DEF Select3d
  <2>7. CASE MapReply \/ PoseReply
    BY <2>0, <2>7, ZenonT(30) DEF MapReply, PoseReply
  <2>8. CASE SlamUnmount
    BY <2>8 DEF SlamUnmount
  <2>9. CASE Quiet
    BY <2>0, <2>9, QuietSteps
  <2> QED
    BY <2>3, <2>4, <2>5, <2>6, <2>7, <2>8, <2>9 DEF SlamNext, Quiet
<1>3. IntervalInv => OneIntervalPerView
  BY DEF IntervalInv, Periodic2d, Periodic3d, OneIntervalPerView
<1> QED
  BY <1>1, <1>2, <1>3, SlamViewInvariant, PTL DEF SlamSpec

\* Scene2dIsCurrent with the types of the counters its watchers compare.
SceneInv == updateCount \in Nat /\ pose \in Nat /\ Scene2dIsCurrent

\* The 2D rendering shows the newest map and pose, for any number of them,
\* although it watches a counter in place of the map.
THEOREM SceneIsCurrent == SlamSpec => []Scene2dIsCurrent
<1>1. SlamInit /\ ViewInit => SceneInv
  BY DEF SlamInit, SceneInv, Scene2dIsCurrent, Rendered
<1>2. SceneInv /\ ViewInv /\ [SlamNext]_allSlamVars => SceneInv'
  <2> SUFFICES ASSUME SceneInv, ViewInv, [SlamNext]_allSlamVars PROVE SceneInv'
    OBVIOUS
  <2> USE DEF SceneInv, Scene2dIsCurrent, Rendered, Loaded2d
  <2>0. ASSUME UNCHANGED <<slamShown, show2d, pose, updateCount, scene2d, pointcloud>> PROVE SceneInv'
    BY SMTT(30), <2>0
  <2>1. CASE Toggle2dExpand
    BY <2>1, SMTT(30) DEF Toggle2dExpand, Render2d, viewVars
  <2>2. CASE Toggle3dExpand
    BY <2>0, <2>2, SetUpKeeps, SMTT(30) DEF Toggle3dExpand
  <2>3. ASSUME NEW time \in Rates, Select2d(time) \/ Select3d(time) PROVE SceneInv'
    BY <2>0, <2>3, SMTT(30) DEF Select2d, Select3d, viewVars
  <2>4. CASE MapReply
    BY <2>4, SMTT(30) DEF MapReply, Render2d
  <2>5. CASE PoseReply
    BY <2>5, SMTT(30) DEF PoseReply, Render2d, viewVars
  <2>6. CASE SlamUnmount
    BY <2>6, SMTT(30) DEF SlamUnmount, Render2d
  <2>7. CASE Quiet
    BY <2>0, <2>7, QuietSteps
  <2> QED
    BY <2>1, <2>2, <2>3, <2>4, <2>5, <2>6, <2>7 DEF SlamNext, Quiet
<1>3. SceneInv => Scene2dIsCurrent
  BY DEF SceneInv
<1> QED
  BY <1>1, <1>2, <1>3, SlamViewInvariant, PTL DEF SlamSpec

-----------------------------------------------------------------------------
(* The movement sensor. *)

SensorSpec == SensorInit /\ [][SensorNext]_sensorVars

\* OneRefreshChain with what onUnmounted relies on: the timer whose id it holds
\* is the only one.
RefreshInv ==
    /\ timers \in Nat /\ refreshing \in Nat
    /\ OneRefreshChain
    /\ timerHeld => timers = 1

\* The movement sensor card has one chain of refreshes, whatever the sensor
\* supports and however its answers are ordered: each path through refresh but
\* the last error sets one timer.
THEOREM RefreshesAreOne == SensorSpec => []OneRefreshChain
<1>1. SensorInit => RefreshInv
  BY DEF SensorInit, RefreshInv, OneRefreshChain
<1>2. RefreshInv /\ [SensorNext]_sensorVars => RefreshInv'
  <2> SUFFICES ASSUME RefreshInv, [SensorNext]_sensorVars PROVE RefreshInv'
    OBVIOUS
  <2> USE DEF RefreshInv, OneRefreshChain, Arm
  <2>1. CASE Refresh
    BY <2>1 DEF Refresh
  <2>2. ASSUME NEW s, Properties(s) PROVE RefreshInv'
    BY <2>2 DEF Properties
  <2>3. CASE PropertiesClosed
    BY <2>3 DEF PropertiesClosed
  <2>4. CASE PropertiesError
    BY <2>4 DEF PropertiesError
  <2>5. ASSUME NEW q, Value(q) PROVE RefreshInv'
    BY <2>5 DEF Value, timerVars
  <2>6. CASE SensorUnmount
    BY <2>6 DEF SensorUnmount
  <2>7. CASE UNCHANGED sensorVars
    BY <2>7 DEF sensorVars
  <2> QED
    BY <2>1, <2>2, <2>3, <2>4, <2>5, <2>6, <2>7 DEF SensorNext
<1> QED
  BY <1>1, <1>2, PTL DEF SensorSpec, RefreshInv

-----------------------------------------------------------------------------
(* DoCommand. *)

DoSpec == DoInit /\ [][DoNext]_doVars

\* The DoCommand card runs exactly the one command it says it runs, for any
\* components: the flag, the disabled select and the call agree on every path.
THEOREM OneCommandRuns == DoSpec => []ExecutingIsInFlight
<1>1. DoInit => ExecutingIsInFlight
  BY DEF DoInit, ExecutingIsInFlight
<1>2. ExecutingIsInFlight /\ [DoNext]_doVars => ExecutingIsInFlight'
  <2> SUFFICES ASSUME ExecutingIsInFlight, [DoNext]_doVars PROVE ExecutingIsInFlight'
    OBVIOUS
  <2> USE DEF ExecutingIsInFlight
  <2>1. ASSUME NEW c, Select(c) PROVE ExecutingIsInFlight'
    BY <2>1 DEF Select
  <2>2. ASSUME NEW c, NEW ok, DoReply(c, ok) PROVE ExecutingIsInFlight'
    BY <2>2 DEF DoReply
  <2>3. ASSUME NEW text, Edit(text) PROVE ExecutingIsInFlight'
    BY <2>3 DEF Edit
  <2>4. CASE Do
    BY <2>4 DEF Do, DoEnabled
  <2>5. CASE UNCHANGED doVars
    BY <2>5 DEF doVars
  <2> QED
    BY <2>1, <2>2, <2>3, <2>4, <2>5, Zenon DEF DoNext
<1> QED
  BY <1>1, <1>2, PTL DEF DoSpec

-----------------------------------------------------------------------------
(* The arm's joints. *)

ArmSpec == ArmInit /\ [][ArmNext]_armVars

\* JointStepsAddUp with the types it needs.
JointInv == ArmTypeOK /\ JointStepsAddUp

\* No step of a joint is lost between two statuses, for any joints, steps and
\* angles: each command starts from the list the one before has changed.
THEOREM JointStepsKept == ArmSpec => []JointStepsAddUp
<1> USE ArmConstantsOK
<1>1. ArmInit => JointInv
  BY DEF ArmInit, JointInv, ArmTypeOK, JointStepsAddUp, JointValue, Num
<1>2. JointInv /\ [ArmNext]_armVars => JointInv'
  <2> SUFFICES ASSUME JointInv, [ArmNext]_armVars PROVE JointInv'
    OBVIOUS
  <2> USE DEF JointInv, ArmTypeOK, JointStepsAddUp, JointValue
  <2>1. ASSUME NEW angles \in [Joint -> Reported], Report(angles) PROVE JointInv'
    <3>1. \A j \in Joint : angles[j] \in Int
      BY Zenon
    <3>2. angles \in [Joint -> Int]
      BY <3>1
    <3>3. ArmTypeOK'
      BY <2>1, <3>1, <3>2 DEF Report, Num
    <3>4. JointStepsAddUp'
      BY <2>1, <3>1 DEF Report, Num
    <3> QED
      BY <3>3, <3>4
  <2>2. CASE ArmHome
    BY <2>2 DEF ArmHome, Num
  <2>3. ASSUME NEW j \in Joint, NEW a \in Amount, ArmJointInc(j, a) PROVE JointInv'
    <3>1. /\ Plus(jointValues[j], a) \in JointValue
          /\ Plus(jointValues[j], a).kind = "num" =>
               jointValues[j].kind = "num" /\ Plus(jointValues[j], a).n = jointValues[j].n + a
      BY <2>3 DEF Plus, Num, Text, NotNum
    <3>2. /\ jointValues' = [jointValues EXCEPT ![j] = Plus(jointValues[j], a)]
          /\ steps' = [steps EXCEPT ![j] = steps[j] + a]
          /\ UNCHANGED <<shown, toggle, pending, base>>
      BY <2>3 DEF ArmJointInc
    <3>3. ArmTypeOK'
      BY <3>1, <3>2
    <3>4. ASSUME NEW i \in Joint, jointValues'[i].kind = "num"
          PROVE  jointValues'[i].n = base'[i] + steps'[i]
      <4>1. CASE i = j
        BY <3>1, <3>2, <3>4, <4>1
      <4>2. CASE i # j
        BY <3>2, <3>4, <4>2
      <4> QED
        BY <4>1, <4>2
    <3> QED
      BY <3>3, <3>4
  <2>4. CASE ArmModifyAll
    BY <2>4, Zenon DEF ArmModifyAll, Num
  <2>5. CASE ArmModifyAllCancel
    BY <2>5 DEF ArmModifyAllCancel
  <2>6. CASE ArmModifyAllDoJoint
    BY <2>6 DEF ArmModifyAllDoJoint
  <2>7. CASE ArmModifyAllDoEndPosition
    BY <2>7 DEF ArmModifyAllDoEndPosition
  <2>8. CASE FormReply
    BY <2>8 DEF FormReply
  <2>9. ASSUME NEW j \in Joint, NEW n \in Typed, TypeIn(j, n) PROVE JointInv'
    BY <2>9 DEF TypeIn, Text
  <2>10. CASE UNCHANGED armVars
    BY <2>10 DEF armVars
  <2> QED
    BY <2>1, <2>2, <2>3, <2>4, <2>5, <2>6, <2>7, <2>8, <2>9, <2>10, Zenon DEF ArmNext
<1> QED
  BY <1>1, <1>2, PTL DEF ArmSpec, JointInv

-----------------------------------------------------------------------------
(* The status stream. *)

\* A round that settles keeps track of the stream: it is left alone or cancelled.
LEMMA SettleKeepsTrack ==
  ASSUME NEW st, NoStrayStream, StreamFollowsResources, UNCHANGED resources, Settle(st)
  PROVE  NoStrayStream' /\ StreamFollowsResources'
<1>1. CASE UNCHANGED stream
  BY <1>1 DEF stream, NoStrayStream, StreamFollowsResources
<1>2. CASE CancelStream
  BY <1>2 DEF CancelStream, NoStrayStream, StreamFollowsResources
<1> QED
  BY <1>1, <1>2 DEF Settle

\* So does a round that goes on.
LEMMA AfterOpsKeepsTrack ==
  ASSUME NEW st, NoStrayStream, StreamFollowsResources, UNCHANGED resources, AfterOps(st)
  PROVE  NoStrayStream' /\ StreamFollowsResources'
<1>1. CASE Settle(st)
  BY <1>1, SettleKeepsTrack
<1>2. CASE Settle(st \union {"sessions"})
  BY <1>2, SettleKeepsTrack
<1>3. CASE UNCHANGED stream
  BY <1>3 DEF stream, NoStrayStream, StreamFollowsResources
<1> QED
  BY <1>1, <1>2, <1>3 DEF AfterOps

\* And so does a round whose metadata call failed.
LEMMA AfterMetadataKeepsTrack ==
  ASSUME NEW st, NoStrayStream, StreamFollowsResources, UNCHANGED resources, AfterMetadata(st)
  PROVE  NoStrayStream' /\ StreamFollowsResources'
<1>1. CASE AfterOps(st)
  BY <1>1, AfterOpsKeepsTrack
<1>2. CASE UNCHANGED stream
  BY <1>2 DEF stream, NoStrayStream, StreamFollowsResources
<1> QED
  BY <1>1, <1>2 DEF AfterMetadata

\* The page never loses track of a status stream, and the stream it has was
\* opened when the relevant resources were those it shows: one is cancelled before another
\* is opened, and a metadata answer that changes a relevant resource reopens it.
THEOREM StreamIsTracked == Spec => [](NoStrayStream /\ StreamFollowsResources)
<1> DEFINE I == NoStrayStream /\ StreamFollowsResources
<1>1. Init => I
  BY DEF Init, NoStrayStream, StreamFollowsResources
<1>2. I /\ [Next]_vars => I'
  <2> SUFFICES ASSUME NoStrayStream, StreamFollowsResources, [Next]_vars
               PROVE  NoStrayStream' /\ StreamFollowsResources'
    OBVIOUS
  <2>0. ASSUME UNCHANGED <<stream, resources>>
        PROVE  NoStrayStream' /\ StreamFollowsResources'
    BY <2>0 DEF stream, NoStrayStream, StreamFollowsResources
  <2>1. CASE MetadataOk
    <3> DEFINE differences == (resources \ robot) \union (robot \ resources)
    <3>1. CASE RestartStatusStream(robot)
      <4>1. open' = (IF statusStream THEN open - 1 ELSE open) + 1 /\ statusStream' = TRUE
            /\ openedWith' = robot \intersect Relevant
        BY <3>1 DEF RestartStatusStream
      <4>2. resources' = robot
        BY <2>1 DEF MetadataOk
      <4>3. open' = 1
        BY <4>1 DEF NoStrayStream
      <4> QED
        BY <4>1, <4>2, <4>3 DEF NoStrayStream, StreamFollowsResources
    <3>2. CASE differences \intersect Relevant = {} /\ UNCHANGED stream
      <4>1. resources' = robot
        BY <2>1 DEF MetadataOk
      <4>2. resources \intersect Relevant = robot \intersect Relevant
        BY <3>2
      <4> QED
        BY <3>2, <4>1, <4>2 DEF stream, NoStrayStream, StreamFollowsResources
    <3> QED
      BY <2>1, <3>1, <3>2 DEF MetadataOk
  <2>2. ASSUME NEW o, MetadataFails(o)
        PROVE  NoStrayStream' /\ StreamFollowsResources'
    BY <2>2, AfterMetadataKeepsTrack DEF MetadataFails
  <2>3. ASSUME NEW o, OpsReply(o)
        PROVE  NoStrayStream' /\ StreamFollowsResources'
    BY <2>3, AfterOpsKeepsTrack DEF OpsReply
  <2>4. ASSUME NEW o, SessionsReply(o)
        PROVE  NoStrayStream' /\ StreamFollowsResources'
    BY <2>4, SettleKeepsTrack DEF SessionsReply
  <2>5. CASE StreamEnds
    <3>1. statusStream' = FALSE /\ open' = open - 1 /\ open > 0
      BY <2>5 DEF StreamEnds
    <3>2. open' = 0
      BY <3>1 DEF NoStrayStream
    <3> QED
      BY <3>1, <3>2 DEF NoStrayStream, StreamFollowsResources
  <2>6. CASE WakeUp \/ ConnectReply \/ \E o \in {"ok", "closed", "other"} : ReconnectOpsReply(o)
    BY <2>0, <2>6 DEF WakeUp, ConnectReply, ReconnectOpsReply
  <2>7. CASE Dial \/ DoLogin
    BY <2>0, <2>7 DEF Dial, DialOk, DialFails, RetryConnect, DoLogin
  <2>8. CASE StreamData \/ Unmount \/ Environment \/ \E o \in {"ok", "closed", "other"} : SensorsReply(o)
    BY <2>0, <2>8 DEF StreamData, Unmount, Environment, SensorsReply
  <2>9. CASE UNCHANGED vars
    BY <2>0, <2>9 DEF vars, stream
  <2> QED
    BY <2>1, <2>2, <2>3, <2>4, <2>5, <2>6, <2>7, <2>8, <2>9 DEF Next, Loop
<1> QED
  BY <1>1, <1>2, PTL DEF Spec

\* The second half by itself: whatever round of updates, failed call or end of
\* the stream comes between, the stream the page has open was opened for the
\* relevant resources it now shows.
THEOREM StreamFollowsResourcesHolds == Spec => []StreamFollowsResources
  BY StreamIsTracked, PTL

-----------------------------------------------------------------------------
(* The connection attempts. *)

\* What OneDial rests on: with a login form nothing is retried and the form is
\* disabled while an attempt is under way.
DialInv ==
    /\ dials \in Nat
    /\ OneDial
    /\ auth => ~retry
    /\ auth /\ dials > 0 => disableAuthElements

\* At most one connection attempt is under way or waiting for its timer, and
\* none once the page is connected, whether attempts start from the login form
\* or from the retries of initConnect.
THEOREM DialsAreOne == Spec => []OneDial
<1>1. Init => DialInv
  BY DEF Init, DialInv, OneDial
<1>2. DialInv /\ [Next]_vars => DialInv'
  <2> SUFFICES ASSUME DialInv, [Next]_vars PROVE DialInv'
    OBVIOUS
  <2> USE DEF DialInv, OneDial
  <2>0. ASSUME UNCHANGED <<config, login>> PROVE DialInv'
    <3>1. auth' = auth /\ dials' = dials /\ retry' = retry /\ connectedOnce' = connectedOnce
          /\ disableAuthElements' = disableAuthElements
      BY <2>0 DEF config, login
    <3> QED
      BY <3>1, Zenon
  <2>1. CASE DoLogin
    <3>1. auth /\ ~connectedOnce /\ dials = 0 /\ ~retry
      BY <2>1 DEF DoLogin, LoginEnabled
    <3>2. dials' = 1 /\ disableAuthElements' = TRUE /\ UNCHANGED <<auth, retry, connectedOnce>>
      BY <2>1, <3>1 DEF DoLogin, config
    <3> QED
      BY <3>1, <3>2
  <2>2. CASE RetryConnect
    <3>1. retry /\ dials = 0 /\ ~connectedOnce /\ ~auth
      BY <2>2 DEF RetryConnect
    <3>2. dials' = 1 /\ retry' = FALSE /\ UNCHANGED <<auth, connectedOnce>>
      BY <2>2, <3>1 DEF RetryConnect, config
    <3> QED
      BY <3>1, <3>2
  <2>3. CASE DialOk
    <3>1. dials = 1 /\ ~retry
      BY <2>3 DEF DialOk
    <3>2. dials' = 0 /\ auth' = auth /\ retry' = retry
      BY <2>3, <3>1 DEF DialOk, config
    <3> QED
      BY <3>1, <3>2
  <2>4. CASE DialFails
    <3>1. dials = 1 /\ ~retry /\ ~connectedOnce
      BY <2>4 DEF DialFails
    <3>2. dials' = 0 /\ UNCHANGED <<auth, connectedOnce>>
      BY <2>4, <3>1 DEF DialFails, config
    <3>3. CASE auth
      <4>1. retry' = retry
        BY <2>4, <3>3 DEF DialFails
      <4> QED
        BY <3>1, <3>2, <4>1
    <3>4. CASE ~auth
      <4>1. retry' = TRUE
        BY <2>4, <3>4 DEF DialFails
      <4> QED
        BY <3>1, <3>2, <3>4, <4>1
    <3> QED
      BY <3>3, <3>4
  <2>5. CASE Loop
    BY <2>0, <2>5, ZenonT(30) DEF Loop, WakeUp, MetadataOk, MetadataFails, OpsReply, ReconnectOpsReply,
                      SessionsReply, ConnectReply
  <2>6. CASE StreamData \/ StreamEnds \/ Unmount \/ Environment
             \/ \E o \in {"ok", "closed", "other"} : SensorsReply(o)
    BY <2>0, <2>6, ZenonT(30) DEF StreamData, StreamEnds, Unmount, Environment, SensorsReply
  <2>7. CASE UNCHANGED vars
    BY <2>0, <2>7 DEF vars, config, login
  <2> QED
    BY <2>1, <2>2, <2>3, <2>4, <2>5, <2>6, <2>7 DEF Next, Dial
<1> QED
  BY <1>1, <1>2, PTL DEF Spec, DialInv

-----------------------------------------------------------------------------
(* Losing the robot. *)

\* A round that settles shows the banner only with a reset stream.
LEMMA SettleResets ==
  ASSUME NEW st, Settle(st)
  PROVE  LostMeansReset'
<1>1. CASE IsConnected(st)
  BY <1>1 DEF Settle, LostMeansReset
<1>2. CASE ~IsConnected(st)
  BY <1>2 DEF Settle, CancelStream, LostMeansReset
<1> QED
  BY <1>1, <1>2

\* A round that goes on to the sessions is not at its end; one that does not settles.
LEMMA AfterOpsResets ==
  ASSUME NEW st, AfterOps(st)
  PROVE  LostMeansReset'
<1>1. CASE pc' = "sessions"
  BY <1>1 DEF LostMeansReset
<1> QED
  BY <1>1, SettleResets DEF AfterOps

\* The same after a metadata call that failed.
LEMMA AfterMetadataResets ==
  ASSUME NEW st, AfterMetadata(st)
  PROVE  LostMeansReset'
<1>1. CASE pc' = "ops"
  BY <1>1 DEF LostMeansReset
<1> QED
  BY <1>1, AfterOpsResets DEF AfterMetadata

\* While the page says that the robot is lost and sleeps or reconnects, it has no
\* stream and has forgotten that it had resources, so that the next metadata
\* answer opens a new stream: every path to the banner resets both.
THEOREM BannerMeansReset == Spec => []LostMeansReset
<1>1. Init => LostMeansReset
  BY DEF Init, LostMeansReset
<1>2. LostMeansReset /\ [Next]_vars => LostMeansReset'
  <2> SUFFICES ASSUME LostMeansReset, [Next]_vars PROVE LostMeansReset'
    OBVIOUS
  <2>0. ASSUME UNCHANGED <<lost, statusStream, resourcesOnce>>,
               pc' \in {"sleep", "connect", "reops"} => pc \in {"sleep", "connect", "reops"}
        PROVE  LostMeansReset'
    BY <2>0 DEF LostMeansReset
  <2>1. CASE WakeUp \/ DialOk
    BY <2>0, <2>1 DEF WakeUp, DialOk, AskMetadata, stream
  <2>2. CASE MetadataOk
    BY <2>2 DEF MetadataOk, LostMeansReset
  <2>3. ASSUME NEW o, MetadataFails(o) PROVE LostMeansReset'
    BY <2>3, AfterMetadataResets DEF MetadataFails
  <2>4. ASSUME NEW o, OpsReply(o) PROVE LostMeansReset'
    BY <2>4, AfterOpsResets DEF OpsReply
  <2>5. ASSUME NEW o, SessionsReply(o) PROVE LostMeansReset'
    BY <2>5, SettleResets DEF SessionsReply
  <2>6. CASE ConnectReply \/ \E o \in {"ok", "closed", "other"} : ReconnectOpsReply(o)
    BY <2>0, <2>6 DEF ConnectReply, ReconnectOpsReply, stream
  <2>7. CASE DialFails \/ RetryConnect \/ DoLogin
    BY <2>0, <2>7 DEF DialFails, RetryConnect, DoLogin, stream
  <2>8. CASE StreamEnds
    BY <2>8 DEF StreamEnds, LostMeansReset
  <2>9. CASE StreamData \/ Unmount \/ Environment \/ \E o \in {"ok", "closed", "other"} : SensorsReply(o)
    BY <2>0, <2>9, ZenonT(30) DEF StreamData, Unmount, Environment, SensorsReply, stream
  <2>10. CASE UNCHANGED vars
    BY <2>0, <2>10 DEF vars
  <2> QED
    BY <2>1, <2>2, <2>3, <2>4, <2>5, <2>6, <2>7, <2>8, <2>9, <2>10 DEF Next, Loop, Dial
<1> QED
  BY <1>1, <1>2, PTL DEF Spec
=============================================================================
