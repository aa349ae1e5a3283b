------------------------------ MODULE SlamCard ------------------------------
(***************************************************************************)
(* The SLAM card (components/slam.vue) with its 2D rendering               *)
(* (components/slam-2d-render.vue) and its 3D view.                        *)
(*                                                                         *)
(* The two views refresh each on its own interval but share one            *)
(* pointcloud.  The 2D rendering watches a counter of the answers and the  *)
(* pose; the 3D view watches the pointcloud.  The card has no onUnmounted, *)
(* so its intervals run on.                                                *)
(***************************************************************************)
EXTENDS PointCloudView

CONSTANTS MaxPoses,   \* bound on the poses fetched
          MaxAsked    \* up to how many requests of a kind in flight are counted

VARIABLES
    slamShown,
    show2d, show3d,
    selected2d, selected3d,   \* "manual" or "periodic"
    intervals2d, intervals3d, \* intervals that run
    held2d, held3d,           \* slam2dIntervalId is one that runs
    mapsAsked, posesAsked,    \* requests in flight
    pose,                     \* number of the answer it came in, 0 for undefined
    updateCount,              \* pointCloudUpdateCount
    scene2d                   \* what the 2D scene shows

refreshVars == <<selected2d, selected3d, intervals2d, intervals3d, held2d, held3d>>
slamVars == <<slamShown, show2d, show3d, refreshVars, mapsAsked, posesAsked, pose,
              updateCount, scene2d>>

Rates == {"manual", "periodic"}
Empty == [cloud |-> 0, pose |-> 0]

SlamTypeOK ==
    /\ {slamShown, show2d, show3d, held2d, held3d} \subseteq BOOLEAN
    /\ {selected2d, selected3d} \subseteq Rates
    /\ {intervals2d, intervals3d} \subseteq Nat
    /\ {mapsAsked, posesAsked} \subseteq 0..MaxAsked
    /\ updateCount \in Cloud /\ pose \in 0..MaxPoses
    /\ scene2d \in [cloud : Cloud, pose : 0..MaxPoses]

SlamInit ==
    /\ slamShown = TRUE /\ show2d = FALSE /\ show3d = FALSE
    /\ selected2d = "manual" /\ selected3d = "manual"
    /\ intervals2d = 0 /\ intervals3d = 0 /\ held2d = FALSE /\ held3d = FALSE
    /\ mapsAsked = 0 /\ posesAsked = 0
    /\ pose = 0 /\ updateCount = 0
    /\ scene2d = Empty

-----------------------------------------------------------------------------
(* Refreshing. *)

\* What clearInterval leaves of n intervals, the last one being held or not.
Cleared(n, held) == IF held THEN n - 1 ELSE n

\* Requests in flight when another is sent.
Ask(asked) == IF asked < MaxAsked THEN asked + 1 ELSE asked

\* updateSLAM2dRefreshFrequency and updateSLAM3dRefreshFrequency.
Refresh2d(time) ==
    /\ intervals2d' = Cleared(intervals2d, held2d) + (IF time = "periodic" THEN 1 ELSE 0)
    /\ held2d' = (time = "periodic")
    /\ IF time = "off" THEN UNCHANGED <<mapsAsked, posesAsked>>
       ELSE mapsAsked' = Ask(mapsAsked) /\ posesAsked' = Ask(posesAsked)
    /\ UNCHANGED <<intervals3d, held3d>>

Refresh3d(time) ==
    /\ intervals3d' = Cleared(intervals3d, held3d) + (IF time = "periodic" THEN 1 ELSE 0)
    /\ held3d' = (time = "periodic")
    /\ mapsAsked' = IF time = "off" THEN mapsAsked ELSE Ask(mapsAsked)
    /\ UNCHANGED <<intervals2d, held2d, posesAsked>>

-----------------------------------------------------------------------------
(* The 2D rendering. *)

Loaded2d == pointcloud # 0 /\ pose # 0
Rendered == slamShown /\ show2d /\ Loaded2d

\* It appears with what there is, goes with its scene, and while it is there
\* updates when the counter or the pose has changed.
Render2d ==
    scene2d' = IF ~Rendered' THEN Empty
               ELSE IF ~Rendered \/ updateCount' # updateCount \/ pose' # pose
               THEN [cloud |-> pointcloud', pose |-> pose']
               ELSE scene2d

-----------------------------------------------------------------------------
(* The card. *)

Toggle2dExpand ==
    /\ slamShown
    /\ show2d' = ~show2d
    /\ Refresh2d(IF show2d' THEN selected2d ELSE "off")
    /\ UNCHANGED <<slamShown, show3d, selected2d, selected3d, pose, updateCount, viewVars>>
    /\ Render2d

Toggle3dExpand ==
    /\ slamShown
    /\ show3d' = ~show3d
    /\ Refresh3d(IF show3d' THEN selected3d ELSE "off")
    /\ IF show3d' THEN ShowView ELSE HideView
    /\ UNCHANGED <<slamShown, show2d, selected2d, selected3d, pose, updateCount, scene2d>>

\* The refresh rates and the Refresh buttons.
Select2d(time) ==
    /\ slamShown /\ show2d
    /\ selected2d' = time
    /\ Refresh2d(time)
    /\ UNCHANGED <<slamShown, show2d, show3d, selected3d, pose, updateCount, scene2d, viewVars>>

Select3d(time) ==
    /\ slamShown /\ show3d
    /\ selected3d' = time
    /\ Refresh3d(time)
    /\ UNCHANGED <<slamShown, show2d, show3d, selected2d, pose, updateCount, scene2d, viewVars>>

\* An interval fires.
Tick2d ==
    /\ intervals2d > 0
    /\ mapsAsked' = Ask(mapsAsked) /\ posesAsked' = Ask(posesAsked)
    /\ UNCHANGED <<slamShown, show2d, show3d, refreshVars, pose, updateCount, scene2d, viewVars>>

Tick3d ==
    /\ intervals3d > 0
    /\ mapsAsked' = Ask(mapsAsked)
    /\ UNCHANGED <<slamShown, show2d, show3d, refreshVars, posesAsked, pose, updateCount, scene2d, viewVars>>

\* Mutant: the answer is not counted.
MapReplyUncounted ==
    /\ mapsAsked > 0
    /\ pointcloud < MaxClouds
    /\ mapsAsked' = mapsAsked - 1
    /\ UNCHANGED <<slamShown, show2d, show3d, refreshVars, posesAsked, pose, updateCount>>
    /\ NewCloud(pointcloud + 1)
    /\ Render2d

\* fetchSLAMMap is answered, or fails.
MapReply ==
    /\ mapsAsked > 0
    /\ updateCount < MaxClouds
    /\ mapsAsked' = mapsAsked - 1
    /\ updateCount' = updateCount + 1
    /\ UNCHANGED <<slamShown, show2d, show3d, refreshVars, posesAsked, pose>>
    /\ NewCloud(pointcloud + 1)
    /\ Render2d

MapError ==
    /\ mapsAsked > 0
    /\ mapsAsked' = mapsAsked - 1
    /\ UNCHANGED <<slamShown, show2d, show3d, refreshVars, posesAsked, pose, updateCount, scene2d, viewVars>>

\* fetchSLAMPose is answered, or fails.
PoseReply ==
    /\ posesAsked > 0
    /\ pose < MaxPoses
    /\ posesAsked' = posesAsked - 1
    /\ pose' = pose + 1
    /\ UNCHANGED <<slamShown, show2d, show3d, refreshVars, mapsAsked, updateCount, viewVars>>
    /\ Render2d

PoseError ==
    /\ posesAsked > 0
    /\ posesAsked' = posesAsked - 1
    /\ UNCHANGED <<slamShown, show2d, show3d, refreshVars, mapsAsked, pose, updateCount, scene2d, viewVars>>

\* The card goes; its views go with it, its intervals do not.
SlamUnmount ==
    /\ slamShown
    /\ slamShown' = FALSE
    /\ HideView
    /\ UNCHANGED <<show2d, show3d, refreshVars, mapsAsked, posesAsked, pose, updateCount>>
    /\ Render2d

SlamNext ==
    \/ Toggle2dExpand \/ Toggle3dExpand
    \/ \E time \in Rates : Select2d(time) \/ Select3d(time)
    \/ Tick2d \/ Tick3d
    \/ MapReply \/ MapError \/ PoseReply \/ PoseError
    \/ SlamUnmount
    \/ ViewStep /\ UNCHANGED slamVars

-----------------------------------------------------------------------------
(* Properties. *)

\* Each view has one interval while it is shown and set to refresh
\* periodically, and otherwise none, however it was switched, re-selected or
\* refreshed by hand (clearInterval precedes every setInterval).
OneIntervalPerView ==
    slamShown =>
      /\ intervals2d = IF show2d /\ selected2d = "periodic" THEN 1 ELSE 0
      /\ intervals3d = IF show3d /\ selected3d = "periodic" THEN 1 ELSE 0

\* The 2D rendering shows the newest map and the newest pose, also when the map
\* was fetched for the 3D view and when the rendering is switched off and on
\* (pointCloudUpdateCount stands in for the pointcloud in the watcher).
Scene2dIsCurrent ==
    Rendered => scene2d = [cloud |-> pointcloud, pose |-> pose]
=============================================================================
