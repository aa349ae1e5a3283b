--------------------------- MODULE PointCloudView ---------------------------
(***************************************************************************)
(* The 3D point cloud view (components/pcd/pcd-view.vue): what is in its   *)
(* scene, what the transform controls hold, and how a point is picked.     *)
(*                                                                         *)
(* The card around it mounts it, unmounts it and sets pointcloud.  A       *)
(* cloud is the number of the answer it came in, 0 for none; the mouse     *)
(* moves along a line; picking is by the mouse coming up where it went     *)
(* down.  Vue runs a watcher right after the change, so a new cloud and    *)
(* what the watcher does about it are one step.  The segmentation settings *)
(* are never shown (v-if="false") and are left out.                        *)
(***************************************************************************)
EXTENDS Integers

CONSTANTS
    MaxClouds,   \* bound on the point clouds fetched
    Width,       \* mouse positions are 0..Width
    MaxDrift,    \* bound on how far below 0 the vector mousedown goes
    Epsilon      \* how far the mouse may move in a click

Place == 0..Width
Far(d) == d > Epsilon \/ -d > Epsilon
Nowhere == -1

VARIABLES
    pointcloud,  \* the property the card hands down
    viewShown,
    mesh,        \* the cloud in the variable mesh
    meshes,      \* the clouds in the scene
    attached,    \* the cloud the transform controls move
    transform,   \* transformControls.enabled
    inScene,     \* of the grid and the transform controls, those in the scene
    displayGrid,
    orbit,       \* the orbit controls are enabled
    mousedown,   \* the vector mousedown
    pressed,     \* where the mouse button went down, Nowhere while it is up
    click,       \* the cloud the selected point was picked from, 0 for the origin
    moveSent     \* the destination of the last Move, likewise, -1 for no Move yet

viewVars == <<pointcloud, viewShown, mesh, meshes, attached, transform, inScene, displayGrid, orbit, mousedown,
              pressed, click, moveSent>>
cloudVars == <<mesh, meshes, attached>>
controlVars == <<transform, inScene, displayGrid>>
mouseVars == <<orbit, mousedown, pressed>>

Cloud == 0..MaxClouds

ViewTypeOK ==
    /\ {viewShown, transform, displayGrid, orbit} \subseteq BOOLEAN
    /\ {pointcloud, mesh} \subseteq Cloud /\ meshes \subseteq Cloud \ {0} /\ attached \in Cloud
    /\ inScene \subseteq {"grid", "transform"}
    /\ mousedown \in -MaxDrift..Width /\ pressed \in Place \union {Nowhere}
    /\ click \in Cloud /\ moveSent \in Cloud \union {-1}

ViewInit ==
    /\ pointcloud = 0 /\ viewShown = FALSE
    /\ mesh = 0 /\ meshes = {} /\ attached = 0
    /\ transform = FALSE /\ displayGrid = TRUE /\ inScene = {"grid"}
    /\ orbit = TRUE /\ mousedown = 0 /\ pressed = Nowhere
    /\ click = 0 /\ moveSent = -1

\* update: the old mesh leaves the scene, the new one is added and attached.
Update(cloud) ==
    /\ meshes' = (meshes \ {mesh}) \union {cloud}
    /\ mesh' = cloud
    /\ attached' = cloud

\* The card sets pointcloud, and the watcher on it runs.
NewCloud(cloud) ==
    /\ pointcloud' = cloud
    /\ IF viewShown THEN Update(cloud) ELSE UNCHANGED cloudVars
    /\ UNCHANGED <<viewShown, controlVars, mouseVars, click, moveSent>>

\* The view is set up anew, shown with the cloud the card has or not shown.
SetUpView(shown, cloud) ==
    /\ viewShown' = shown
    /\ mesh' = cloud /\ attached' = cloud
    /\ meshes' = IF cloud = 0 THEN {} ELSE {cloud}
    /\ transform' = FALSE /\ displayGrid' = TRUE /\ inScene' = {"grid"}
    /\ orbit' = TRUE /\ mousedown' = 0 /\ pressed' = Nowhere
    /\ click' = 0
    /\ UNCHANGED <<pointcloud, moveSent>>

\* onMounted; and onUnmounted, after which nothing of the view is seen again.
ShowView == SetUpView(TRUE, pointcloud)
HideView == SetUpView(FALSE, 0)

-----------------------------------------------------------------------------
(* The mouse. *)

\* Mutant: with the transform controls on, no press counts as one on the cloud.
MouseDownLeftToControls(x) ==
    /\ viewShown /\ pressed = Nowhere
    /\ pressed' = x
    /\ orbit' \in {orbit, ~(transform /\ attached # 0)}
    /\ mousedown' = IF transform THEN mousedown ELSE x
    /\ UNCHANGED <<pointcloud, viewShown, cloudVars, controlVars, click, moveSent>>

\* The button goes down, on the transform controls' handles or not.  On the
\* handles a drag begins, "dragging-changed" disables the orbit controls and
\* handleCanvasMouseDown returns.
MouseDown(x) ==
    /\ viewShown /\ pressed = Nowhere
    /\ pressed' = x
    /\ \/ /\ transform /\ attached # 0
          /\ orbit' = FALSE
          /\ UNCHANGED mousedown
       \/ /\ orbit' = orbit
          /\ mousedown' = x
    /\ UNCHANGED <<pointcloud, viewShown, cloudVars, controlVars, click, moveSent>>

\* It comes up: a drag ends, then handleCanvasMouseUp.  mousedown.sub changes
\* mousedown itself.  Without a cloud there is nothing to intersect.
MouseUp(x) ==
    /\ viewShown /\ pressed # Nowhere
    /\ pressed' = Nowhere
    /\ orbit' = TRUE
    /\ mousedown - x >= -MaxDrift
    /\ mousedown' = mousedown - x
    /\ IF Far(mousedown') \/ mesh = 0
         THEN UNCHANGED click
         ELSE click' \in {mesh, click}
    /\ UNCHANGED <<pointcloud, viewShown, cloudVars, controlVars, moveSent>>

\* The buttons and switches below the canvas.
Idle == viewShown /\ pressed = Nowhere

HandleCenter ==
    /\ Idle
    /\ click' = 0
    /\ UNCHANGED <<pointcloud, viewShown, cloudVars, controlVars, mouseVars, moveSent>>

\* handleMove, where the robot has a gripper and a motion service.
HandleMove ==
    /\ Idle
    /\ moveSent' = click
    /\ UNCHANGED <<pointcloud, viewShown, cloudVars, controlVars, mouseVars, click>>

HandleToggleGrid ==
    /\ Idle
    /\ inScene' = IF displayGrid THEN inScene \ {"grid"} ELSE inScene \union {"grid"}
    /\ displayGrid' = ~displayGrid
    /\ UNCHANGED <<pointcloud, viewShown, cloudVars, transform, mouseVars, click, moveSent>>

HandleToggleTransformControls ==
    /\ Idle
    /\ transform' = ~transform
    /\ inScene' = IF transform' THEN inScene \union {"transform"} ELSE inScene \ {"transform"}
    /\ UNCHANGED <<pointcloud, viewShown, cloudVars, displayGrid, mouseVars, click, moveSent>>

ViewStep ==
    \/ \E x \in Place : MouseDown(x) \/ MouseUp(x)
    \/ HandleCenter \/ HandleMove \/ HandleToggleGrid \/ HandleToggleTransformControls

-----------------------------------------------------------------------------
(* Properties. *)

\* The view shows one cloud, the newest the card has, and the transform controls
\* move that one: an old mesh neither stays in the scene, where picking and
\* scaling look it up by name, nor stays attached (update).
NewestCloudOnly ==
    viewShown => meshes = {pointcloud} \ {0} /\ attached = pointcloud

\* Turning the view by dragging never picks a point ("Don't fire on drag
\* events"), although mouseup leaves a difference of two positions in mousedown.
\* It says nothing of a drag of the transform controls, which can pick one.
TurningDoesNotPick ==
    [][\A x \in Place : MouseUp(x) /\ orbit /\ Far(pressed - x) => click' = click]_viewVars
=============================================================================
