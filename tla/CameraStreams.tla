---------------------------- MODULE CameraStreams ----------------------------
(***************************************************************************)
(* The camera views of the page (components/camera/camera.vue) under their *)
(* two parents, the camera list (camera/cameras-list.vue) and the live     *)
(* feeds of the base card (base.vue), and the map they share               *)
(* (lib/camera-state.ts).  A view is a camera under a parent; a camera     *)
(* sends at most one video stream, which its views share.                  *)
(*                                                                         *)
(* The three periodic refresh rates are one rate, "Every".  Pictures are   *)
(* left out; the timers that fetch them are not.                           *)
(***************************************************************************)
EXTENDS Naturals, FiniteSets

CONSTANT Camera

Parent == {"base", "app"}
View == Parent \X Camera
Rate == {"unset", "Live", "Manual", "Every"}

VARIABLES
    mountedViews,   \* the views on the page
    rate,           \* their refreshRate property
    openCameras,    \* the views whose switch is on
    disableRefresh, \* of the base card
    states,         \* cameraStreamStates: per view, whether it has an entry, and "on"
    listeners,      \* the views with a "track" listener
    video,          \* the views whose video element has the stream
    frameTimers,    \* how many frame timers each view has running
    current,        \* the views that hold the id of one of them
    adds, removes,  \* calls of streams.add and streams.remove per camera
    reply,          \* what became of add: "none", "waiting", "failed", "added", "sent"
    late            \* views mounted when the camera's track had already come

cameraVars == <<mountedViews, rate, openCameras, disableRefresh, states, listeners, video, frameTimers,
          current, adds, removes, reply, late>>

CameraTypeOK ==
    /\ mountedViews \subseteq View
    /\ rate \in [View -> Rate]
    /\ openCameras \subseteq View
    /\ disableRefresh \in BOOLEAN
    /\ states \in [View -> [live : BOOLEAN, on : BOOLEAN]]
    /\ listeners \subseteq View
    /\ video \subseteq View
    /\ frameTimers \in [View -> Nat]
    /\ current \subseteq View
    /\ adds \in [Camera -> Nat]
    /\ removes \in [Camera -> Nat]
    /\ reply \in [Camera -> {"none", "waiting", "failed", "added", "sent"}]
    /\ late \subseteq View

CameraInit ==
    /\ mountedViews = {}
    /\ rate = [v \in View |-> IF v[1] = "base" THEN "Live" ELSE "unset"]
    /\ openCameras = {}
    /\ disableRefresh = TRUE
    /\ states = [v \in View |-> [live |-> FALSE, on |-> FALSE]]
    /\ listeners = {}
    /\ video = {}
    /\ frameTimers = [v \in View |-> 0]
    /\ current = {}
    /\ adds = [c \in Camera |-> 0]
    /\ removes = [c \in Camera |-> 0]
    /\ reply = [c \in Camera |-> "none"]
    /\ late = {}

-----------------------------------------------------------------------------
(* One camera view. *)

\* clearFrameInterval: the timer whose id is held, if it still runs.
ClearFrameInterval(v) == IF v \in current THEN frameTimers[v] - 1 ELSE frameTimers[v]

\* Mutant: the timer that runs is not cleared.
ViewFrameUncleared(V, r) ==
    /\ frameTimers' = [v \in View |-> frameTimers[v] + (IF v \in V /\ r[v] = "Every" THEN 1 ELSE 0)]
    /\ current' = (current \ V) \union {v \in V : r[v] = "Every"}

\* viewCameraFrame for the views V: clear, and start a timer for a period.
ViewCameraFrame(V, r) ==
    /\ frameTimers' = [v \in View |-> IF v \notin V THEN frameTimers[v]
                                      ELSE ClearFrameInterval(v) + (IF r[v] = "Every" THEN 1 ELSE 0)]
    /\ current' = (current \ V) \union {v \in V : r[v] = "Every"}

\* Mutant: counts the views of all cameras.
AllCamerasOn(st, c) == Cardinality({v \in View : st[v].on})

\* manageStreamStates: how many views of camera c are on.
CamerasOn(st, c) == Cardinality({p \in Parent : st[<<p, c>>].on})

\* Mutant: a view listens only when it goes live itself.
ViewCameraListensLive(V, r) ==
    LET goLive == {v \in V : r[v] = "Live" /\ ~states[v].live}
        first == {c \in Camera : \E v \in goLive : v[2] = c /\ ~\E p \in Parent : states[<<p, c>>].on}
    IN
    /\ listeners' = listeners \union goLive
    /\ states' = [v \in View |-> IF v \in goLive THEN [live |-> TRUE, on |-> TRUE] ELSE states[v]]
    /\ adds' = [c \in Camera |-> IF c \in first THEN adds[c] + 1 ELSE adds[c]]
    /\ reply' = [c \in Camera |-> IF c \in first THEN "waiting" ELSE reply[c]]
    /\ UNCHANGED removes

\* viewCamera(isOn) for the views V, isOn being "the rate is Live".  All of them
\* listen; those that go live for the first time are entered in the shared map,
\* and the count then decides who calls the robot.
ViewCamera(V, r) ==
    LET goLive == {v \in V : r[v] = "Live" /\ ~states[v].live}
        st == [v \in View |-> IF v \in goLive THEN [live |-> TRUE, on |-> r[v] = "Live"] ELSE states[v]]
        calls(c, n) == IF CamerasOn(st, c) = n THEN Cardinality({v \in goLive : v[2] = c}) ELSE 0
    IN
    /\ listeners' = listeners \union V
    /\ states' = st
    /\ adds' = [c \in Camera |-> adds[c] + calls(c, 1)]
    /\ removes' = [c \in Camera |-> removes[c] + calls(c, 0)]
    /\ reply' = [c \in Camera |-> IF calls(c, 1) > 0 THEN "waiting" ELSE reply[c]]

\* selectCameraView for the views V, which now have the rates r.
SelectCameraView(V, r) ==
    /\ ViewCamera(V, r)
    /\ ViewCameraFrame(V, r)

\* refreshCamera for the views V: what viewCameraFrame starts is cleared again.
RefreshCamera(V) ==
    /\ frameTimers' = [v \in View |-> IF v \in V THEN ClearFrameInterval(v) ELSE frameTimers[v]]
    /\ current' = current \ V

\* onMounted and onUnmounted.
MountView(v) ==
    /\ v \notin mountedViews
    /\ mountedViews' = mountedViews \union {v}
    /\ SelectCameraView({v}, rate)
    /\ late' = IF reply[v[2]] = "sent" THEN late \union {v} ELSE late
    /\ UNCHANGED <<rate, openCameras, disableRefresh, video>>

\* The listener of a view that is gone has no video element to set.
UnmountView(v) ==
    /\ v \in mountedViews
    /\ mountedViews' = mountedViews \ {v}
    /\ frameTimers' = [frameTimers EXCEPT ![v] = ClearFrameInterval(v)]
    /\ current' = current \ {v}
    /\ video' = video \ {v}
    /\ late' = late \ {v}
    /\ listeners' = listeners \ {v}
    /\ UNCHANGED <<rate, openCameras, disableRefresh, states, adds, removes, reply>>

\* The watcher on refreshRate runs for the mounted views whose rate changed.
ChangeRate(r) ==
    /\ rate' = r
    /\ SelectCameraView({v \in mountedViews : r[v] # rate[v]}, r)
    /\ UNCHANGED <<mountedViews, disableRefresh, video, late>>

-----------------------------------------------------------------------------
(* The base card's live feeds: one rate for all cameras. *)

\* handleSwitch: the refresh controls need an open camera.
HandleSwitch(c) ==
    /\ <<"base", c>> \in mountedViews
    /\ openCameras' = IF <<"base", c>> \in openCameras THEN openCameras \ {<<"base", c>>}
                      ELSE openCameras \union {<<"base", c>>}
    /\ disableRefresh' = ~\E v \in openCameras' \intersect mountedViews : v[1] = "base"
    /\ UNCHANGED <<mountedViews, rate, states, listeners, video, frameTimers, current, adds, removes, reply, late>>

SelectBaseRate(x) ==
    /\ ~disableRefresh
    /\ ChangeRate([v \in View |-> IF v[1] = "base" THEN x ELSE rate[v]])
    /\ UNCHANGED openCameras

RefreshBase ==
    /\ ~disableRefresh
    /\ \E v \in View : v[1] = "base" /\ rate[v] # "Live"
    /\ RefreshCamera({v \in mountedViews : v[1] = "base"})
    /\ UNCHANGED <<mountedViews, rate, openCameras, disableRefresh, states, listeners, video, adds,
                   removes, reply, late>>

-----------------------------------------------------------------------------
(* The camera list: a rate for each camera, one refresh trigger for all. *)

\* setupCamera: the first switch makes every camera of the list live.
SetupCamera(c) ==
    /\ <<"app", c>> \in mountedViews
    /\ openCameras' = IF <<"app", c>> \in openCameras THEN openCameras \ {<<"app", c>>}
                      ELSE openCameras \union {<<"app", c>>}
    /\ ChangeRate([v \in View |-> IF v \in mountedViews /\ v[1] = "app" /\ rate[v] = "unset"
                                    THEN "Live" ELSE rate[v]])

SelectListRate(c, x) ==
    /\ <<"app", c>> \in mountedViews \intersect openCameras
    /\ ChangeRate([rate EXCEPT ![<<"app", c>>] = x])
    /\ UNCHANGED openCameras

RefreshList(c) ==
    /\ <<"app", c>> \in mountedViews \intersect openCameras
    /\ rate[<<"app", c>>] # "Live"
    /\ RefreshCamera({v \in mountedViews : v[1] = "app"})
    /\ UNCHANGED <<mountedViews, rate, openCameras, disableRefresh, states, listeners, video, adds,
                   removes, reply, late>>

-----------------------------------------------------------------------------
(* The robot answers streams.add; then the camera's track arrives. *)

AddReply(c) ==
    /\ reply[c] = "waiting"
    /\ reply' \in {[reply EXCEPT ![c] = "added"], [reply EXCEPT ![c] = "failed"]}
    /\ UNCHANGED <<mountedViews, rate, openCameras, disableRefresh, states, listeners, video, frameTimers,
                   current, adds, removes, late>>

\* The "track" listeners ignore the streams of other cameras.
Track(c) ==
    /\ reply[c] = "added"
    /\ reply' = [reply EXCEPT ![c] = "sent"]
    /\ video' = video \union {v \in listeners : v[2] = c}
    /\ UNCHANGED <<mountedViews, rate, openCameras, disableRefresh, states, listeners, frameTimers, current,
                   adds, removes, late>>

CameraNext ==
    \/ \E v \in View : MountView(v) \/ UnmountView(v)
    \/ \E c \in Camera : HandleSwitch(c) \/ SetupCamera(c) \/ RefreshList(c) \/ AddReply(c) \/ Track(c)
    \/ \E x \in Rate \ {"unset"} : SelectBaseRate(x) \/ \E c \in Camera : SelectListRate(c, x)
    \/ RefreshBase

CameraSpec == CameraInit /\ [][CameraNext]_cameraVars

-----------------------------------------------------------------------------
\* The robot is asked for a camera's stream exactly once, by the first view that
\* goes live, whichever views follow and however long the call takes; no view
\* takes the stream from another.
StreamAskedOnce ==
    \A c \in Camera :
        /\ adds[c] = IF \E p \in Parent : states[<<p, c>>].live THEN 1 ELSE 0
        /\ removes[c] = 0

\* A frame timer belongs to a mounted view with a periodic rate, and there is
\* one at most: no change of rate, refresh or remount leaves a timer behind.
NoStrayTimer ==
    \A v \in View :
        /\ frameTimers[v] = IF v \in current THEN 1 ELSE 0
        /\ v \in current => v \in mountedViews /\ rate[v] = "Every"

\* A view that was on the page when the track came shows it, also when another
\* view asked for the stream: it listens whether or not it is live itself.
SharedTrackReachesView ==
    \A v \in mountedViews \ late : reply[v[2]] = "sent" => v \in video
=============================================================================
