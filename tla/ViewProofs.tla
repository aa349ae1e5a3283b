----------------------------- MODULE ViewProofs -----------------------------
(***************************************************************************)
(* What the page shows of the robot's surroundings: the markers of the     *)
(* navigation card's map, for any waypoints and any number of maps, and    *)
(* the streams of the camera views, for any cameras.                       *)
(***************************************************************************)
EXTENDS Navigation, CameraStreams, FiniteSetTheorems, WellFoundedInduction, TLAPS

-----------------------------------------------------------------------------
(* Navigation. *)

NavSpec == NavInit /\ [][NavNext]_navVars

\* The two invariants with what they rest on: the robot gives an id to one
\* waypoint only, in order, and a marker's id is one it has given.
WaypointInv ==
    /\ waypoints \subseteq [id : 1..MaxId, pos : Pos]
    /\ lastId \in 0..MaxId
    /\ \A w \in waypoints : w.id <= lastId
    /\ \A w, x \in waypoints : w.id = x.id => w = x
MarkerInv ==
    /\ DOMAIN known = Inits /\ DOMAIN visible = Inits
    /\ \A i \in Inits : DOMAIN known[i] = Pos
    /\ \A i \in Inits, p \in Pos :
          /\ known[i][p].id \in 0..lastId
          /\ known[i][p] # NoMarker => known[i][p].id # 0
NavInv == WaypointInv /\ MarkerInv /\ MarkersAreKnown /\ MarkerRemovesItsOwn

\* A set of numbers has a least one.
LEMMA LeastExists ==
    ASSUME NEW T \in SUBSET Nat, T # {}
    PROVE  \E n \in T : \A m \in T : n <= m
<1> DEFINE R == {ss \in Nat \X Nat : ss[1] < ss[2]}
<1>1. IsWellFoundedOn(R, Nat)
  BY NatLessThanWellFounded DEF OpToRel
<1> HIDE DEF R
<1>2. PICK n \in T : \A m \in T : ~(<<m, n>> \in R)
  BY Zenon, <1>1, WFMin
<1>3. \A m \in T : ~(m < n)
  BY <1>2, Zenon DEF R
<1> QED
  BY <1>3

\* The id a new marker keeps is that of a waypoint at its position.
LEMMA MarkedIdIsHere ==
    ASSUME WaypointInv, NEW p \in Pos, \E w \in waypoints : w.pos = p
    PROVE  /\ MarkedId(p) \in 1..MaxId
           /\ [id |-> MarkedId(p), pos |-> p] \in waypoints
<1> DEFINE T == {n \in 1..MaxId : [id |-> n, pos |-> p] \in waypoints}
<1>1. \A w \in waypoints : w.id \in 1..MaxId /\ w = [id |-> w.id, pos |-> w.pos]
  BY DEF WaypointInv
<1>2. T \in SUBSET Nat /\ T # {}
  BY <1>1, NavConstantsOK
<1>3. \A w \in waypoints : w.pos = p => w.id \in T
  BY <1>1
<1> HIDE DEF T
<1>4. PICK n \in T : \A m \in T : n <= m
  BY <1>2, LeastExists
<1>5. n \in 1..MaxId /\ [id |-> n, pos |-> p] \in waypoints
      /\ \A w \in waypoints : w.pos = p => n <= w.id
  BY <1>3, <1>4, Zenon DEF T
<1>6. /\ FirstId(p) \in 1..MaxId
      /\ [id |-> FirstId(p), pos |-> p] \in waypoints
  BY <1>5 DEF FirstId
<1> QED
  BY <1>6 DEF MarkedId

\* A step of the robot's waypoints alone.
LEMMA RobotKeeps ==
    ASSUME NavInv, WaypointInv', lastId <= lastId', UNCHANGED navView,
           \A w \in waypoints' \ waypoints : w.id > lastId
    PROVE  NavInv'
<1>1. UNCHANGED <<known, visible>> /\ lastId \in Nat /\ lastId' \in Nat
  BY NavConstantsOK DEF navView, NavInv, WaypointInv
<1>2. MarkerInv'
  BY <1>1 DEF NavInv, MarkerInv
<1>3. MarkersAreKnown'
  BY <1>1 DEF NavInv, MarkersAreKnown
<1>4. MarkerRemovesItsOwn'
  <2> SUFFICES ASSUME NEW i \in Inits, NEW p \in Pos, NEW w \in waypoints', w.id = known[i][p].id
               PROVE  w.pos = p
    BY <1>1 DEF MarkerRemovesItsOwn
  <2>1. known[i][p].id <= lastId /\ known[i][p].id \in Nat
    BY <1>1 DEF NavInv, MarkerInv
  <2>2. w \in waypoints
    BY <1>1, <2>1
  <2> QED
    BY <2>2 DEF NavInv, MarkerRemovesItsOwn
<1> QED
  BY <1>2, <1>3, <1>4 DEF NavInv

\* A poll's answer: markers come for positions that are new and go for
\* positions that are gone, in both loops at once.
LEMMA ReplyKeeps ==
    ASSUME NavInv, NEW i \in Inits, WaypointsReply(i)
    PROVE  NavInv'
<1> DEFINE here == {w.pos : w \in waypoints}
           new == {p \in here : known[i][p] = NoMarker}
           gone == {p \in Pos \ here : known[i][p] # NoMarker}
           now == [p \in Pos |->
                     IF p \in new THEN [label |-> Label(i, new, p), id |-> MarkedId(p)]
                     ELSE IF p \in gone THEN NoMarker ELSE known[i][p]]
           seen(k) == {[pos |-> p, label |-> k[p].label] : p \in {q \in Pos : k[q] # NoMarker}}
<1>1. /\ known' = [known EXCEPT ![i] = now]
      /\ visible' = [visible EXCEPT ![i] =
              (@ \union {[pos |-> p, label |-> Label(i, new, p)] : p \in new}) \ TakenOff(i, gone)]
      /\ UNCHANGED <<waypoints, lastId>>
  BY DEF WaypointsReply, navRobot
<1>2. /\ DOMAIN known = Inits /\ DOMAIN visible = Inits /\ DOMAIN known[i] = Pos
      /\ visible[i] = seen(known[i])
  BY DEF NavInv, MarkerInv, MarkersAreKnown
<1>3. /\ DOMAIN known' = Inits /\ DOMAIN visible' = Inits
      /\ known'[i] = now
      /\ \A j \in Inits \ {i} : known'[j] = known[j] /\ visible'[j] = visible[j]
  BY <1>1, <1>2
<1>4. WaypointInv'
  BY <1>1 DEF NavInv, WaypointInv
<1>5. here \subseteq Pos /\ new \subseteq Pos /\ gone \subseteq Pos /\ new \intersect gone = {}
  BY DEF NavInv, WaypointInv
<1>6. \A p \in new : /\ MarkedId(p) \in 1..MaxId
                     /\ [id |-> MarkedId(p), pos |-> p] \in waypoints
  BY <1>5, MarkedIdIsHere DEF NavInv
<1>7. \A p \in new : now[p].label = Label(i, new, p) /\ now[p].id = MarkedId(p) /\ now[p] # NoMarker
  <2> SUFFICES ASSUME NEW p \in new
               PROVE  now[p].label = Label(i, new, p) /\ now[p].id = MarkedId(p) /\ now[p] # NoMarker
    BY Zenon
  <2>1. p \in Pos /\ MarkedId(p) # 0
    <3>1. MarkedId(p) \in 1..MaxId /\ MaxId \in Nat
      BY Zenon, <1>6, NavConstantsOK
    <3> QED
      BY <1>5, <3>1
  <2>2. now[p] = [label |-> Label(i, new, p), id |-> MarkedId(p)]
    BY <2>1
  <2> HIDE DEF now, new
  <2> QED
    BY <2>1, <2>2 DEF NoMarker
<1>8. \A p \in gone : now[p] = NoMarker
  BY <1>5
<1>9. \A p \in Pos \ (new \union gone) : now[p] = known[i][p]
  OBVIOUS
<1>10. DOMAIN now = Pos
  OBVIOUS
<1>11. TakenOff(i, gone) = {[pos |-> p, label |-> known[i][p].label] : p \in gone}
  BY DEF TakenOff
<1>12. visible'[i] = seen(now)
  <2>1. visible'[i] = (seen(known[i]) \union {[pos |-> p, label |-> Label(i, new, p)] : p \in new})
                        \ {[pos |-> p, label |-> known[i][p].label] : p \in gone}
    BY Zenon, <1>1, <1>2, <1>11
  <2>2. \A p \in new : known[i][p] = NoMarker
    OBVIOUS
  <2>3. \A p \in gone : known[i][p] # NoMarker
    OBVIOUS
  <2> HIDE DEF now, new, gone
  <2> QED
    BY <1>5, <1>7, <1>8, <1>9, <2>1, <2>2, <2>3
<1>13. MarkersAreKnown'
  <2> SUFFICES ASSUME NEW j \in Inits PROVE visible'[j] = seen(known'[j])
    BY DEF MarkersAreKnown
  <2> HIDE DEF now
  <2>1. CASE j = i
    BY <1>3, <1>12, <2>1
  <2>2. CASE j # i
    BY <1>3, <2>2 DEF NavInv, MarkersAreKnown
  <2> QED
    BY <2>1, <2>2
<1> HIDE DEF now, new, gone
<1>14. \A p \in new : MarkedId(p) <= lastId
  BY <1>6, Zenon DEF NavInv, WaypointInv
<1>15. MarkerInv'
  <2>1. ASSUME NEW p \in Pos
        PROVE  now[p].id \in 0..lastId /\ (now[p] # NoMarker => now[p].id # 0)
    <3>1. CASE p \in new
      <4>1. now[p].id \in 1..MaxId /\ now[p].id <= lastId
        BY Zenon, <1>6, <1>7, <1>14, <3>1
      <4>2. lastId \in Nat /\ MaxId \in Nat
        BY NavConstantsOK DEF NavInv, WaypointInv
      <4> QED
        BY <4>1, <4>2
    <3>2. CASE p \in gone
      BY <1>8, <3>2 DEF NoMarker, NavInv, WaypointInv
    <3>3. CASE p \notin new \union gone
      BY <1>9, <3>3 DEF NavInv, MarkerInv
    <3> QED
      BY <3>1, <3>2, <3>3
  <2> QED
    BY <1>1, <1>3, <1>10, <2>1 DEF NavInv, MarkerInv
<1>16. MarkerRemovesItsOwn'
  <2> SUFFICES ASSUME NEW j \in Inits, NEW p \in Pos, NEW w \in waypoints, w.id = known'[j][p].id
               PROVE  w.pos = p
    BY <1>1 DEF MarkerRemovesItsOwn
  <2>1. CASE j # i \/ p \notin new \union gone
    BY <1>3, <1>9, <2>1 DEF NavInv, MarkerRemovesItsOwn
  <2>2. CASE j = i /\ p \in new
    <3>1. w.id = MarkedId(p) /\ [id |-> MarkedId(p), pos |-> p] \in waypoints
      BY <1>3, <1>6, <1>7, <2>2
    <3>2. [id |-> MarkedId(p), pos |-> p].id = MarkedId(p) /\ [id |-> MarkedId(p), pos |-> p].pos = p
      OBVIOUS
    <3> QED
      BY <3>1, <3>2 DEF NavInv, WaypointInv
  <2>3. CASE j = i /\ p \in gone
    <3>1. w.id = 0 /\ w.id \in 1..MaxId
      BY <1>3, <1>8, <2>3 DEF NoMarker, NavInv, WaypointInv
    <3> QED
      BY <3>1, NavConstantsOK
  <2> QED
    BY <2>1, <2>2, <2>3
<1> QED
  BY <1>4, <1>13, <1>15, <1>16 DEF NavInv

LEMMA NavInvHolds == NavSpec => []NavInv
<1>1. ASSUME NavInit PROVE NavInv
  <2>1. WaypointInv
    BY <1>1, NavConstantsOK DEF NavInit, WaypointInv
  <2>2. MarkerInv
    BY <1>1, NavConstantsOK DEF NavInit, MarkerInv, NoMarker
  <2>3. MarkersAreKnown
    BY <1>1 DEF NavInit, MarkersAreKnown
  <2>4. MarkerRemovesItsOwn
    BY <1>1 DEF NavInit, MarkerRemovesItsOwn
  <2> QED
    BY <2>1, <2>2, <2>3, <2>4 DEF NavInv
<1>2. ASSUME NavInv, UNCHANGED <<navView, navRobot>> PROVE NavInv'
  BY <1>2 DEF navView, navRobot, NavInv, WaypointInv, MarkerInv, MarkersAreKnown, MarkerRemovesItsOwn
<1>3. ASSUME NavInv, [NavNext]_navVars PROVE NavInv'
  <2> USE <1>3
  <2>1. CASE InitNavigationView \/ GoogleMapsInit \/ NavUnmount
    BY <1>2, <2>1 DEF InitNavigationView, GoogleMapsInit, NavUnmount
  <2>2. ASSUME NEW i \in Inits, InitNavigation(i) \/ WaypointsError(i) \/ PollAgain(i)
        PROVE  NavInv'
    BY <1>2, <2>2 DEF InitNavigation, WaypointsError, PollAgain
  <2>3. ASSUME NEW i \in Inits, WaypointsReply(i) PROVE NavInv'
    BY <2>3, ReplyKeeps
  <2>4. ASSUME NEW i \in Inits, NEW p \in Pos, RemoveWaypoint(i, p) PROVE NavInv'
    <3>1. waypoints' \subseteq waypoints /\ lastId' = lastId /\ UNCHANGED navView
      BY <2>4 DEF RemoveWaypoint
    <3>2. WaypointInv'
      BY <3>1 DEF NavInv, WaypointInv
    <3>3. lastId <= lastId' /\ waypoints' \ waypoints = {}
      BY <3>1 DEF NavInv, WaypointInv
    <3> QED
      BY <3>1, <3>2, <3>3, RobotKeeps
  <2>5. ASSUME NEW p \in Pos, AddWaypoint(p) PROVE NavInv'
    <3>1. /\ lastId < MaxId /\ lastId' = lastId + 1 /\ UNCHANGED navView
          /\ waypoints' = waypoints \union {[id |-> lastId + 1, pos |-> p]}
      BY <2>5 DEF AddWaypoint
    <3>2. lastId \in Nat /\ MaxId \in Nat /\ \A w \in waypoints : w.id \in Nat /\ w.id <= lastId
      BY NavConstantsOK DEF NavInv, WaypointInv
    <3>3. WaypointInv'
      BY <3>1, <3>2 DEF NavInv, WaypointInv
    <3>4. lastId <= lastId' /\ \A w \in waypoints' \ waypoints : w.id > lastId
      BY <3>1, <3>2
    <3> QED
      BY <3>1, <3>3, <3>4, RobotKeeps
  <2>6. ASSUME NEW w \in waypoints, WaypointReached(w) PROVE NavInv'
    <3>1. waypoints' \subseteq waypoints /\ lastId' = lastId /\ UNCHANGED navView
      BY <2>6 DEF WaypointReached
    <3>2. WaypointInv'
      BY <3>1 DEF NavInv, WaypointInv
    <3>3. lastId <= lastId' /\ waypoints' \ waypoints = {}
      BY <3>1 DEF NavInv, WaypointInv
    <3> QED
      BY <3>1, <3>2, <3>3, RobotKeeps
  <2>7. CASE UNCHANGED navVars
    BY <1>2, <2>7 DEF navVars, navView, navRobot
  <2> QED
    BY <2>1, <2>2, <2>3, <2>4, <2>5, <2>6, <2>7 DEF NavNext, InitStep
<1> QED
  BY <1>1, <1>3, PTL DEF NavSpec

\* The map shows the markers that updateWaypoints keeps, for any positions,
\* whatever waypoints come and go between two polls.
THEOREM MarkersAreKnownHolds == NavSpec => []MarkersAreKnown
  BY NavInvHolds, PTL DEF NavInv

\* A marker never removes a waypoint at another position: its id was that of a
\* waypoint at its own, and no later waypoint gets it.
THEOREM MarkerRemovesItsOwnHolds == NavSpec => []MarkerRemovesItsOwn
  BY NavInvHolds, PTL DEF NavInv

-----------------------------------------------------------------------------
(* The camera views. *)

\* The three invariants with what they rest on: an entry of the shared map is
\* made when a view goes live and stays on, and the views on the page listen.
CameraInv ==
    /\ CameraTypeOK
    /\ \A v \in View : states[v].on = states[v].live
    /\ mountedViews \subseteq listeners
    /\ StreamAskedOnce
    /\ NoStrayTimer
    /\ SharedTrackReachesView

\* At most one view of each camera is among V.
OneEach(V) == \A v, w \in V : v[2] = w[2] => v = w

\* A camera under two parents is two views.
LEMMA ViewsOfCamera ==
    ASSUME NEW c \in Camera
    PROVE  \A p \in Parent : <<p, c>> \in View /\ <<p, c>>[1] = p /\ <<p, c>>[2] = c
  BY DEF View

\* viewCamera counts the views of a camera that are on: none, one or more.
LEMMA CamerasOnCounts ==
    ASSUME NEW st, NEW c
    PROVE  /\ CamerasOn(st, c) = 0 <=> \A p \in Parent : ~st[<<p, c>>].on
           /\ CamerasOn(st, c) = 1 <=> \E p \in Parent :
                 st[<<p, c>>].on /\ \A q \in Parent : st[<<q, c>>].on => q = p
<1> DEFINE S == {p \in Parent : st[<<p, c>>].on}
<1>1. IsFiniteSet(S)
  <2>1. IsFiniteSet({"base"}) /\ IsFiniteSet({"base"} \union {"app"})
    BY FS_Singleton, FS_AddElement
  <2>2. Parent = {"base"} \union {"app"} /\ S \subseteq Parent
    BY DEF Parent
  <2> QED
    BY ZenonT(30), <2>1, <2>2, FS_Subset
<1>2. CamerasOn(st, c) = Cardinality(S)
  BY DEF CamerasOn
<1> HIDE DEF S
<1>3. Cardinality(S) = 0 <=> S = {}
  BY <1>1, FS_EmptySet
<1>4. Cardinality(S) = 1 <=> \E p : S = {p}
  BY <1>1, FS_Singleton
<1>5. S = {} <=> \A p \in Parent : ~st[<<p, c>>].on
  BY DEF S
<1>6. (\E p : S = {p}) <=> \E p \in Parent :
          st[<<p, c>>].on /\ \A q \in Parent : st[<<q, c>>].on => q = p
  <2>1. ASSUME NEW p, S = {p}
        PROVE  p \in Parent /\ st[<<p, c>>].on /\ \A q \in Parent : st[<<q, c>>].on => q = p
    BY <2>1 DEF S
  <2>2. ASSUME NEW p \in Parent, st[<<p, c>>].on, \A q \in Parent : st[<<q, c>>].on => q = p
        PROVE  S = {p}
    BY <2>2 DEF S
  <2> QED
    BY ZenonT(30), <2>1, <2>2
<1> QED
  BY Zenon, <1>2, <1>3, <1>4, <1>5, <1>6

\* viewCamera for views of different cameras: whichever is the first of its
\* camera to go live asks for the stream, and only that one.
LEMMA ViewCameraAsksOnce ==
    ASSUME CameraInv, NEW V \in SUBSET View, OneEach(V), NEW r, ViewCamera(V, r)
    PROVE  /\ states' \in [View -> [live : BOOLEAN, on : BOOLEAN]]
           /\ adds' \in [Camera -> Nat] /\ removes' \in [Camera -> Nat]
           /\ reply' \in [Camera -> {"none", "waiting", "failed", "added", "sent"}]
           /\ \A c \in Camera : reply'[c] \in {reply[c], "waiting"}
           /\ \A v \in View : states'[v].on = states'[v].live
           /\ StreamAskedOnce'
<1> DEFINE goLive == {v \in V : r[v] = "Live" /\ ~states[v].live}
           st == [v \in View |-> IF v \in goLive THEN [live |-> TRUE, on |-> r[v] = "Live"] ELSE states[v]]
           ofCamera(c) == {v \in goLive : v[2] = c}
           calls(c, n) == IF CamerasOn(st, c) = n THEN Cardinality(ofCamera(c)) ELSE 0
<1>1. /\ states' = st
      /\ adds' = [c \in Camera |-> adds[c] + calls(c, 1)]
      /\ removes' = [c \in Camera |-> removes[c] + calls(c, 0)]
      /\ reply' = [c \in Camera |-> IF calls(c, 1) > 0 THEN "waiting" ELSE reply[c]]
  BY DEF ViewCamera
<1>2. \A v \in View : st[v] = IF v \in goLive THEN [live |-> TRUE, on |-> TRUE] ELSE states[v]
  BY Zenon
<1>3. goLive \subseteq View /\ OneEach(goLive)
  BY DEF OneEach
<1>4. st \in [View -> [live : BOOLEAN, on : BOOLEAN]]
  BY DEF CameraInv, CameraTypeOK
<1>5. \A v \in View : st[v].on = st[v].live /\ (st[v].live <=> states[v].live \/ v \in goLive)
  BY <1>2, Zenon DEF CameraInv
<1>6. \A v \in goLive : ~states[v].live
  OBVIOUS
<1> HIDE DEF goLive, st
<1>7. ASSUME NEW c \in Camera
      PROVE  /\ calls(c, 0) = 0
             /\ calls(c, 1) \in Nat
             /\ adds[c] + calls(c, 1) = IF \E p \in Parent : st[<<p, c>>].live THEN 1 ELSE 0
  <2>1. adds[c] = IF \E p \in Parent : states[<<p, c>>].live THEN 1 ELSE 0
    BY DEF CameraInv, StreamAskedOnce
  <2>2. CASE ofCamera(c) = {}
    <3>1. calls(c, 0) = 0 /\ calls(c, 1) = 0
      BY <2>2, FS_EmptySet
    <3>2. \A p \in Parent : <<p, c>> \notin goLive
      BY <2>2, ViewsOfCamera
    <3>3. \A p \in Parent : st[<<p, c>>].live <=> states[<<p, c>>].live
      BY <1>5, <3>2, ViewsOfCamera
    <3>4. (\E p \in Parent : st[<<p, c>>].live) <=> (\E p \in Parent : states[<<p, c>>].live)
      BY <3>3
    <3> HIDE DEF calls
    <3> QED
      BY <2>1, <3>1, <3>4
  <2>3. CASE ofCamera(c) # {}
    <3>1. PICK w \in goLive : w[2] = c
      BY <2>3
    <3>2. PICK p \in Parent : w = <<p, c>>
      BY <1>3, <3>1 DEF View
    <3>3. ofCamera(c) = {w}
      BY <1>3, <3>1 DEF OneEach
    <3>4. Cardinality(ofCamera(c)) = 1
      BY <3>3, FS_Singleton
    <3>5. st[<<p, c>>].live /\ ~states[<<p, c>>].live
      BY <1>5, <1>6, <3>1, <3>2, ViewsOfCamera
    <3>6. \A q \in Parent : q # p => (st[<<q, c>>].live <=> states[<<q, c>>].live)
      <4>1. \A q \in Parent : q # p => <<q, c>> \notin goLive
        BY <3>2, <3>3, ViewsOfCamera
      <4> QED
        BY <1>5, <4>1, ViewsOfCamera
    <3>7. \A q \in Parent : st[<<q, c>>].on = st[<<q, c>>].live
      BY <1>5, ViewsOfCamera
    <3>8. calls(c, 0) = 0
      BY <3>5, <3>7, CamerasOnCounts
    <3>9. CASE \A q \in Parent : q # p => ~states[<<q, c>>].live
      <4>1. CamerasOn(st, c) = 1
        BY <3>5, <3>6, <3>7, <3>9, CamerasOnCounts
      <4>2. calls(c, 1) = 1
        BY <3>4, <4>1
      <4>3. adds[c] = 0
        BY Zenon, <2>1, <3>5, <3>9
      <4> QED
        BY <3>5, <3>8, <4>2, <4>3
    <3>10. CASE \E q \in Parent : q # p /\ states[<<q, c>>].live
      <4>1. CamerasOn(st, c) # 1
        BY Zenon, <3>5, <3>6, <3>7, <3>10, CamerasOnCounts
      <4>2. calls(c, 1) = 0
        BY <4>1
      <4>3. adds[c] = 1
        BY <2>1, <3>10
      <4> QED
        BY <3>5, <3>8, <4>2, <4>3
    <3> QED
      BY Zenon, <3>9, <3>10
  <2> QED
    BY Zenon, <2>2, <2>3
<1> HIDE DEF calls
<1>8. adds \in [Camera -> Nat] /\ removes \in [Camera -> Nat] /\ \A c \in Camera : removes[c] = 0
  BY DEF CameraInv, CameraTypeOK, StreamAskedOnce
<1>9. adds' \in [Camera -> Nat] /\ removes' \in [Camera -> Nat]
  BY <1>1, <1>7, <1>8
<1>10. StreamAskedOnce'
  <2> SUFFICES ASSUME NEW c \in Camera
               PROVE  /\ adds'[c] = IF \E p \in Parent : states'[<<p, c>>].live THEN 1 ELSE 0
                      /\ removes'[c] = 0
    BY Zenon DEF StreamAskedOnce
  <2>1. adds'[c] = adds[c] + calls(c, 1) /\ removes'[c] = 0 + calls(c, 0)
    BY <1>1, <1>8
  <2> QED
    BY <1>1, <1>7, <2>1
<1>11. reply \in [Camera -> {"none", "waiting", "failed", "added", "sent"}]
  BY DEF CameraInv, CameraTypeOK
<1>12. /\ reply' \in [Camera -> {"none", "waiting", "failed", "added", "sent"}]
       /\ \A c \in Camera : reply'[c] \in {reply[c], "waiting"}
  BY <1>1, <1>11
<1> QED
  BY <1>1, <1>4, <1>5, <1>9, <1>10, <1>12

\* A timer that runs is held, so clearFrameInterval leaves none.
LEMMA ClearedIsZero ==
    ASSUME CameraInv, NEW v \in View
    PROVE  ClearFrameInterval(v) = 0
  BY DEF CameraInv, NoStrayTimer, ClearFrameInterval

\* selectCameraView for views that are mounted, of different cameras, when the
\* rates become r and views outside V keep theirs.
LEMMA SelectKeeps ==
    ASSUME CameraInv, NEW V \in SUBSET View, OneEach(V), NEW r \in [View -> Rate],
           SelectCameraView(V, r), rate' = r, \A v \in mountedViews \ V : r[v] = rate[v],
           mountedViews' = mountedViews \union V,
           late \subseteq late', late' \subseteq View,
           \A v \in V \ mountedViews : reply[v[2]] = "sent" => v \in late',
           openCameras' \subseteq View, disableRefresh' \in BOOLEAN, UNCHANGED video
    PROVE  CameraInv'
<1>1. /\ states' \in [View -> [live : BOOLEAN, on : BOOLEAN]]
      /\ adds' \in [Camera -> Nat] /\ removes' \in [Camera -> Nat]
      /\ reply' \in [Camera -> {"none", "waiting", "failed", "added", "sent"}]
      /\ \A c \in Camera : reply'[c] \in {reply[c], "waiting"}
      /\ \A v \in View : states'[v].on = states'[v].live
      /\ StreamAskedOnce'
  BY ViewCameraAsksOnce DEF SelectCameraView
<1>2. /\ frameTimers' = [v \in View |-> IF v \notin V THEN frameTimers[v]
                                        ELSE ClearFrameInterval(v) + (IF r[v] = "Every" THEN 1 ELSE 0)]
      /\ current' = (current \ V) \union {v \in V : r[v] = "Every"}
      /\ listeners' = listeners \union V
  BY DEF SelectCameraView, ViewCameraFrame, ViewCamera
<1>3. NoStrayTimer'
  <2> SUFFICES ASSUME NEW v \in View
               PROVE  /\ frameTimers'[v] = IF v \in current' THEN 1 ELSE 0
                      /\ v \in current' => v \in mountedViews' /\ r[v] = "Every"
    BY DEF NoStrayTimer
  <2>1. frameTimers[v] = (IF v \in current THEN 1 ELSE 0)
        /\ (v \in current => v \in mountedViews /\ rate[v] = "Every")
    BY DEF CameraInv, NoStrayTimer
  <2>2. CASE v \in V
    BY <1>2, <2>2, ClearedIsZero
  <2>3. CASE v \notin V
    BY <1>2, <2>1, <2>3
  <2> QED
    BY <2>2, <2>3
<1>4. frameTimers' \in [View -> Nat]
  <2>1. DOMAIN frameTimers' = View /\ frameTimers' = [v \in View |-> frameTimers'[v]]
    BY <1>2
  <2>2. \A v \in View : frameTimers'[v] \in Nat
    BY <1>3 DEF NoStrayTimer
  <2> QED
    BY <2>1, <2>2
<1>5. CameraTypeOK'
  BY <1>1, <1>2, <1>4 DEF CameraInv, CameraTypeOK
<1>6. mountedViews' \subseteq listeners'
  BY <1>2 DEF CameraInv
<1>7. SharedTrackReachesView'
  <2> SUFFICES ASSUME NEW v \in mountedViews', v \notin late', reply'[v[2]] = "sent"
               PROVE  v \in video
    BY DEF SharedTrackReachesView
  <2>1. v \in View /\ v[2] \in Camera
    BY DEF CameraInv, CameraTypeOK, View
  <2>2. reply[v[2]] = "sent"
    BY <1>1, <2>1
  <2>3. v \in mountedViews \ late
    BY <2>2
  <2> QED
    BY <2>2, <2>3 DEF CameraInv, SharedTrackReachesView
<1> QED
  BY <1>1, <1>3, <1>5, <1>6, <1>7 DEF CameraInv

LEMMA MountKeeps ==
    ASSUME CameraInv, NEW v \in View, MountView(v)
    PROVE  CameraInv'
<1>1. OneEach({v}) /\ {v} \in SUBSET View
  BY DEF OneEach
<1>2. /\ SelectCameraView({v}, rate) /\ rate' = rate /\ mountedViews' = mountedViews \union {v}
      /\ late' = IF reply[v[2]] = "sent" THEN late \union {v} ELSE late
      /\ UNCHANGED <<openCameras, disableRefresh, video>>
  BY DEF MountView
<1>3. rate \in [View -> Rate] /\ late \subseteq View /\ openCameras \subseteq View
      /\ disableRefresh \in BOOLEAN
  BY DEF CameraInv, CameraTypeOK
<1> QED
  BY <1>1, <1>2, <1>3, SelectKeeps

\* The watchers run for views of one parent, so for one of each camera.
LEMMA ChangeRateKeeps ==
    ASSUME CameraInv, NEW r \in [View -> Rate], ChangeRate(r), NEW p \in Parent,
           \A v \in View : r[v] # rate[v] => v[1] = p,
           openCameras' \subseteq View
    PROVE  CameraInv'
<1> DEFINE V == {v \in mountedViews : r[v] # rate[v]}
<1>1. V \in SUBSET View
  BY DEF CameraInv, CameraTypeOK
<1>2. OneEach(V)
  <2> SUFFICES ASSUME NEW v \in V, NEW w \in V, v[2] = w[2] PROVE v = w
    BY DEF OneEach
  <2>1. v \in View /\ w \in View /\ v[1] = p /\ w[1] = p
    BY <1>1
  <2> QED
    BY <2>1 DEF View
<1>3. /\ SelectCameraView(V, r) /\ rate' = r /\ mountedViews' = mountedViews \union V
      /\ UNCHANGED <<disableRefresh, video, late>>
  BY DEF ChangeRate
<1>4. \A v \in mountedViews \ V : r[v] = rate[v]
  OBVIOUS
<1>5. late \subseteq View /\ disableRefresh \in BOOLEAN
  BY DEF CameraInv, CameraTypeOK
<1>6. V \ mountedViews = {}
  OBVIOUS
<1> HIDE DEF V
<1> QED
  BY <1>1, <1>2, <1>3, <1>4, <1>5, <1>6, SelectKeeps

LEMMA RefreshKeeps ==
    ASSUME CameraInv, NEW V \in SUBSET mountedViews, RefreshCamera(V),
           UNCHANGED <<mountedViews, rate, openCameras, disableRefresh, states, listeners, video, adds,
                       removes, reply, late>>
    PROVE  CameraInv'
<1>1. V \subseteq View /\ frameTimers \in [View -> Nat]
  BY DEF CameraInv, CameraTypeOK
<1>2. frameTimers' = [v \in View |-> IF v \in V THEN 0 ELSE frameTimers[v]]
  BY ClearedIsZero DEF RefreshCamera
<1>3. current' = current \ V
  BY DEF RefreshCamera
<1>4. NoStrayTimer'
  BY <1>2, <1>3 DEF CameraInv, NoStrayTimer
<1>5. CameraTypeOK'
  BY <1>1, <1>2, <1>3 DEF CameraInv, CameraTypeOK
<1>6. StreamAskedOnce' /\ SharedTrackReachesView'
  BY DEF CameraInv, StreamAskedOnce, SharedTrackReachesView
<1> QED
  BY <1>4, <1>5, <1>6 DEF CameraInv

LEMMA UnmountKeeps ==
    ASSUME CameraInv, NEW v \in View, UnmountView(v)
    PROVE  CameraInv'
<1>1. /\ frameTimers' = [frameTimers EXCEPT ![v] = 0] /\ current' = current \ {v}
      /\ mountedViews' = mountedViews \ {v} /\ video' = video \ {v} /\ late' = late \ {v}
      /\ listeners' = listeners \ {v}
      /\ UNCHANGED <<rate, openCameras, disableRefresh, states, adds, removes, reply>>
  BY ClearedIsZero, Zenon DEF UnmountView
<1>2. frameTimers \in [View -> Nat]
  BY DEF CameraInv, CameraTypeOK
<1>3. CameraTypeOK'
  BY <1>1 DEF CameraInv, CameraTypeOK
<1>4. NoStrayTimer'
  BY <1>1, <1>2 DEF CameraInv, NoStrayTimer
<1>5. StreamAskedOnce' /\ SharedTrackReachesView' /\ mountedViews' \subseteq listeners'
  BY <1>1 DEF CameraInv, StreamAskedOnce, SharedTrackReachesView
<1> QED
  BY <1>1, <1>3, <1>4, <1>5 DEF CameraInv

LEMMA CameraInvHolds == CameraSpec => []CameraInv
<1>1. ASSUME CameraInit PROVE CameraInv
  <2>1. CameraTypeOK
    BY <1>1 DEF CameraInit, CameraTypeOK, Rate
  <2>2. StreamAskedOnce
    BY <1>1, ViewsOfCamera, Zenon DEF CameraInit, StreamAskedOnce
  <2> QED
    BY <1>1, <2>1, <2>2, Zenon DEF CameraInit, CameraInv, NoStrayTimer, SharedTrackReachesView
<1>2. ASSUME CameraInv, [CameraNext]_cameraVars PROVE CameraInv'
  <2> USE <1>2
  <2>1. ASSUME NEW v \in View, MountView(v) \/ UnmountView(v) PROVE CameraInv'
    BY <2>1, MountKeeps, UnmountKeeps
  <2>2. ASSUME NEW c \in Camera, HandleSwitch(c) PROVE CameraInv'
    <3>1. openCameras' \subseteq View /\ disableRefresh' \in BOOLEAN
      BY <2>2, ViewsOfCamera, ZenonT(30) DEF HandleSwitch, CameraInv, CameraTypeOK, Parent
    <3>2. UNCHANGED <<mountedViews, rate, states, listeners, video, frameTimers, current, adds, removes,
                      reply, late>>
      BY <2>2 DEF HandleSwitch
    <3>3. CameraTypeOK'
      BY <3>1, <3>2 DEF CameraInv, CameraTypeOK
    <3> QED
      BY <3>2, <3>3 DEF CameraInv, StreamAskedOnce, NoStrayTimer, SharedTrackReachesView
  <2>3. ASSUME NEW c \in Camera, SetupCamera(c) PROVE CameraInv'
    <3> DEFINE r == [v \in View |-> IF v \in mountedViews /\ v[1] = "app" /\ rate[v] = "unset"
                                      THEN "Live" ELSE rate[v]]
    <3>1. ChangeRate(r)
      BY <2>3 DEF SetupCamera
    <3>2. openCameras' \subseteq View
      <4>1. <<"app", c>> \in View
        BY ViewsOfCamera, Zenon DEF Parent
      <4>2. openCameras \subseteq View
        BY DEF CameraInv, CameraTypeOK
      <4> QED
        BY <2>3, <4>1, <4>2 DEF SetupCamera
    <3>3. rate \in [View -> Rate]
      BY DEF CameraInv, CameraTypeOK
    <3>4. r \in [View -> Rate] /\ \A v \in View : r[v] # rate[v] => v[1] = "app"
      BY <3>3 DEF Rate
    <3>5. "app" \in Parent
      BY DEF Parent
    <3> HIDE DEF r
    <3> QED
      BY <3>1, <3>2, <3>4, <3>5, ChangeRateKeeps
  <2>4. ASSUME NEW c \in Camera, RefreshList(c) PROVE CameraInv'
    BY <2>4, RefreshKeeps DEF RefreshList
  <2>5. ASSUME NEW c \in Camera, AddReply(c) PROVE CameraInv'
    <3>1. /\ reply' \in {[reply EXCEPT ![c] = "added"], [reply EXCEPT ![c] = "failed"]}
          /\ UNCHANGED <<mountedViews, rate, openCameras, disableRefresh, states, listeners, video,
                         frameTimers, current, adds, removes, late>>
      BY <2>5 DEF AddReply
    <3>2. CameraTypeOK'
      BY <3>1 DEF CameraInv, CameraTypeOK
    <3>3. \A d \in Camera : reply'[d] = "sent" => reply[d] = "sent"
      BY <3>1 DEF CameraInv, CameraTypeOK
    <3>4. \A v \in mountedViews : v[2] \in Camera
      BY DEF CameraInv, CameraTypeOK, View
    <3>5. SharedTrackReachesView'
      BY <3>1, <3>3, <3>4 DEF CameraInv, SharedTrackReachesView
    <3> QED
      BY <3>1, <3>2, <3>5 DEF CameraInv, StreamAskedOnce, NoStrayTimer
  <2>6. ASSUME NEW c \in Camera, Track(c) PROVE CameraInv'
    <3>1. /\ reply' = [reply EXCEPT ![c] = "sent"] /\ video' = video \union {v \in listeners : v[2] = c}
          /\ UNCHANGED <<mountedViews, rate, openCameras, disableRefresh, states, listeners, frameTimers,
                         current, adds, removes, late>>
      BY <2>6 DEF Track
    <3>2. CameraTypeOK'
      BY <3>1 DEF CameraInv, CameraTypeOK
    <3>3. \A v \in mountedViews : v[2] \in Camera /\ v \in listeners
      BY DEF CameraInv, CameraTypeOK, View
    <3>4. SharedTrackReachesView'
      BY <3>1, <3>3 DEF CameraInv, CameraTypeOK, SharedTrackReachesView
    <3> QED
      BY <3>1, <3>2, <3>4 DEF CameraInv, StreamAskedOnce, NoStrayTimer
  <2>7. ASSUME NEW x \in Rate \ {"unset"}, SelectBaseRate(x) PROVE CameraInv'
    <3> DEFINE r == [v \in View |-> IF v[1] = "base" THEN x ELSE rate[v]]
    <3>1. ChangeRate(r) /\ openCameras' \subseteq View
      BY <2>7 DEF SelectBaseRate, CameraInv, CameraTypeOK
    <3>2. rate \in [View -> Rate]
      BY DEF CameraInv, CameraTypeOK
    <3>3. r \in [View -> Rate] /\ \A v \in View : r[v] # rate[v] => v[1] = "base"
      BY <3>2
    <3>4. "base" \in Parent
      BY DEF Parent
    <3> HIDE DEF r
    <3> QED
      BY <3>1, <3>3, <3>4, ChangeRateKeeps
  <2>8. ASSUME NEW x \in Rate \ {"unset"}, NEW c \in Camera, SelectListRate(c, x) PROVE CameraInv'
    <3> DEFINE r == [rate EXCEPT ![<<"app", c>>] = x]
    <3>1. ChangeRate(r) /\ openCameras' \subseteq View
      BY <2>8 DEF SelectListRate, CameraInv, CameraTypeOK
    <3>2. rate \in [View -> Rate] /\ <<"app", c>>[1] = "app"
      BY DEF CameraInv, CameraTypeOK
    <3>3. r \in [View -> Rate] /\ \A v \in View : r[v] # rate[v] => v[1] = "app"
      BY Zenon, <3>2
    <3>4. "app" \in Parent
      BY DEF Parent
    <3> HIDE DEF r
    <3> QED
      BY <3>1, <3>3, <3>4, ChangeRateKeeps
  <2>9. CASE RefreshBase
    BY <2>9, RefreshKeeps DEF RefreshBase
  <2>10. CASE UNCHANGED cameraVars
    BY <2>10 DEF cameraVars, CameraInv, CameraTypeOK, StreamAskedOnce, NoStrayTimer, SharedTrackReachesView
  <2> QED
    BY <2>1, <2>2, <2>3, <2>4, <2>5, <2>6, <2>7, <2>8, <2>9, <2>10 DEF CameraNext
<1> QED
  BY <1>1, <1>2, PTL DEF CameraSpec

\* The robot is asked for a camera's stream once, for any number of cameras: the
\* views that a change of rate reaches are of one parent, so of each camera one
\* at most goes live in a step and the count of views that are on says whether
\* it is the first.
THEOREM StreamAskedOnceHolds == CameraSpec => []StreamAskedOnce
  BY CameraInvHolds, PTL DEF CameraInv

\* No view has a frame timer that it does not hold, or two.
THEOREM NoStrayTimerHolds == CameraSpec => []NoStrayTimer
  BY CameraInvHolds, PTL DEF CameraInv

\* A view that was there in time shows its camera's track, because every view on
\* the page listens, live or not.
THEOREM SharedTrackHolds == CameraSpec => []SharedTrackReachesView
  BY CameraInvHolds, PTL DEF CameraInv
=============================================================================
