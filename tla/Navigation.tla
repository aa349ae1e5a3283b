----------------------------- MODULE Navigation -----------------------------
(***************************************************************************)
(* The navigation card (components/navigation.vue): once the map's script  *)
(* has loaded, every initNavigation polls the robot's waypoints once a     *)
(* second and keeps a marker per position.  The like poll of the robot's   *)
(* own location, which moves one marker, is left out.                      *)
(*                                                                         *)
(* "Go" starts one initNavigation, or two when the script is already in    *)
(* the page; each has markers, labels and timers of its own.  The robot's  *)
(* answer to a poll is its waypoints at that moment.                       *)
(***************************************************************************)
EXTENDS Integers, FiniteSets

CONSTANTS
    Pos,         \* positions, as JSON.stringify tells them apart
    MaxInits,    \* bound on initNavigation calls
    MaxId,       \* bound on waypoints ever made
    MaxErrors    \* bound on polls the robot fails

ASSUME NavConstantsOK == {MaxInits, MaxId, MaxErrors} \subseteq Nat

Inits == 1..MaxInits
NoMarker == [label |-> 0, id |-> 0]

VARIABLES
    navShown,     \* the card is mounted
    script,       \* the map's script tag: none, loading, or loaded for another card
    mapReady,     \* the promise is resolved
    polling,      \* per initNavigation: where updateWaypoints is
    updateTimerId,\* the initNavigation that set the timer last, 0 for none
    known,        \* knownWaypoints: the marker kept for each position
    visible,      \* markers put on the map and not taken off it
    labels,       \* localLabelCounter
    waypoints,    \* the robot's waypoints
    lastId, navErrors

navVars == <<navShown, script, mapReady, polling, updateTimerId, known, visible, labels,
             waypoints, lastId, navErrors>>
navView == <<known, visible, labels>>
navRobot == <<waypoints, lastId>>

Marker == [label : 0..MaxId, id : 0..MaxId]
NavTypeOK ==
    /\ {navShown, mapReady} \subseteq BOOLEAN
    /\ script \in {"none", "loading", "loaded"}
    /\ polling \in [Inits -> {"unused", "waiting", "asking", "resting", "stopped"}]
    /\ updateTimerId \in 0..MaxInits
    /\ known \in [Inits -> [Pos -> Marker]]
    /\ \A i \in Inits : visible[i] \subseteq [pos : Pos, label : 1..MaxId]
    /\ labels \in [Inits -> 0..MaxId]
    /\ waypoints \subseteq [id : 1..MaxId, pos : Pos]
    /\ lastId \in 0..MaxId /\ navErrors \in 0..MaxErrors

\* The script may have been put there by a card shown before.
NavInit ==
    /\ navShown = TRUE
    /\ script \in {"none", "loading", "loaded"}
    /\ mapReady = FALSE
    /\ polling = [i \in Inits |-> "unused"]
    /\ updateTimerId = 0
    /\ known = [i \in Inits |-> [p \in Pos |-> NoMarker]]
    /\ visible = [i \in Inits |-> {}] /\ labels = [i \in Inits |-> 0]
    /\ waypoints = {} /\ lastId = 0 /\ navErrors = 0

-----------------------------------------------------------------------------
(* The map. *)

Unused == {i \in Inits : polling[i] = "unused"}

\* "Go": initNavigationView.  loadMaps calls initNavigation itself when the
\* script is in the page, and adds the script when it is not.
InitNavigationView ==
    /\ navShown
    /\ \E new \in SUBSET Unused :
         /\ Cardinality(new) = IF script = "none" THEN 1 ELSE 2
         /\ \A i \in new, j \in Unused \ new : i < j
         /\ polling' = [i \in Inits |-> IF i \in new THEN "waiting" ELSE polling[i]]
    /\ script' = IF script = "none" THEN "loading" ELSE script
    /\ UNCHANGED <<navShown, mapReady, updateTimerId, navView, navRobot, navErrors>>

\* The script calls googleMapsInit once it has loaded.
GoogleMapsInit ==
    /\ script = "loading"
    /\ script' = "loaded"
    /\ mapReady' = TRUE
    /\ UNCHANGED <<navShown, polling, updateTimerId, navView, navRobot, navErrors>>

\* initNavigation past "await mapReady": the first poll is sent.
InitNavigation(i) ==
    /\ mapReady /\ polling[i] = "waiting"
    /\ polling' = [polling EXCEPT ![i] = "asking"]
    /\ UNCHANGED <<navShown, script, mapReady, updateTimerId, navView, navRobot, navErrors>>

-----------------------------------------------------------------------------
(* Waypoints. *)

FirstId(p) == CHOOSE n \in 1..MaxId :
    /\ [id |-> n, pos |-> p] \in waypoints
    /\ \A w \in waypoints : w.pos = p => n <= w.id

Rest(i) ==
    /\ polling' = [polling EXCEPT ![i] = "resting"]
    /\ updateTimerId' = i

\* New markers are labelled in the order of the answer.
Label(i, new, p) == labels[i] + Cardinality({q \in new : FirstId(q) <= FirstId(p)})

\* Mutant: the listener holds the last waypoint of the answer.
LastOfAnswer(p) == CHOOSE n \in 1..MaxId :
    (\E w \in waypoints : w.id = n) /\ \A w \in waypoints : w.id <= n

\* The waypoint a new marker's listener removes: the one it was made for.
MarkedId(p) == FirstId(p)

\* Mutant: a marker is forgotten and stays on the map.
NoneTakenOff(i, gone) == {}

\* Markers whose position is not in the answer leave the map.
TakenOff(i, gone) == {[pos |-> p, label |-> known[i][p].label] : p \in gone}

\* The answer: positions that are new get a marker, and markers whose position
\* is gone are deleted.
WaypointsReply(i) ==
    LET here == {w.pos : w \in waypoints}
        new == {p \in here : known[i][p] = NoMarker}
        gone == {p \in Pos \ here : known[i][p] # NoMarker}
    IN
    /\ polling[i] = "asking"
    /\ known' = [known EXCEPT ![i] = [p \in Pos |->
                    IF p \in new THEN [label |-> Label(i, new, p), id |-> MarkedId(p)]
                    ELSE IF p \in gone THEN NoMarker ELSE known[i][p]]]
    /\ visible' = [visible EXCEPT ![i] =
                    (@ \union {[pos |-> p, label |-> Label(i, new, p)] : p \in new}) \ TakenOff(i, gone)]
    /\ labels' = [labels EXCEPT ![i] = @ + Cardinality(new)]
    /\ Rest(i)
    /\ UNCHANGED <<navShown, script, mapReady, navRobot, navErrors>>

\* Mutant: an error ends the polling.
ErrorEndsPolling(i) ==
    /\ polling[i] = "asking"
    /\ navErrors < MaxErrors
    /\ navErrors' = navErrors + 1
    /\ polling' = [polling EXCEPT ![i] = "stopped"]
    /\ UNCHANGED <<navShown, script, mapReady, updateTimerId, navView, navRobot>>

WaypointsError(i) ==
    /\ polling[i] = "asking"
    /\ navErrors < MaxErrors
    /\ navErrors' = navErrors + 1
    /\ Rest(i)
    /\ UNCHANGED <<navShown, script, mapReady, navView, navRobot>>

PollAgain(i) ==
    /\ polling[i] = "resting"
    /\ polling' = [polling EXCEPT ![i] = "asking"]
    /\ UNCHANGED <<navShown, script, mapReady, updateTimerId, navView, navRobot, navErrors>>

\* A click on the map, or another client: addWaypoint.
AddWaypoint(p) ==
    /\ lastId < MaxId
    /\ lastId' = lastId + 1
    /\ waypoints' = waypoints \union {[id |-> lastId + 1, pos |-> p]}
    /\ UNCHANGED <<navShown, script, mapReady, polling, updateTimerId, navView, navErrors>>

\* A double click on a marker: removeWaypoint with the id it was made for.
RemoveWaypoint(i, p) ==
    /\ navShown /\ known[i][p] # NoMarker
    /\ waypoints' = {w \in waypoints : w.id # known[i][p].id}
    /\ UNCHANGED <<navShown, script, mapReady, polling, updateTimerId, navView, lastId, navErrors>>

\* The robot reaches a waypoint, or another client removes it.
WaypointReached(w) ==
    /\ waypoints' = waypoints \ {w}
    /\ UNCHANGED <<navShown, script, mapReady, polling, updateTimerId, navView, lastId, navErrors>>

\* onUnmounted clears the waypoint timer that was set last.
NavUnmount ==
    /\ navShown
    /\ navShown' = FALSE
    /\ polling' = [i \in Inits |-> IF i = updateTimerId /\ polling[i] = "resting" THEN "stopped" ELSE polling[i]]
    /\ UNCHANGED <<script, mapReady, updateTimerId, navView, navRobot, navErrors>>

InitStep(i) ==
    \/ InitNavigation(i) \/ WaypointsReply(i) \/ WaypointsError(i) \/ PollAgain(i)

NavNext ==
    \/ InitNavigationView \/ GoogleMapsInit \/ NavUnmount
    \/ \E i \in Inits : InitStep(i) \/ \E p \in Pos : RemoveWaypoint(i, p)
    \/ \E p \in Pos : AddWaypoint(p)
    \/ \E w \in waypoints : WaypointReached(w)

\* Timers fire, and the robot answers.
NavFairness == \A i \in Inits :
    /\ WF_navVars(InitNavigation(i))
    /\ WF_navVars(WaypointsReply(i) \/ WaypointsError(i))
    /\ WF_navVars(PollAgain(i))

-----------------------------------------------------------------------------
(* Properties. *)

\* The markers on the map are exactly the ones the card knows: no marker stays
\* behind when its waypoint goes, and none is known that cannot be seen (the
\* two loops of updateWaypoints over new and deleted waypoints).
MarkersAreKnown == \A i \in Inits :
    visible[i] = {[pos |-> p, label |-> known[i][p].label] : p \in {q \in Pos : known[i][q] # NoMarker}}

\* A double click on a marker never removes a waypoint that is elsewhere: the
\* id a marker was made with may be out of date, but it is never the id of a
\* waypoint at another position.
MarkerRemovesItsOwn == \A i \in Inits, p \in Pos : \A w \in waypoints :
    w.id = known[i][p].id => w.pos = p

\* While the card is shown a waypoint that stays gets its marker in every
\* running initNavigation, even when polls fail (updateWaypoints sets its timer
\* after an answer and after an error).
WaypointAppears == \A i \in Inits, p \in Pos :
    (polling[i] \in {"asking", "resting"} /\ \E w \in waypoints : w.pos = p)
      ~> (~navShown \/ known[i][p] # NoMarker \/ ~\E w \in waypoints : w.pos = p)
=============================================================================
