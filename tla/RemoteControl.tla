---------------------------- MODULE RemoteControl ----------------------------
(***************************************************************************)
(* The remote-control page (components/remote-control-cards.vue): the      *)
(* first connection, the loop that polls the robot every half second and   *)
(* reconnects, and the status stream the cards live on.                    *)
(*                                                                         *)
(* JavaScript runs one callback at a time, so everything between two       *)
(* awaits is one step.  pc says which reply manageLoop awaits.  Toasts, the*)
(* round-trip time and the contents of the operation and session lists are *)
(* left out.  What the network and the robot do of their own accord is     *)
(* bounded by MaxEvents.                                                   *)
(***************************************************************************)
EXTENDS Integers

CONSTANTS
    Resource,   \* resource names
    Relevant,   \* those of a subtype in relevantSubtypesForStatus
    NeedsStatus, \* those whose card waits for a status (all of them but arms)
    Sensors,    \* the name of the sensors service
    Configs,    \* the resource lists the robot may have
    MaxEvents   \* bound on what the network and the robot do by themselves

ASSUME ConstantsOK ==
    /\ NeedsStatus \subseteq Relevant /\ Relevant \subseteq Resource
    /\ Configs \in SUBSET SUBSET Resource
    /\ MaxEvents \in Nat

VARIABLES
    auth, webrtc,           \* the page's configuration: password login, WebRTC
    mounted,
    dials, retry,           \* doConnect calls in flight; initConnect's timer
    disableAuthElements, connectedOnce,
    pc, restart,            \* manageLoop; its captured shouldRestartStatusStream
    statuses,               \* the entries of statuses that are true
    lost,                   \* errorMessage is shown
    resources, resourcesOnce,
    statusStream,           \* the variable is not null
    open, openedWith,       \* streams not cancelled or ended; relevant resources then
    status, fresh,          \* names with a status; lastStatusTS within 10 seconds
    sessionsSupported,
    sensorCalls, sensorNames, \* querySensors calls in flight; the list is set
    robot, conn, events     \* the robot's resources, the connection, events so far

vars == <<auth, webrtc, mounted, dials, retry, disableAuthElements, connectedOnce, pc, restart,
          statuses, lost, resources, resourcesOnce, statusStream, open, openedWith, status, fresh,
          sessionsSupported, sensorCalls, sensorNames, robot, conn, events>>
login == <<dials, retry, disableAuthElements, connectedOnce>>
config == <<auth, webrtc>>
stream == <<statusStream, open, openedWith>>
sensors == <<sensorCalls, sensorNames>>

TypeOK ==
    /\ {auth, webrtc, mounted, retry, disableAuthElements, connectedOnce, restart, lost,
        resourcesOnce, statusStream, fresh, sessionsSupported, sensorNames, conn} \subseteq BOOLEAN
    /\ pc \in {"off", "sleep", "metadata", "ops", "sessions", "connect", "reops"}
    /\ statuses \subseteq {"resources", "ops", "sessions"}
    /\ {resources, openedWith, status, robot} \subseteq SUBSET Resource
    /\ {dials, open, sensorCalls, events} \subseteq Nat

Init ==
    /\ auth \in BOOLEAN /\ webrtc \in BOOLEAN
    /\ mounted = TRUE
    /\ dials = IF auth THEN 0 ELSE 1
    /\ retry = FALSE /\ disableAuthElements = FALSE /\ connectedOnce = FALSE
    /\ pc = "off" /\ restart = FALSE /\ statuses = {} /\ lost = FALSE
    /\ resources = {} /\ resourcesOnce = FALSE
    /\ statusStream = FALSE /\ open = 0 /\ openedWith = {}
    /\ status = {} /\ fresh = FALSE
    /\ sessionsSupported = TRUE /\ sensorCalls = 0 /\ sensorNames = FALSE
    /\ robot \in Configs /\ conn = FALSE /\ events = 0

Event == events < MaxEvents /\ events' = events + 1

\* How a call ends: a dead connection closes it, a live one answers it, with
\* an error only if something happens.
Outcome(o) ==
    \/ o = "ok" /\ conn /\ UNCHANGED events
    \/ o = "closed" /\ ~conn /\ UNCHANGED events
    \/ o \in {"other", "unimplemented"} /\ conn /\ Event

-----------------------------------------------------------------------------
(* The first connection. *)

\* The login form is on the page until a connection is made, and its elements
\* are disabled by the flag.
LoginEnabled == mounted /\ auth /\ ~connectedOnce /\ ~disableAuthElements

DoLogin ==
    /\ LoginEnabled
    /\ disableAuthElements' = TRUE
    /\ dials' = dials + 1
    /\ UNCHANGED <<config, mounted, retry, connectedOnce, pc, restart, statuses, lost, resources,
                   resourcesOnce, stream, status, fresh, sessionsSupported, sensors,
                   robot, conn, events>>

\* The timer that initConnect sets when there is no login form.
RetryConnect ==
    /\ retry
    /\ retry' = FALSE
    /\ dials' = dials + 1
    /\ UNCHANGED <<config, mounted, disableAuthElements, connectedOnce, pc, restart, statuses, lost,
                   resources, resourcesOnce, stream, status, fresh, sessionsSupported,
                   sensors, robot, conn, events>>

\* queryMetadata up to its call.
AskMetadata ==
    /\ pc' = "metadata"
    /\ restart' = ~(resourcesOnce /\ statusStream)

\* doConnect succeeds; the promise connectedFirstTime starts the loop once.
DialOk ==
    /\ dials > 0
    /\ dials' = dials - 1
    /\ conn' = TRUE
    /\ disableAuthElements' = FALSE
    /\ connectedOnce' = TRUE
    /\ IF connectedOnce
         THEN UNCHANGED <<fresh, pc, restart>>
         ELSE fresh' = TRUE /\ AskMetadata
    /\ UNCHANGED <<config, mounted, retry, statuses, lost, resources, resourcesOnce, stream, status,
                   sessionsSupported, sensors, robot, events>>

\* Mutant: a failed attempt is not tried again.
DialGivesUp ==
    /\ dials > 0
    /\ Event
    /\ dials' = dials - 1
    /\ disableAuthElements' = FALSE
    /\ UNCHANGED <<config, mounted, retry, connectedOnce, pc, restart, statuses, lost, resources,
                   resourcesOnce, stream, status, fresh, sessionsSupported, sensors, robot, conn>>

\* doConnect fails: the form comes back, or initConnect tries again.
DialFails ==
    /\ dials > 0
    /\ Event
    /\ dials' = dials - 1
    /\ IF auth
         THEN disableAuthElements' = FALSE /\ UNCHANGED retry
         ELSE retry' = TRUE /\ UNCHANGED disableAuthElements
    /\ UNCHANGED <<config, mounted, connectedOnce, pc, restart, statuses, lost, resources,
                   resourcesOnce, stream, status, fresh, sessionsSupported, sensors, robot, conn>>

-----------------------------------------------------------------------------
(* The status stream. *)

CancelStream ==
    /\ open' = IF statusStream THEN open - 1 ELSE open
    /\ statusStream' = FALSE
    /\ openedWith' = {}

\* restartStatusStream.  newResources starts empty and is filtered itself, so the
\* request names no resource, which the robot takes for all of its resources.
RestartStatusStream(list) ==
    /\ open' = (IF statusStream THEN open - 1 ELSE open) + 1
    /\ statusStream' = TRUE
    /\ openedWith' = list \intersect Relevant

\* A "data" event, for all resources; updateStatus skips what fixRawStatus
\* throws on.
StreamData ==
    /\ open > 0 /\ conn
    /\ \E bad \in SUBSET (robot \intersect Relevant) :
         /\ status' = status \union (robot \ bad)
         /\ IF bad = {} THEN UNCHANGED events ELSE Event
    /\ fresh' = TRUE
    /\ UNCHANGED <<config, mounted, login, pc, restart, statuses, lost, resources, resourcesOnce,
                   stream, sessionsSupported, sensors, robot, conn>>

\* Mutant: a stream that ended is still taken for open.
StreamEndsUnnoticed ==
    /\ open > 0
    /\ IF conn THEN Event ELSE UNCHANGED events
    /\ open' = open - 1
    /\ UNCHANGED <<config, mounted, login, pc, restart, statuses, lost, resources, resourcesOnce,
                   statusStream, openedWith, status, fresh, sessionsSupported, sensors, robot, conn>>

\* The "status" and "end" events of a stream clear the variable, whichever
\* stream it holds by then.  A cancelled stream raises no more events.
StreamEnds ==
    /\ open > 0
    /\ IF conn THEN Event ELSE UNCHANGED events
    /\ open' = open - 1
    /\ statusStream' = FALSE
    /\ openedWith' = {}
    /\ UNCHANGED <<config, mounted, login, pc, restart, statuses, lost, resources, resourcesOnce,
                   status, fresh, sessionsSupported, sensors, robot, conn>>

\* The cards on the page.
ShownCards == {r \in resources : r \in NeedsStatus => r \in status}

-----------------------------------------------------------------------------
(* manageLoop. *)

IsConnected(st) == {"resources", "ops"} \subseteq st /\ (webrtc \/ fresh)

\* The end of a round: sleep when connected, else reset and reconnect.
Settle(st) ==
    /\ statuses' = st
    /\ IF IsConnected(st)
         THEN /\ lost' = FALSE
              /\ pc' = "sleep"
              /\ UNCHANGED <<stream, resourcesOnce>>
         ELSE /\ lost' = TRUE
              /\ CancelStream
              /\ resourcesOnce' = FALSE
              /\ pc' = "connect"

\* After the operations: ask for the sessions, unless they are unsupported.
AfterOps(st) ==
    IF "ops" \notin st THEN Settle(st)
    ELSE IF ~sessionsSupported THEN Settle(st \union {"sessions"})
    ELSE pc' = "sessions" /\ statuses' = st /\ UNCHANGED <<lost, stream, resourcesOnce>>

AfterMetadata(st) ==
    IF "resources" \in st
      THEN pc' = "ops" /\ statuses' = st /\ UNCHANGED <<lost, stream, resourcesOnce>>
      ELSE AfterOps(st)

\* What the three catch clauses do: only a closed connection clears an entry.
Failed(st, key, o) == IF o = "closed" THEN st \ {key} ELSE st

WakeUp ==
    /\ pc = "sleep"
    /\ AskMetadata
    /\ UNCHANGED <<config, mounted, login, statuses, lost, resources, resourcesOnce, stream, status,
                   fresh, sessionsSupported, sensors, robot, conn, events>>

\* Mutant: only what was decided before the call counts.
MetadataKeepsStream ==
    /\ pc = "metadata"
    /\ Outcome("ok")
    /\ resources' = robot
    /\ resourcesOnce' = TRUE
    /\ IF restart THEN RestartStatusStream(robot) ELSE UNCHANGED stream
    /\ statuses' = statuses \union {"resources"}
    /\ pc' = "ops"
    /\ UNCHANGED <<config, mounted, login, restart, lost, status, fresh, sessionsSupported,
                   sensors, robot, conn>>

\* queryMetadata's callback.
MetadataOk ==
    LET differences == (resources \ robot) \union (robot \ resources) IN
    /\ pc = "metadata"
    /\ Outcome("ok")
    /\ resources' = robot
    /\ resourcesOnce' = TRUE
    /\ sensorCalls' = IF differences # {} /\ Sensors \in robot THEN sensorCalls + 1 ELSE sensorCalls
    /\ IF restart \/ differences \intersect Relevant # {}
         THEN RestartStatusStream(robot)
         ELSE UNCHANGED stream
    /\ statuses' = statuses \union {"resources"}
    /\ pc' = "ops"
    /\ UNCHANGED <<config, mounted, login, restart, lost, status, fresh, sessionsSupported,
                   sensorNames, robot, conn>>

MetadataFails(o) ==
    /\ pc = "metadata"
    /\ Outcome(o)
    /\ AfterMetadata(Failed(statuses, "resources", o))
    /\ UNCHANGED <<config, mounted, login, restart, resources, status, fresh, sessionsSupported,
                   sensors, robot, conn>>

OpsReply(o) ==
    /\ pc = "ops"
    /\ Outcome(o)
    /\ AfterOps(IF o = "ok" THEN statuses \union {"ops"} ELSE Failed(statuses, "ops", o))
    /\ UNCHANGED <<config, mounted, login, restart, resources, status, fresh, sessionsSupported,
                   sensors, robot, conn>>

SessionsReply(o) ==
    /\ pc = "sessions"
    /\ Outcome(o)
    /\ sessionsSupported' = (sessionsSupported /\ o # "unimplemented")
    /\ Settle(IF o = "ok" THEN statuses \union {"sessions"} ELSE Failed(statuses, "sessions", o))
    /\ UNCHANGED <<config, mounted, login, restart, resources, status, fresh, sensors, robot, conn>>

\* client.connect() in the reconnect branch.
ConnectReply ==
    /\ pc = "connect"
    /\ \/ conn' = TRUE /\ pc' = "reops" /\ UNCHANGED events
       \/ Event /\ pc' = "sleep" /\ UNCHANGED conn
    /\ UNCHANGED <<config, mounted, login, restart, statuses, lost, resources, resourcesOnce, stream,
                   status, fresh, sessionsSupported, sensors, robot>>

\* The fetchCurrentOps call of the reconnect branch.
ReconnectOpsReply(o) ==
    /\ pc = "reops"
    /\ Outcome(o)
    /\ fresh' = (fresh \/ o = "ok")
    /\ pc' = "sleep"
    /\ UNCHANGED <<config, mounted, login, restart, statuses, lost, resources, resourcesOnce, stream,
                   status, sessionsSupported, sensors, robot, conn>>

SensorsReply(o) ==
    /\ sensorCalls > 0
    /\ Outcome(o)
    /\ sensorCalls' = sensorCalls - 1
    /\ sensorNames' = (sensorNames \/ o = "ok")
    /\ UNCHANGED <<config, mounted, login, pc, restart, statuses, lost, resources, resourcesOnce,
                   stream, status, fresh, sessionsSupported, robot, conn>>

\* stop() clears the timer; a round that is under way arms it again.
Unmount ==
    /\ mounted
    /\ mounted' = FALSE
    /\ pc' = IF pc = "sleep" THEN "off" ELSE pc
    /\ UNCHANGED <<config, login, restart, statuses, lost, resources, resourcesOnce, stream, status,
                   fresh, sessionsSupported, sensors, robot, conn, events>>

\* The connection drops, ten seconds pass without a status, or the robot is
\* reconfigured.
Environment ==
    /\ Event
    /\ \/ conn /\ conn' = FALSE /\ UNCHANGED <<fresh, robot>>
       \/ fresh /\ ~webrtc /\ fresh' = FALSE /\ UNCHANGED <<conn, robot>>
       \/ \E c \in Configs \ {robot} : robot' = c /\ UNCHANGED <<conn, fresh>>
    /\ UNCHANGED <<config, mounted, login, pc, restart, statuses, lost, resources, resourcesOnce,
                   stream, status, sessionsSupported, sensors>>

Loop ==
    \/ WakeUp
    \/ MetadataOk
    \/ \E o \in {"closed", "other"} : MetadataFails(o)
    \/ \E o \in {"ok", "closed", "other"} : OpsReply(o) \/ ReconnectOpsReply(o)
    \/ \E o \in {"ok", "closed", "other", "unimplemented"} : SessionsReply(o)
    \/ ConnectReply

Dial == DialOk \/ DialFails \/ RetryConnect

Next ==
    \/ Loop
    \/ Dial
    \/ DoLogin
    \/ StreamData \/ StreamEnds
    \/ \E o \in {"ok", "closed", "other"} : SensorsReply(o)
    \/ Unmount
    \/ Environment

Spec == Init /\ [][Next]_vars

\* Timers fire, calls are answered or fail, and a live stream delivers.
FairSpec == Spec /\ WF_vars(Loop) /\ WF_vars(Dial) /\ WF_vars(StreamData)

-----------------------------------------------------------------------------
\* There is never a status stream that the page has lost track of: whatever
\* ends, is cancelled or is reopened, the open streams are what statusStream holds.
NoStrayStream == open = IF statusStream THEN 1 ELSE 0

\* The open stream was opened when the relevant resources were those now shown,
\* although whether to restart it was decided before the call that brought them
\* (queryMetadata; the request itself names none of them).
StreamFollowsResources == statusStream => openedWith = resources \intersect Relevant

\* One connection attempt at a time, and none once the page is connected.
OneDial ==
    /\ dials + (IF retry THEN 1 ELSE 0) <= 1
    /\ connectedOnce => dials = 0 /\ ~retry

\* The banner of a sleeping page goes with a reset stream, so that the next
\* round that reaches the robot opens a new one.
LostMeansReset == pc \in {"sleep", "connect", "reops"} /\ lost => ~statusStream /\ ~resourcesOnce

\* What a page that works looks like: every resource of the robot has its card.
Healthy == ~lost /\ statusStream /\ ShownCards = robot

\* Once connected, the page recovers from every drop, error, silent stream and
\* reconfiguration, as long as they come to an end and the page is not left.
PageRecovers == <>[](connectedOnce /\ mounted => Healthy)

\* Without a login form the page connects by itself.
ConnectsUnattended == ~auth ~> connectedOnce
=============================================================================
