--------------------------- MODULE SessionManager ---------------------------
(***************************************************************************)
(* The server side of robot sessions: the session table and its expiry     *)
(* loop (robot/session_manager.go), a session's deadline                   *)
(* (session/session.go), the interceptor that binds a request to a session *)
(* (robot/session_web.go) and the two session RPCs (robot/server).         *)
(*                                                                         *)
(* sessionResourceMu is one variable.  A critical section that does not    *)
(* block is one step, taken when the lock is free; the expiry loop's       *)
(* writer section calls into components and spans several steps.           *)
(***************************************************************************)
EXTENDS Integers, FiniteSets

CONSTANTS
    Id,           \* session ids a run may use (uuid.New never repeats one)
    Resource,     \* safety monitored resources
    Subject,      \* callers; the unauthenticated "" is one of them
    Request,      \* goroutines that serve RPCs
    Kind,         \* the kinds of request of a run, of AllKinds below
    Nil,          \* uuid.Nil, and every other "none"
    Stopped,      \* a resource that is at rest
    Window,       \* heartbeatWindow, in ticks of the clock
    MaxSessions,  \* maxSessions
    MaxTime,      \* bound on the clock
    StopMayFail   \* whether ResourceByName or Stop may return an error

VARIABLES
    now,                \* time.Now()
    owner, deadline,    \* ownerID and deadline of every Session object made
    sessions,           \* ids in the manager's map
    resourceToSession,  \* last session to use each resource, Nil for none
    mu,                 \* sessionResourceMu: "free", "expire" or "leaked"
    exp,                \* the expiry loop: pc, its now, toDelete, toStop
    req,                \* the requests in flight
    running,            \* the session that set each resource in motion last
    closed,             \* Close was called
    lapsed              \* history: ids whose deadline has passed

manager == <<sessions, resourceToSession, mu>>
objects == <<owner, deadline, lapsed>>
vars == <<now, objects, manager, exp, req, running, closed>>

(***************************************************************************)
(* What a request is for.  "start" is StartSession (its id is the session  *)
(* to resume).  "heartbeat" is SendSessionHeartbeat, and any method that   *)
(* is not monitored.  A "monitored" method names the resource it moves; an *)
(* "indirect" one has a handler that calls SafetyMonitor before it moves   *)
(* the resource; a "remote" one learns from the response headers of the    *)
(* remote robot which resource it moved, and monitors it afterwards.       *)
(***************************************************************************)
AllKinds == {"start", "heartbeat", "monitored", "indirect", "remote"}
ReqPC == {"idle", "find", "beat", "assoc", "monitor", "actuate", "new", "insert"}
ASSUME ConstantsOK ==
    /\ Nil \notin Id \cup Subject \cup Resource
    /\ Stopped \notin Id \cup {Nil}
    /\ Kind \subseteq AllKinds
    /\ Window \in Nat \ {0}
    /\ MaxSessions \in Nat
    /\ MaxTime \in Nat
    /\ StopMayFail \in BOOLEAN

RequestState == [pc: ReqPC, kind: AllKinds, id: Id \cup {Nil},
                 sub: Subject \cup {Nil}, res: Resource \cup {Nil}]
ExpireState == [pc: {"wait", "scan", "gap", "stop"}, at: Nat,
                toDelete: SUBSET Id, toStop: SUBSET Resource]
Idle == [pc |-> "idle", kind |-> "heartbeat", id |-> Nil, sub |-> Nil, res |-> Nil]

Init ==
    /\ now = 0
    /\ owner = [i \in Id |-> Nil]
    /\ deadline = [i \in Id |-> 0]
    /\ lapsed = {}
    /\ sessions = {}
    /\ resourceToSession = [r \in Resource |-> Nil]
    /\ mu = "free"
    /\ exp = [pc |-> "wait", at |-> 0, toDelete |-> {}, toStop |-> {}]
    /\ req = [q \in Request |-> Idle]
    /\ running = [r \in Resource |-> Stopped]
    /\ closed = FALSE

\* The Session objects session.New has made so far.
Made == {i \in Id : owner[i] # Nil}

\* Active: the deadline is strictly after the given time.
Active(i, at) == deadline[i] > at

-----------------------------------------------------------------------------
(* Requests.                                                               *)

Goto(q, pc) == req' = [req EXCEPT ![q].pc = pc]
Return(q) == req' = [req EXCEPT ![q] = Idle]

\* Where a request goes once it is bound to its session, or has none.
AfterBind(q) ==
    CASE req[q].kind = "monitored" -> Goto(q, "assoc")
      [] req[q].kind = "indirect"  -> Goto(q, "monitor")
      [] req[q].kind = "remote"    -> Goto(q, "actuate")
      [] OTHER                     -> Return(q)

\* Where a request starts: without a session there is nothing to look up.
FirstPC(k, i) ==
    CASE i # Nil         -> "find"
      [] i = Nil /\ k = "start"     -> "new"
      [] i = Nil /\ k = "monitored" -> "assoc"
      [] OTHER           -> "actuate"

\* A request arrives; a client only knows ids the server has handed out.
\* A malformed or repeated id is refused by sessionFromMetadata with no effect.
Receive(q) ==
    /\ req[q] = Idle
    /\ \E k \in Kind, i \in Made \cup {Nil}, s \in Subject, r \in Resource :
         /\ k = "heartbeat" => i # Nil
         /\ req' = [req EXCEPT ![q] =
              [kind |-> k, id |-> i, sub |-> s,
               res |-> IF k \in {"start", "heartbeat"} THEN Nil ELSE r,
               pc |-> FirstPC(k, i)]]
    /\ UNCHANGED <<now, objects, manager, exp, running, closed>>

\* FindByID, under the read lock: look the session up and check its owner.
\* StartSession falls through to a new session; the others fail.
FindByID(q) ==
    /\ req[q].pc = "find"
    /\ mu = "free"
    /\ IF req[q].id \in sessions /\ owner[req[q].id] = req[q].sub
       THEN Goto(q, "beat")
       ELSE IF req[q].kind = "start" THEN Goto(q, "new") ELSE Return(q)
    /\ UNCHANGED <<now, objects, manager, exp, running, closed>>

\* The heartbeat at the end of FindByID, after the read lock is released.
Heartbeat(q) ==
    /\ req[q].pc = "beat"
    /\ deadline' = [deadline EXCEPT ![req[q].id] = now + Window]
    /\ AfterBind(q)
    /\ UNCHANGED <<now, owner, lapsed, manager, exp, running, closed>>

\* AssociateResource; a request without a session disassociates.
AssociateResource(q) ==
    /\ req[q].pc = "assoc"
    /\ mu = "free"
    /\ resourceToSession' = [resourceToSession EXCEPT ![req[q].res] = req[q].id]
    /\ IF req[q].kind = "remote" THEN Return(q) ELSE Goto(q, "actuate")
    /\ UNCHANGED <<now, objects, sessions, mu, exp, running, closed>>

\* associateWith: associate only if the session is active at this moment.
AssociateWith(q) ==
    /\ req[q].pc = "monitor"
    /\ CASE Active(req[q].id, now)     -> Goto(q, "assoc")
         [] req[q].kind = "indirect"   -> Goto(q, "actuate")
         [] OTHER                      -> Return(q)
    /\ UNCHANGED <<now, objects, manager, exp, running, closed>>

\* The handler sets the resource in motion.
Actuate(q) ==
    /\ req[q].pc = "actuate"
    /\ running' = [running EXCEPT ![req[q].res] = req[q].id]
    /\ IF req[q].kind = "remote" /\ req[q].id # Nil
       THEN Goto(q, "monitor") ELSE Return(q)
    /\ UNCHANGED <<now, objects, manager, exp, closed>>

\* Start makes the Session, and its deadline, before it asks for the lock.
NewSession(q) ==
    /\ req[q].pc = "new"
    /\ \E i \in Id \ Made :
         /\ owner' = [owner EXCEPT ![i] = req[q].sub]
         /\ deadline' = [deadline EXCEPT ![i] = now + Window]
         /\ req' = [req EXCEPT ![q] = [@ EXCEPT !.pc = "insert", !.id = i]]
    /\ UNCHANGED <<now, lapsed, manager, exp, running, closed>>

\* Start under the lock.  The "too many" return does not release it.
Start(q) ==
    /\ req[q].pc = "insert"
    /\ mu = "free"
    /\ IF Cardinality(sessions) > MaxSessions
       THEN mu' = "leaked" /\ UNCHANGED sessions
       ELSE sessions' = sessions \cup {req[q].id} /\ UNCHANGED mu
    /\ Return(q)
    /\ UNCHANGED <<now, objects, resourceToSession, exp, running, closed>>

-----------------------------------------------------------------------------
(* The expiry loop.                                                        *)

\* The ticker fires and the loop reads the clock.
ExpireTick ==
    /\ exp.pc = "wait" /\ ~closed
    /\ exp' = [exp EXCEPT !.pc = "scan", !.at = now]
    /\ UNCHANGED <<now, objects, manager, req, running, closed>>

\* Mutant: the resources are collected before the lapsed sessions are known.
ExpireScanResourcesFirst ==
    /\ exp.pc = "scan"
    /\ mu = "free"
    /\ exp' = [exp EXCEPT !.pc = "gap", !.at = 0, !.toStop = {},
                 !.toDelete = {i \in sessions : ~Active(i, exp.at)}]
    /\ UNCHANGED <<now, objects, manager, req, running, closed>>

\* Under the read lock: which sessions lapsed, which resources are theirs.
ExpireScan ==
    /\ exp.pc = "scan"
    /\ mu = "free"
    /\ LET dead == {i \in sessions : ~Active(i, exp.at)} IN
       exp' = [exp EXCEPT !.pc = "gap", !.at = 0, !.toDelete = dead,
                 !.toStop = {r \in Resource : resourceToSession[r] \in dead}]
    /\ UNCHANGED <<now, objects, manager, req, running, closed>>

\* Under the write lock: forget the sessions; keep the lock while stopping.
ExpireDelete ==
    /\ exp.pc = "gap"
    /\ mu = "free"
    /\ sessions' = sessions \ exp.toDelete
    /\ mu' = "expire"
    /\ exp' = [exp EXCEPT !.pc = "stop"]
    /\ UNCHANGED <<now, objects, resourceToSession, req, running, closed>>

\* Stop one resource.  An error, or a panic, is logged and not retried.
ExpireStop(r) ==
    /\ exp.pc = "stop"
    /\ r \in exp.toStop
    /\ exp' = [exp EXCEPT !.toStop = @ \ {r}]
    /\ \/ running' = [running EXCEPT ![r] = Stopped]
       \/ StopMayFail /\ UNCHANGED running
    /\ UNCHANGED <<now, objects, manager, req, closed>>

\* Mutant: the sweep ends without its unlock.
ExpireNoUnlock ==
    /\ exp.pc = "stop"
    /\ exp.toStop = {}
    /\ exp' = [exp EXCEPT !.pc = "wait", !.toDelete = {}]
    /\ UNCHANGED <<now, objects, manager, req, running, closed>>

\* The deferred unlock.
ExpireUnlock ==
    /\ exp.pc = "stop"
    /\ exp.toStop = {}
    /\ mu' = "free"
    /\ exp' = [exp EXCEPT !.pc = "wait", !.toDelete = {}]
    /\ UNCHANGED <<now, objects, sessions, resourceToSession, req, running, closed>>

\* Close cancels the loop, which leaves at its next select.
Close ==
    /\ ~closed
    /\ closed' = TRUE
    /\ UNCHANGED <<now, objects, manager, exp, req, running>>

\* Time passes.
Tick ==
    /\ now < MaxTime
    /\ now' = now + 1
    /\ lapsed' = lapsed \cup {i \in Made : deadline[i] <= now'}
    /\ UNCHANGED <<owner, deadline, manager, exp, req, running, closed>>

ServeStep(q) ==
    \/ FindByID(q) \/ Heartbeat(q) \/ AssociateResource(q) \/ AssociateWith(q)
    \/ Actuate(q) \/ NewSession(q) \/ Start(q)

Expire ==
    \/ ExpireTick \/ ExpireScan \/ ExpireDelete \/ ExpireUnlock
    \/ \E r \in Resource : ExpireStop(r)

Next ==
    \/ \E q \in Request : Receive(q) \/ ServeStep(q)
    \/ Expire
    \/ Close
    \/ Tick

Spec == Init /\ [][Next]_vars

\* The scheduler runs every goroutine that can run, a Stop call returns, and a
\* goroutine that waits for a Go mutex is handed it in the end (the runtime's
\* starvation mode), although others may take it in between.
FairSpec == Spec /\ WF_vars(Expire) /\ \A q \in Request : SF_vars(ServeStep(q))

-----------------------------------------------------------------------------
(* Properties.                                                             *)

\* Every variable keeps its type.
TypeOK ==
    /\ now \in Nat
    /\ owner \in [Id -> Subject \cup {Nil}]
    /\ deadline \in [Id -> Nat]
    /\ lapsed \subseteq Id
    /\ sessions \subseteq Made
    /\ resourceToSession \in [Resource -> Id \cup {Nil}]
    /\ mu \in {"free", "expire", "leaked"}
    /\ exp \in ExpireState
    /\ req \in [Request -> RequestState]
    /\ running \in [Resource -> Id \cup {Nil, Stopped}]
    /\ closed \in BOOLEAN

\* A client that heartbeats within the window keeps its session: the expiry
\* loop, whose clock reading, scan and delete are three separate steps,
\* removes a session only if the session's deadline really passed.
OnlyLapsedExpire == [][sessions \ sessions' \subseteq lapsed]_vars

\* While the expiry loop stops the resources of dead sessions no request can
\* associate a resource or start a session: a request that comes during the
\* sweep is ordered after all of its Stop calls.
SweepIsExclusive ==
    [][exp.pc = "stop" => UNCHANGED <<sessions, resourceToSession>>]_vars

\* A request that goes on with a session after FindByID has the session's own
\* subject, also when the session is deleted under it: nobody heartbeats, or
\* moves a resource in the name of, a session of somebody else.
OwnSession ==
    \A q \in Request :
        req[q].pc \in {"beat", "assoc", "monitor", "actuate", "insert"} /\ req[q].id # Nil
            => owner[req[q].id] = req[q].sub

\* The table holds at most one session more than maxSessions, whatever Starts
\* race: the size is compared under the lock, with ">".
SessionBound == Cardinality(sessions) <= MaxSessions + 1

\* A resource of a lapsed session that is left to itself: no late heartbeat,
\* nobody else uses it, and the manager is not closed.
LeftRunning(i, r) ==
    running[r] = i /\ resourceToSession[r] = i /\ ~Active(i, now) /\ ~closed

\* A resource whose session has lapsed is sent a Stop, unless somebody takes care
\* of it.  (A session the loop has already picked for deletion is another matter.)
LapsedIsStopped ==
    \A i \in Id, r \in Resource :
        (i \in sessions \ exp.toDelete /\ ~Active(i, now) /\ resourceToSession[r] = i)
            ~> (exp.pc = "stop" /\ r \in exp.toStop) \/ ~LeftRunning(i, r)

\* The same for as long as no Start that was refused has kept the lock: the
\* expiry loop gets the lock from any traffic of requests, scans, and sweeps.
LapsedIsStoppedUnlessLeaked ==
    \A i \in Id, r \in Resource :
        (i \in sessions \ exp.toDelete /\ ~Active(i, now) /\ resourceToSession[r] = i)
            ~> (exp.pc = "stop" /\ r \in exp.toStop) \/ ~LeftRunning(i, r) \/ mu = "leaked"

\* Every request that waits for the lock is served in the end, unless the lock
\* leaked.  (A request for a new session waits for ever once a run's supply of
\* ids is used up.)
RequestsReturn ==
    \A q \in Request :
        req[q].pc \notin {"idle", "new"} ~> req[q].pc \in {"idle", "new"} \/ mu = "leaked"
=============================================================================
