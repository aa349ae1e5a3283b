---------------------------- MODULE ServerProofs ----------------------------
(***************************************************************************)
(* Proofs about what the robot's server keeps of its clients: sessions     *)
(* (SessionManager), for any sets of ids, resources, subjects and requests *)
(* and any window, limit and clock bound; the operation of a component     *)
(* (SingleOperation), for every set of calls and contexts; and the table   *)
(* of operations (OperationTable), for any number of RPCs and ids.         *)
(*                                                                         *)
(* OneLive and CurrentIsLive are inductive together, once it is known      *)
(* which methods reach which steps (Places) and that a call that has not   *)
(* registered its operation yet has not been displaced either (Fresh).     *)
(***************************************************************************)
EXTENDS SessionManager, SingleOperation, OperationTable, FiniteSetTheorems, TLAPS

-----------------------------------------------------------------------------
(* Sessions. *)

\* The clock facts: what the loop read is not in the future, a Session whose
\* deadline is not in the future has lapsed, and so have those to be deleted.
ClockInv ==
    /\ exp.at <= now
    /\ \A i \in Made : deadline[i] <= now => i \in lapsed
    /\ exp.toDelete \subseteq lapsed

\* The write lock is the expiry loop's exactly while it stops resources.
LockInv == exp.pc = "stop" <=> mu = "expire"

\* A request that is being served knows its caller, and its resource.
ServedInv ==
    \A q \in Request :
        /\ req[q].pc # "idle" => req[q].sub \in Subject
        /\ req[q].pc \in {"find", "beat", "monitor", "insert"} => req[q].id \in Id
        /\ req[q].pc \in {"assoc", "monitor", "actuate"} => req[q].res \in Resource
        /\ req[q].pc = "beat" /\ req[q].kind \in {"monitored", "indirect", "remote"}
             => req[q].res \in Resource
        /\ req[q].pc = "find" /\ req[q].kind \in {"monitored", "indirect", "remote"}
             => req[q].res \in Resource

IInv == TypeOK /\ ClockInv /\ LockInv /\ ServedInv /\ OwnSession

\* The empty table, before any request, satisfies the invariant.
LEMMA InitIInv == Init => IInv
<1> SUFFICES ASSUME Init PROVE IInv
  OBVIOUS
<1> USE ConstantsOK DEF Init, Idle
<1>1. TypeOK
  <2>1. exp \in ExpireState
    BY DEF ExpireState
  <2>2. req \in [Request -> RequestState]
    BY DEF RequestState, ReqPC, AllKinds
  <2> QED
    BY <2>1, <2>2, Zenon DEF TypeOK, Made
<1>2. ClockInv
  BY DEF ClockInv, Made
<1>3. LockInv /\ ServedInv /\ OwnSession
  BY DEF LockInv, ServedInv, OwnSession
<1> QED
  BY <1>1, <1>2, <1>3 DEF IInv

\* Moving a request to "insert" with a new id keeps its type and its caller.
LEMMA RequestUpdate ==
    ASSUME NEW x \in RequestState, NEW i \in Id
    PROVE  LET y == [x EXCEPT !.pc = "insert", !.id = i]
           IN  y \in RequestState /\ y.pc = "insert" /\ y.id = i /\ y.sub = x.sub
BY Zenon DEF RequestState, ReqPC

\* The lemma that carries all the theorems: every step preserves IInv.
LEMMA NextIInv == IInv /\ [Next]_vars => IInv'
<1> SUFFICES ASSUME IInv, [Next]_vars PROVE IInv'
  BY SMTT(30)
<1> USE ConstantsOK DEF IInv, TypeOK, ClockInv, LockInv, ServedInv, OwnSession,
    Made, ExpireState, RequestState, Idle, ReqPC, AllKinds, objects, manager,
    Goto, Return, AfterBind, Active
<1>1. ASSUME NEW q \in Request, Receive(q) PROVE IInv'
  <2>1. PICK k \in Kind, i \in Made \cup {Nil}, s \in Subject, r \in Resource :
          /\ k = "heartbeat" => i # Nil
          /\ req' = [req EXCEPT ![q] =
               [kind |-> k, id |-> i, sub |-> s,
                res |-> IF k \in {"start", "heartbeat"} THEN Nil ELSE r,
                pc |-> FirstPC(k, i)]]
    BY <1>1, Zenon DEF Receive
  <2>f. /\ FirstPC(k, i) \in {"find", "new", "assoc", "actuate"}
        /\ FirstPC(k, i) = "find" => i # Nil
        /\ FirstPC(k, i) \in {"assoc", "actuate"} => i = Nil /\ k \notin {"start", "heartbeat"}
    BY <2>1 DEF FirstPC
  <2> DEFINE new == req'[q]
  <2>2. /\ new.kind = k /\ new.id = i /\ new.sub = s
        /\ new.res = IF k \in {"start", "heartbeat"} THEN Nil ELSE r
        /\ new.pc = FirstPC(k, i)
        /\ new \in RequestState
    BY <2>1, <2>f
  <2>3. \A p \in Request \ {q} : req'[p] = req[p]
    BY <2>1
  <2>4. req' \in [Request -> RequestState]
    BY <2>1, <2>2
  <2>5. ServedInv'
    BY <2>2, <2>3, <2>f
  <2>6. OwnSession'
    BY <1>1, <2>2, <2>3, <2>f DEF Receive
  <2> QED
    BY <1>1, <2>4, <2>5, <2>6, SMTT(30) DEF Receive
<1>2. ASSUME NEW q \in Request, FindByID(q) PROVE IInv'
  BY <1>2 DEF FindByID
<1>3. ASSUME NEW q \in Request, Heartbeat(q) PROVE IInv'
  BY <1>3, SMTT(30) DEF Heartbeat
<1>4. ASSUME NEW q \in Request, AssociateResource(q) PROVE IInv'
  BY <1>4, SMTT(30) DEF AssociateResource
<1>5. ASSUME NEW q \in Request, AssociateWith(q) PROVE IInv'
  <2>1. \/ Goto(q, "assoc") \/ Return(q) \/ Goto(q, "actuate")
    BY <1>5 DEF AssociateWith
  <2> QED
    BY <1>5, <2>1, SMTT(30) DEF AssociateWith
<1>6. ASSUME NEW q \in Request, Actuate(q) PROVE IInv'
  BY <1>6, SMTT(30) DEF Actuate
<1>7. ASSUME NEW q \in Request, NewSession(q) PROVE IInv'
  <2>1. PICK i \in Id \ Made :
          /\ owner' = [owner EXCEPT ![i] = req[q].sub]
          /\ deadline' = [deadline EXCEPT ![i] = now + Window]
          /\ req' = [req EXCEPT ![q] = [@ EXCEPT !.pc = "insert", !.id = i]]
    BY <1>7, ZenonT(30) DEF NewSession
  <2> DEFINE new == [req[q] EXCEPT !.pc = "insert", !.id = i]
  <2>a. /\ new \in RequestState
        /\ new.pc = "insert" /\ new.id = i /\ new.sub = req[q].sub
    <3>1. req[q] \in RequestState /\ i \in Id
      OBVIOUS
    <3> QED
      BY ZenonT(30), <3>1, RequestUpdate
  <2>b. req' = [req EXCEPT ![q] = new]
    BY SMTT(30), <2>1
  <2> HIDE DEF new
  <2>2. /\ req'[q].pc = "insert" /\ req'[q].id = i /\ req'[q].sub = req[q].sub
        /\ req' \in [Request -> RequestState]
        /\ \A p \in Request \ {q} : req'[p] = req[p]
    BY <2>a, <2>b
  <2>3. req[q].sub \in Subject
    BY <1>7 DEF NewSession
  <2>4. Made' = Made \cup {i} /\ \A j \in Made : owner'[j] = owner[j] /\ deadline'[j] = deadline[j]
    BY SMTT(30), <2>1, <2>3
  <2>5. TypeOK'
    BY <1>7, <2>1, <2>2, <2>3, <2>4 DEF NewSession
  <2>6. ClockInv'
    BY <1>7, <2>1, <2>4 DEF NewSession
  <2>7. ServedInv' /\ LockInv'
    BY <1>7, <2>2, <2>3, SMTT(30) DEF NewSession
  <2>8. ASSUME NEW p \in Request \ {q},
               req[p].pc \in {"beat", "assoc", "monitor", "actuate", "insert"}, req[p].id # Nil
        PROVE  owner'[req[p].id] = req[p].sub
    <3>1. req[p].id \in Made
      BY <2>8
    <3> QED
      BY SMTT(30), <2>4, <2>8, <3>1
  <2>9. OwnSession'
    BY SMTT(30), <2>1, <2>2, <2>8
  <2> QED
    BY SMTT(30), <2>5, <2>6, <2>7, <2>9
<1>8. ASSUME NEW q \in Request, Start(q) PROVE IInv'
  BY <1>8 DEF Start
<1>9. CASE ExpireTick
  <2>1. exp' \in ExpireState /\ exp'.at = now /\ exp'.pc = "scan"
        /\ exp'.toDelete = exp.toDelete
    BY <1>9, Zenon DEF ExpireTick
  <2> QED
    BY <1>9, <2>1 DEF ExpireTick
<1>10. CASE ExpireScan
  <2> DEFINE dead == {i \in sessions : ~Active(i, exp.at)}
             hers == {r \in Resource : resourceToSession[r] \in dead}
  <2>1. exp' = [exp EXCEPT !.pc = "gap", !.at = 0, !.toDelete = dead, !.toStop = hers]
    BY <1>10 DEF ExpireScan
  <2>2. dead \subseteq lapsed /\ dead \subseteq Id /\ hers \subseteq Resource
    OBVIOUS
  <2> HIDE DEF dead, hers
  <2>3. exp' \in ExpireState /\ exp'.at = 0 /\ exp'.pc = "gap" /\ exp'.toDelete = dead
    BY ZenonT(30), <2>1, <2>2
  <2>4. ClockInv'
    <3>1. UNCHANGED <<now, owner, deadline, lapsed>>
      BY <1>10 DEF ExpireScan
    <3>2. exp'.at <= now'
      BY <2>3, <3>1
    <3>3. \A i \in Made' : deadline'[i] <= now' => i \in lapsed'
      BY <3>1
    <3> QED
      BY <2>2, <2>3, <3>1, <3>2, <3>3
  <2>5. TypeOK' /\ LockInv'
    BY <1>10, <2>3, Zenon DEF ExpireScan
  <2>6. ServedInv' /\ OwnSession'
    BY <1>10 DEF ExpireScan
  <2> QED
    BY <2>4, <2>5, <2>6
<1>11. CASE ExpireDelete
  BY <1>11 DEF ExpireDelete
<1>12. ASSUME NEW r \in Resource, ExpireStop(r) PROVE IInv'
  BY <1>12 DEF ExpireStop
<1>13. CASE ExpireUnlock
  BY <1>13, Zenon DEF ExpireUnlock
<1>14. CASE Close
  BY <1>14 DEF Close
<1>15. CASE Tick
  BY <1>15, SMTT(30) DEF Tick
<1>16. CASE UNCHANGED vars
  BY <1>16 DEF vars
<1> QED
  BY ZenonT(30), <1>1, <1>2, <1>3, <1>4, <1>5, <1>6, <1>7, <1>8, <1>9, <1>10, <1>11, <1>12,
     <1>13, <1>14, <1>15, <1>16 DEF Next, ServeStep, Expire

-----------------------------------------------------------------------------

\* Every variable of the session manager keeps its type.
THEOREM TypeCorrect == Spec => []TypeOK
<1>1. IInv => TypeOK
  BY DEF IInv
<1> QED
  BY <1>1, InitIInv, NextIInv, PTL DEF Spec

\* A request only ever goes on with a session its own caller started.
THEOREM OwnSessionHolds == Spec => []OwnSession
<1>1. IInv => OwnSession
  BY DEF IInv
<1> QED
  BY <1>1, InitIInv, NextIInv, PTL DEF Spec

\* Only ExpireDelete takes sessions away, and only lapsed ones.
LEMMA ExpireStepLapsed == IInv /\ [Next]_vars => [sessions \ sessions' \subseteq lapsed]_vars
<1> SUFFICES ASSUME IInv, Next PROVE sessions \ sessions' \subseteq lapsed
  OBVIOUS
<1>1. CASE ExpireDelete
  BY <1>1 DEF ExpireDelete, IInv, ClockInv
<1>2. CASE ~ExpireDelete
  <2>1. sessions \subseteq sessions'
    BY <1>2, ZenonT(30) DEF Next, ServeStep, Expire, Receive, FindByID, Heartbeat, AssociateResource,
       AssociateWith, Actuate, NewSession, Start, ExpireTick, ExpireScan, ExpireStop,
       ExpireUnlock, Close, Tick, manager
  <2> QED
    BY SMTT(30), <2>1
<1> QED
  BY <1>1, <1>2

\* The expiry loop deletes a session only after its deadline has passed,
\* however its clock reading, scan and delete interleave with heartbeats.
THEOREM OnlyLapsedExpireHolds == Spec => OnlyLapsedExpire
BY InitIInv, NextIInv, ExpireStepLapsed, PTL DEF Spec, OnlyLapsedExpire

\* No step changes the table or an association while the loop is stopping.
LEMMA SweepStep ==
    IInv /\ [Next]_vars => [exp.pc = "stop" => UNCHANGED <<sessions, resourceToSession>>]_vars
<1> SUFFICES ASSUME IInv, Next, exp.pc = "stop"
             PROVE UNCHANGED <<sessions, resourceToSession>>
  OBVIOUS
<1>1. mu = "expire"
  BY DEF IInv, LockInv
<1> QED
  BY <1>1, Zenon DEF Next, ServeStep, Expire, Receive, FindByID, Heartbeat, AssociateResource,
     AssociateWith, Actuate, NewSession, Start, ExpireTick, ExpireScan, ExpireDelete,
     ExpireStop, ExpireUnlock, Close, Tick, manager

\* Associations and new sessions are ordered before or after a whole sweep.
THEOREM SweepIsExclusiveHolds == Spec => SweepIsExclusive
BY InitIInv, NextIInv, SweepStep, PTL DEF Spec, SweepIsExclusive

\* The size of the table, with the finiteness that makes it a number.
BoundInv == IsFiniteSet(sessions) /\ SessionBound

\* The table never exceeds maxSessions by more than one, however Starts race.
THEOREM SessionBoundHolds == Spec => []SessionBound
<1>1. Init => BoundInv
  BY FS_EmptySet, ConstantsOK, SMTT(30) DEF Init, BoundInv, SessionBound
<1>2. BoundInv /\ [Next]_vars => BoundInv'
  <2> SUFFICES ASSUME BoundInv, [Next]_vars PROVE BoundInv'
    OBVIOUS
  <2>0. Cardinality(sessions) \in Nat
    BY FS_CardinalityType DEF BoundInv
  <2>1. ASSUME NEW q \in Request, Start(q) PROVE BoundInv'
    <3>1. CASE Cardinality(sessions) > MaxSessions
      BY <2>1, <3>1 DEF Start, BoundInv, SessionBound
    <3>2. CASE ~(Cardinality(sessions) > MaxSessions)
      <4>1. sessions' = sessions \cup {req[q].id}
        BY <2>1, <3>2 DEF Start
      <4>2. /\ IsFiniteSet(sessions')
            /\ \/ Cardinality(sessions') = Cardinality(sessions)
               \/ Cardinality(sessions') = Cardinality(sessions) + 1
        BY <4>1, FS_AddElement DEF BoundInv
      <4> QED
        BY <2>0, <3>2, <4>2, ConstantsOK DEF BoundInv, SessionBound
    <3> QED
      BY SMTT(30), <3>1, <3>2
  <2>2. CASE ExpireDelete
    <3>1. sessions' \subseteq sessions
      BY <2>2 DEF ExpireDelete
    <3>2. IsFiniteSet(sessions') /\ Cardinality(sessions') <= Cardinality(sessions)
          /\ Cardinality(sessions') \in Nat
      BY <3>1, FS_Subset, FS_CardinalityType DEF BoundInv
    <3> QED
      BY <2>0, <3>2, ConstantsOK DEF BoundInv, SessionBound
  <2>3. CASE UNCHANGED sessions
    BY <2>3 DEF BoundInv, SessionBound
  <2> QED
    BY <2>1, <2>2, <2>3, ZenonT(30) DEF Next, ServeStep, Expire, Receive, FindByID, Heartbeat,
       AssociateResource, AssociateWith, Actuate, NewSession, ExpireTick, ExpireScan,
       ExpireStop, ExpireUnlock, Close, Tick, manager, vars
<1>3. BoundInv => SessionBound
  BY DEF BoundInv
<1> QED
  BY <1>1, <1>2, <1>3, PTL DEF Spec

-----------------------------------------------------------------------------
(* One operation per component. *)

\* Where the methods are: only SetPower runs "cancel" and "power", only a GoTo
\* outside every operation runs the finish of the wait.
Places ==
    \A c \in Call :
       /\ pc[c] \in {"cancel", "power"} => kind[c] = "SetPower"
       /\ pc[c] \notin {"idle", "cancel", "power"} => kind[c] \in {"GoFor", "GoTo"}
       /\ pc[c] = "innerFinish" => kind[c] = "GoTo" /\ c \notin Foreign

\* A call that has not registered an operation has not been displaced.
Fresh ==
    \A c \in Call :
       \/ pc[c] \in {"idle", "new"}
       \/ pc[c] = "command" /\ kind[c] = "GoTo"
       \/ kind[c] = "SetPower"
       => displaced[c] = "no"

SingleIInv == SingleTypeOK /\ Places /\ Fresh /\ OneLive /\ CurrentIsLive

\* No operation is registered at the start.
LEMMA SingleInitIInv == SingleInit => SingleIInv
  <1> SUFFICES ASSUME SingleInit PROVE SingleIInv
      OBVIOUS
  <1>1. SingleTypeOK
      BY SingleConstantsOK DEF SingleInit, SingleTypeOK, PC, ErrValue
  <1>2. Places /\ Fresh /\ OneLive /\ CurrentIsLive
      BY DEF SingleInit, Places, Fresh, OneLive, CurrentIsLive, Registered
  <1> QED BY <1>1, <1>2 DEF SingleIInv

\* Every step preserves the invariant.
LEMMA SingleNextIInv == SingleIInv /\ [SingleNext]_singleVars => SingleIInv'
  <1> SUFFICES ASSUME SingleIInv, [SingleNext]_singleVars PROVE SingleIInv'
      OBVIOUS
  <1> USE SingleConstantsOK
  <1>new. ASSUME NEW c \in Call, New(c) PROVE SingleIInv'
    <2>1. SingleTypeOK'
        BY <1>new DEF New, cancelInLock, FirstErr, SingleIInv, SingleTypeOK, PC, ErrValue
    <2>2. Places' /\ Fresh'
        BY <1>new DEF New, cancelInLock, SingleIInv, SingleTypeOK, PC, Places, Fresh, CurrentIsLive, Registered
    <2>3. OneLive'
        BY <1>new DEF New, cancelInLock, SingleIInv, SingleTypeOK, PC, Places, Fresh, OneLive, CurrentIsLive, Registered
    <2>4. CurrentIsLive'
        BY <1>new DEF New, cancelInLock, SingleIInv, SingleTypeOK, PC, Places, Fresh, OneLive, CurrentIsLive, Registered
    <2> QED BY <2>1, <2>2, <2>3, <2>4 DEF SingleIInv
  <1>cancel. ASSUME NEW c \in Call, CancelRunning(c) PROVE SingleIInv'
    <2>1. SingleTypeOK'
        BY <1>cancel DEF CancelRunning, cancelInLock, FirstErr, SingleIInv, SingleTypeOK, PC, ErrValue
    <2>2. Places' /\ Fresh'
        BY <1>cancel DEF CancelRunning, cancelInLock, SingleIInv, SingleTypeOK, PC, Places, Fresh, CurrentIsLive, Registered
    <2>3. OneLive'
        BY <1>cancel DEF CancelRunning, cancelInLock, SingleIInv, SingleTypeOK, PC, Places, OneLive, CurrentIsLive, Registered
    <2>4. CurrentIsLive'
        BY <1>cancel DEF CancelRunning, cancelInLock, SingleIInv, SingleTypeOK, PC, Places, CurrentIsLive, Registered
    <2> QED BY <2>1, <2>2, <2>3, <2>4 DEF SingleIInv
  <1>inner. ASSUME NEW c \in Call, FinishInner(c) PROVE SingleIInv'
    <2>1. SingleTypeOK'
        BY <1>inner DEF FinishInner, finish, SingleIInv, SingleTypeOK, PC
    <2>2. Places' /\ Fresh' /\ OneLive' /\ CurrentIsLive'
        BY <1>inner DEF FinishInner, finish, SingleIInv, SingleTypeOK, PC, Places, Fresh, OneLive, CurrentIsLive, Registered
    <2> QED BY <2>1, <2>2 DEF SingleIInv
  <1>outer. ASSUME NEW c \in Call, FinishOuter(c) PROVE SingleIInv'
    <2>1. SingleTypeOK'
        BY <1>outer DEF FinishOuter, finish, SingleIInv, SingleTypeOK, PC, ErrValue
    <2>2. Places' /\ Fresh' /\ OneLive' /\ CurrentIsLive'
        BY <1>outer DEF FinishOuter, finish, SingleIInv, SingleTypeOK, PC, Places, Fresh, OneLive, CurrentIsLive, Registered
    <2> QED BY <2>1, <2>2 DEF SingleIInv
  <1>poll. ASSUME NEW c \in Call, Poll(c) PROVE SingleIInv'
    <2>1. SingleTypeOK'
        BY <1>poll DEF Poll, AfterLoop, SingleIInv, SingleTypeOK, PC
    <2>2. Places' /\ Fresh' /\ OneLive' /\ CurrentIsLive'
        BY <1>poll DEF Poll, AfterLoop, HasOp, SingleIInv, SingleTypeOK, PC, Places, Fresh, OneLive, CurrentIsLive, Registered
    <2> QED BY <2>1, <2>2 DEF SingleIInv
  <1>sleep. ASSUME NEW c \in Call, Sleep(c) PROVE SingleIInv'
    <2>1. SingleTypeOK'
        BY <1>sleep DEF Sleep, AfterLoop, SingleIInv, SingleTypeOK, PC
    <2>2. Places' /\ Fresh' /\ OneLive' /\ CurrentIsLive'
        BY <1>sleep DEF Sleep, AfterLoop, HasOp, SingleIInv, SingleTypeOK, PC, Places, Fresh, OneLive, CurrentIsLive, Registered
    <2> QED BY <2>1, <2>2 DEF SingleIInv
  <1>deferred. ASSUME NEW c \in Call, Deferred(c) PROVE SingleIInv'
    <2>1. SingleTypeOK'
        BY <1>deferred, Zenon DEF Deferred, SingleIInv, SingleTypeOK, PC
    <2>2. Places' /\ Fresh' /\ OneLive' /\ CurrentIsLive'
        BY <1>deferred DEF Deferred, SingleIInv, SingleTypeOK, PC, Places, Fresh, OneLive, CurrentIsLive, Registered
    <2> QED BY <2>1, <2>2 DEF SingleIInv
  <1>recheck. ASSUME NEW c \in Call, Recheck(c) PROVE SingleIInv'
    <2>1. SingleTypeOK'
        BY <1>recheck DEF Recheck, SingleIInv, SingleTypeOK, PC
    <2>2. Places' /\ Fresh' /\ OneLive' /\ CurrentIsLive'
        BY <1>recheck DEF Recheck, SingleIInv, SingleTypeOK, PC, Places, Fresh, OneLive, CurrentIsLive, Registered
    <2> QED BY <2>1, <2>2 DEF SingleIInv
  <1>stop. ASSUME NEW c \in Call, StopWrite(c) PROVE SingleIInv'
    <2>1. SingleTypeOK'
        BY <1>stop DEF StopWrite, SingleIInv, SingleTypeOK, PC
    <2>2. Places' /\ Fresh' /\ OneLive' /\ CurrentIsLive'
        BY <1>stop DEF StopWrite, SingleIInv, SingleTypeOK, PC, Places, Fresh, OneLive, CurrentIsLive, Registered
    <2> QED BY <2>1, <2>2 DEF SingleIInv
  <1>command. ASSUME NEW c \in Call, Command(c) PROVE SingleIInv'
    <2>1. SingleTypeOK'
        BY <1>command DEF Command, SingleIInv, SingleTypeOK, PC
    <2>2. Places' /\ Fresh' /\ OneLive' /\ CurrentIsLive'
        BY <1>command DEF Command, SingleIInv, SingleTypeOK, PC, Places, Fresh, OneLive, CurrentIsLive, Registered
    <2> QED BY <2>1, <2>2 DEF SingleIInv
  <1>power. ASSUME NEW c \in Call, Power(c) PROVE SingleIInv'
    <2>1. SingleTypeOK'
        BY <1>power DEF Power, SingleIInv, SingleTypeOK, PC
    <2>2. Places' /\ Fresh' /\ OneLive' /\ CurrentIsLive'
        BY <1>power DEF Power, SingleIInv, SingleTypeOK, PC, Places, Fresh, OneLive, CurrentIsLive, Registered
    <2> QED BY <2>1, <2>2 DEF SingleIInv
  <1>issue. ASSUME NEW c \in Call, NEW k \in Method, Issue(c, k) PROVE SingleIInv'
    <2>1. SingleTypeOK'
        BY <1>issue DEF Issue, SingleIInv, SingleTypeOK, PC
    <2>2. Places' /\ Fresh' /\ OneLive' /\ CurrentIsLive'
        BY <1>issue DEF Issue, SingleIInv, SingleTypeOK, PC, Places, Fresh, OneLive, CurrentIsLive, Registered
    <2> QED BY <2>1, <2>2 DEF SingleIInv
  <1>ends. ASSUME NEW c \in Call, NEW e \in CtxError, ContextEnds(c, e) PROVE SingleIInv'
    <2>1. SingleTypeOK'
        BY <1>ends DEF ContextEnds, FirstErr, SingleIInv, SingleTypeOK, PC, ErrValue
    <2>2. Places' /\ Fresh' /\ OneLive' /\ CurrentIsLive'
        BY <1>ends DEF ContextEnds, SingleIInv, Places, Fresh, OneLive, CurrentIsLive, Registered
    <2> QED BY <2>1, <2>2 DEF SingleIInv
  <1>dose. CASE DoseDone
      BY <1>dose DEF DoseDone, SingleIInv, SingleTypeOK, Places, Fresh, OneLive, CurrentIsLive, Registered
  <1>same. CASE UNCHANGED singleVars
      BY <1>same DEF singleVars, SingleIInv, SingleTypeOK, Places, Fresh, OneLive, CurrentIsLive, Registered
  <1> QED
      BY <1>new, <1>cancel, <1>inner, <1>outer, <1>poll, <1>sleep, <1>deferred,
         <1>recheck, <1>stop, <1>command, <1>power, <1>issue, <1>ends, <1>dose,
         <1>same DEF SingleNext, Step

\* The invariant holds in every reachable state.
THEOREM Invariance == SingleSpec => []SingleIInv
  BY SingleInitIInv, SingleNextIInv, PTL DEF SingleSpec

\* Every variable of the manager, the pump and the calls keeps its type.
THEOREM SingleTypeCorrect == SingleSpec => []SingleTypeOK
  <1>1. SingleIInv => SingleTypeOK
      BY DEF SingleIInv
  <1> QED BY <1>1, Invariance, PTL

\* SingleOperationManager keeps at most one operation live, however many calls
\* register, cancel and finish in whatever order.
THEOREM OneLiveHolds == SingleSpec => []OneLive
  <1>1. SingleIInv => OneLive
      BY DEF SingleIInv
  <1> QED BY <1>1, Invariance, PTL

\* What OpRunning reports is an operation that a call is inside of and that
\* nothing has displaced: no finish and no cancellation leaves one behind.
THEOREM CurrentIsLiveHolds == SingleSpec => []CurrentIsLive
  <1>1. SingleIInv => CurrentIsLive
      BY DEF SingleIInv
  <1> QED BY <1>1, Invariance, PTL

\* The step condition of OnlyOutsidersDisplace, for the calls c and d.
DisplacedBy(c, d) ==
    /\ d \in Call \ (Foreign \union {c})
    /\ pc[d] \in {"new", "cancel", "stopCancel"}
    /\ pc'[d] # pc[d]
    /\ pc[d] = "stopCancel" => kind[d] = "GoTo"

\* Operations are displaced by calls outside every operation only: a call
\* nested in this manager's or in another's operation never cancels one.
THEOREM OnlyOutsidersDisplaceHolds == SingleSpec => OnlyOutsidersDisplace
  <1>1. ASSUME SingleIInv, [SingleNext]_singleVars, NEW c \in Call,
               displaced[c] = "no", displaced'[c] # "no"
        PROVE  \E d \in Call : DisplacedBy(c, d)
    <2> USE SingleConstantsOK, <1>1
    <2>1. ASSUME NEW d \in Call, New(d) PROVE DisplacedBy(c, d)
        BY <2>1 DEF New, cancelInLock, DisplacedBy, SingleIInv, SingleTypeOK, PC
    <2>2. ASSUME NEW d \in Call, CancelRunning(d) PROVE DisplacedBy(c, d)
      <3>1. c = current /\ d \notin Foreign
          BY <2>2 DEF CancelRunning, cancelInLock, SingleIInv, SingleTypeOK
      <3>2. pc[d] = "stopCancel" => kind[d] = "GoTo"
          BY <2>2 DEF CancelRunning, cancelInLock, HasOp, SingleIInv, SingleTypeOK, Places
      <3>3. d # c
          BY <2>2, <3>1, <3>2 DEF CancelRunning, SingleIInv, Places, CurrentIsLive, Registered
      <3> QED BY <2>2, <3>1, <3>2, <3>3 DEF CancelRunning, DisplacedBy, SingleIInv, SingleTypeOK, PC
    <2>3. ASSUME NEW d \in Call, FinishOuter(d) PROVE FALSE
        BY <2>3 DEF FinishOuter, SingleIInv, SingleTypeOK
    <2>4. (\E d \in Call : New(d) \/ CancelRunning(d) \/ FinishOuter(d))
        BY DEF SingleNext, Step, singleVars, FinishInner, Poll, Sleep, Deferred, Recheck,
               StopWrite, Command, Power, Issue, ContextEnds, DoseDone
    <2> QED BY <2>1, <2>2, <2>3, <2>4
  <1>2. SingleIInv /\ [SingleNext]_singleVars =>
          [\A c \in Call :
             displaced[c] = "no" /\ displaced'[c] # "no" =>
               \E d \in Call \ (Foreign \union {c}) :
                  /\ pc[d] \in {"new", "cancel", "stopCancel"}
                  /\ pc'[d] # pc[d]
                  /\ pc[d] = "stopCancel" => kind[d] = "GoTo"]_singleVars
      BY <1>1 DEF DisplacedBy
  <1> QED BY <1>2, Invariance, PTL DEF SingleSpec, OnlyOutsidersDisplace

-----------------------------------------------------------------------------
(* The table of the operations. *)

\* What makes the properties inductive: a running operation has an id, only
\* running operations carry the label, and whoever goes through a copy of the
\* table has cancelled what carried the label in it, or will come to it.
Claims ==
    /\ \A c \in Rpc : at[c] # "idle" => id[c] \in OpId
    /\ \A c \in labels : at[c] = "work"
    /\ \A c \in Rpc : earlier[c] \subseteq labels
    /\ \A c \in Rpc : at[c] \in {"each", "work"} =>
         \A d \in earlier[c] : d \in todo[c] \/ canceled[d] # "no"
    /\ \A c \in Rpc : at[c] = "work" => todo[c] = {}
    /\ \A c \in Rpc : at[c] \in {"idle", "all"} => earlier[c] = {} /\ todo[c] = {}

TableInv == TableTypeOK /\ ListedIsRunning /\ Claims

\* The empty table satisfies the invariant.
LEMMA TableInitInv == TableInit => TableInv
  BY DEF TableInit, TableInv, TableTypeOK, ListedIsRunning, Claims, Running

\* Every step keeps it.
LEMMA TableNextInv == TableInv /\ [TableNext]_tableVars => TableInv'
<1> SUFFICES ASSUME TableInv, [TableNext]_tableVars PROVE TableInv'
  OBVIOUS
<1> USE DEF TableInv
<1>1. ASSUME NEW c \in Rpc, NEW i \in OpId, NEW k \in Handler, createWithID(c, i, k)
      PROVE  TableInv'
  <2> USE <1>1 DEF createWithID
  <2>1. TableTypeOK'
    BY TableConstantsOK DEF TableTypeOK
  <2>2. ListedIsRunning'
    BY TableConstantsOK DEF TableTypeOK, ListedIsRunning, Running
  <2>3. Claims'
    BY TableConstantsOK DEF TableTypeOK, Claims
  <2> QED
    BY <2>1, <2>2, <2>3
<1>2. ASSUME NEW c \in Rpc, All(c) PROVE TableInv'
  <2> USE <1>2 DEF All
  <2>0. Range(ops) \ {NoOp} \subseteq Rpc
    BY DEF TableTypeOK, Range
  <2>1. TableTypeOK'
    BY <2>0 DEF TableTypeOK
  <2>2. ListedIsRunning'
    BY DEF TableTypeOK, ListedIsRunning, Running
  <2>3. Claims'
    BY <2>0 DEF TableTypeOK, Claims
  <2> QED
    BY <2>1, <2>2, <2>3
<1>3. ASSUME NEW c \in Rpc, CancelEach(c) PROVE TableInv'
  <2>1. PICK d \in todo[c] :
          /\ todo' = [todo EXCEPT ![c] = @ \ {d}]
          /\ canceled' = IF handler[c] = "stopAll" \/ d \in labels
                         THEN Cancel(c, d) ELSE canceled
    BY <1>3, Zenon DEF CancelEach
  <2>2. at[c] = "each" /\ UNCHANGED <<ops, id, at, handler, labels, earlier, stopped>>
    BY <1>3 DEF CancelEach
  <2>3. d \in Rpc
    BY DEF TableTypeOK
  <2>4. /\ canceled' \in [Rpc -> {"no", "self", "other"}]
        /\ \A e \in Rpc : canceled[e] # "no" => canceled'[e] # "no"
        /\ d \in labels => canceled'[d] # "no"
    BY <2>1, <2>3 DEF TableTypeOK, Cancel
  <2>5. TableTypeOK'
    BY <2>1, <2>2, <2>4 DEF TableTypeOK
  <2>6. ListedIsRunning'
    BY <2>2 DEF TableTypeOK, ListedIsRunning, Running
  <2>7. Claims'
    BY <2>1, <2>2, <2>4 DEF TableTypeOK, Claims
  <2> QED
    BY <2>5, <2>6, <2>7
<1>4. ASSUME NEW c \in Rpc, AddLabel(c) PROVE TableInv'
  BY <1>4 DEF AddLabel, TableTypeOK, ListedIsRunning, Claims, Running
<1>5. ASSUME NEW c \in Rpc, StopResources(c) PROVE TableInv'
  BY <1>5 DEF StopResources, TableTypeOK, ListedIsRunning, Claims, Running
<1>6. ASSUME NEW c \in Rpc, cleanup(c) PROVE TableInv'
  <2> USE <1>6 DEF cleanup
  <2>1. TableTypeOK'
    BY Zenon DEF TableTypeOK
  <2>2. ListedIsRunning'
    BY DEF TableTypeOK, ListedIsRunning, Running, Claims
  <2>3. Claims'
    BY DEF TableTypeOK, Claims
  <2> QED
    BY <2>1, <2>2, <2>3
<1>7. ASSUME NEW i \in OpId, CancelOperation(i) PROVE TableInv'
  <2>1. ops[i] \in Rpc /\ canceled' = Cancel(NoOp, ops[i])
        /\ UNCHANGED <<ops, id, at, handler, labels, todo, earlier, stopped>>
    BY <1>7 DEF CancelOperation, TableTypeOK
  <2>2. /\ canceled' \in [Rpc -> {"no", "self", "other"}]
        /\ \A e \in Rpc : canceled[e] # "no" => canceled'[e] # "no"
    BY <2>1 DEF TableTypeOK, Cancel
  <2> QED
    BY <2>1, <2>2 DEF TableTypeOK, ListedIsRunning, Claims, Running
<1>8. CASE UNCHANGED tableVars
  BY <1>8 DEF tableVars, TableTypeOK, ListedIsRunning, Claims, Running
<1> QED
  BY <1>1, <1>2, <1>3, <1>4, <1>5, <1>6, <1>7, <1>8 DEF TableNext

\* The invariant holds throughout.
THEOREM TableInvariance == TableSpec => []TableInv
  BY TableInitInv, TableNextInv, PTL DEF TableSpec

\* Type correctness of the table and of the calls.
THEOREM TableTypeCorrect == TableSpec => []TableTypeOK
<1>1. TableInv => TableTypeOK
  BY DEF TableInv
<1> QED
  BY <1>1, TableInvariance, PTL

\* The table never lists an operation that has returned, however ids are shared.
THEOREM ListedIsRunningHolds == TableSpec => []ListedIsRunning
<1>1. TableInv => ListedIsRunning
  BY DEF TableInv
<1> QED
  BY <1>1, TableInvariance, PTL

\* Once a handler carries the label, every operation that carried it in the
\* handler's copy of the table, and still runs, has been cancelled.
THEOREM ClaimCancelsEarlierHolds == TableSpec => []ClaimCancelsEarlier
<1>1. TableInv => ClaimCancelsEarlier
  BY DEF TableInv, Claims, ClaimCancelsEarlier, TableTypeOK
<1> QED
  BY <1>1, TableInvariance, PTL

-----------------------------------------------------------------------------
(* The table, with ids of their own. *)

\* A step under distinct ids keeps every running operation listed.
LEMMA NextListed ==
    ASSUME ~SharedId, TableInv, AllAreListed, [TableNext]_tableVars
    PROVE  AllAreListed'
<1> USE DEF TableInv, AllAreListed, Running
<1>1. ASSUME NEW c \in Rpc, NEW i \in OpId, NEW k \in Handler, createWithID(c, i, k)
      PROVE  AllAreListed'
  BY <1>1 DEF createWithID, TableTypeOK, Claims
<1>2. ASSUME NEW c \in Rpc, cleanup(c) PROVE AllAreListed'
  BY <1>2 DEF cleanup, TableTypeOK, Claims
<1>3. ASSUME NEW c \in Rpc, All(c) \/ CancelEach(c) \/ AddLabel(c) \/ StopResources(c)
      PROVE  AllAreListed'
  BY <1>3 DEF All, CancelEach, AddLabel, StopResources, TableTypeOK
<1>4. ASSUME NEW i \in OpId, CancelOperation(i) PROVE AllAreListed'
  BY <1>4 DEF CancelOperation
<1>5. CASE UNCHANGED tableVars
  BY <1>5 DEF tableVars
<1> QED
  BY <1>1, <1>2, <1>3, <1>4, <1>5 DEF TableNext

\* As long as no two RPCs share an id, All returns every running operation, so
\* that CancelOperation and StopAll reach each of them.
THEOREM AllAreListedHolds == ~SharedId => (TableSpec => []AllAreListed)
<1> SUFFICES ASSUME ~SharedId PROVE TableSpec => []AllAreListed
  OBVIOUS
<1>1. TableInit => AllAreListed
  BY DEF TableInit, AllAreListed, Running
<1>2. TableInv /\ AllAreListed /\ [TableNext]_tableVars => AllAreListed'
  BY NextListed
<1> QED
  BY <1>1, <1>2, TableInvariance, PTL DEF TableSpec
=============================================================================
