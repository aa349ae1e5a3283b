--------------------------- MODULE SingleOperation ---------------------------
(***************************************************************************)
(* operation.SingleOperationManager (operation/manager.go) as one motor    *)
(* driver uses it: the pump of components/motor/i2cmotors/ezopmp.go, whose *)
(* GoFor registers an operation before it commands the pump, whose GoTo    *)
(* lets the waiting helper register one afterwards, and whose SetPower     *)
(* (with no power: Stop) cancels whatever is registered.                   *)
(*                                                                         *)
(* A call is a goroutine that runs one driver method after another.  The   *)
(* operation (anOp) that a call registers is named after the call.  Every  *)
(* section under sm.mu is one step; the read of sm.currentOp outside the   *)
(* lock and every exchange with the pump are steps of their own.           *)
(***************************************************************************)
EXTENDS Naturals

CONSTANTS
    Call,       \* the goroutines that call the driver
    Foreign,    \* those whose context already holds another manager's operation
    Method,     \* the driver methods that are called
    CtxError,   \* how a caller's context may end: "canceled", "deadline"
    IOMayFail,  \* whether an exchange with the pump may return an error
    NoCall

ASSUME SingleConstantsOK ==
    /\ NoCall \notin Call
    /\ Foreign \subseteq Call
    /\ Method \subseteq {"GoFor", "GoTo", "SetPower"}
    /\ CtxError \subseteq {"canceled", "deadline"}
    /\ IOMayFail \in BOOLEAN

VARIABLES
    current,    \* sm.currentOp
    pump,       \* the call whose command the pump executes, NoCall when it is off
    pc, kind,   \* where each call is, in which method
    parentErr,  \* Err() of the context the caller passed in
    opErr,      \* Err() of the context the wait runs with
    displaced,  \* what called the operation's cancelFunc: "no", "New", "CancelRunning"
    oldOp       \* the local oldOp of WaitTillNotPowered

singleVars == <<current, pump, pc, kind, parentErr, opErr, displaced, oldOp>>

PC == {"idle", "new", "command", "cancel", "power", "poll", "sleep",
       "innerFinish", "deferred", "recheck", "stopCancel", "stopWrite", "finish"}

ErrValue == {"none", "canceled", "deadline"}

SingleTypeOK ==
    /\ current \in Call \union {NoCall}
    /\ pump \in Call \union {NoCall}
    /\ pc \in [Call -> PC]
    /\ kind \in [Call -> {"GoFor", "GoTo", "SetPower"}]
    /\ parentErr \in [Call -> ErrValue]
    /\ opErr \in [Call -> ErrValue]
    /\ displaced \in [Call -> {"no", "New", "CancelRunning"}]
    /\ oldOp \in [Call -> BOOLEAN]

SingleInit ==
    /\ current = NoCall
    /\ pump = NoCall
    /\ pc = [c \in Call |-> "idle"]
    /\ kind = [c \in Call |-> "SetPower"]
    /\ parentErr = [c \in Call |-> "none"]
    /\ opErr = [c \in Call |-> "none"]
    /\ displaced = [c \in Call |-> "no"]
    /\ oldOp = [c \in Call |-> FALSE]

-----------------------------------------------------------------------------
(* Contexts *)

\* The context GoFor hands to WaitTillNotPowered carries the operation that
\* GoFor registered; GoTo passes on the caller's context as it is.
OuterIsOp(c) == kind[c] = "GoFor" /\ c \notin Foreign

\* ctx.Value(somCtxKeySingleOp) != nil for the context that WaitTillNotPowered
\* and the stop it defers run with.
HasOp(c) == c \in Foreign \/ kind[c] = "GoFor"

\* Err() of that context.
OuterErr(c) == IF OuterIsOp(c) THEN opErr[c] ELSE parentErr[c]

\* A context keeps the first error it is given.
FirstErr(old, new) == IF old = "none" THEN new ELSE old

\* The stretch between the registration of c's operation and its finish.
Registered(c) ==
    /\ c \notin Foreign
    /\ \/ /\ kind[c] = "GoFor"
          /\ pc[c] \notin {"idle", "new"}
       \/ /\ kind[c] = "GoTo"
          /\ pc[c] \in {"poll", "sleep", "innerFinish"}

-----------------------------------------------------------------------------
(* The manager *)

\* The operation in the lock is cancelled, unless it is the caller's own.
cancelInLock(c, by) ==
    IF current \in {NoCall, c}
    THEN UNCHANGED <<opErr, displaced>>
    ELSE /\ opErr' = [opErr EXCEPT ![current] = FirstErr(@, "canceled")]
         /\ displaced' = [displaced EXCEPT ![current] = by]

\* New returns at once on a context that holds an operation, of any manager.
New(c) ==
    /\ pc[c] = "new"
    /\ IF c \in Foreign
       THEN UNCHANGED <<current, opErr, displaced>>
       ELSE /\ cancelInLock(c, "New")
            /\ current' = c
    /\ pc' = [pc EXCEPT ![c] = IF kind[c] = "GoFor" THEN "command" ELSE "poll"]
    /\ UNCHANGED <<pump, kind, parentErr, oldOp>>

\* CancelRunning, called first thing by SetPower and Stop ("cancel") and by the
\* Stop that WaitTillNotPowered defers ("stopCancel").
CancelRunning(c) ==
    /\ pc[c] \in {"cancel", "stopCancel"}
    /\ IF c \in Foreign \/ (pc[c] = "stopCancel" /\ HasOp(c))
       THEN UNCHANGED <<current, opErr, displaced>>
       ELSE /\ cancelInLock(NoCall, "CancelRunning")
            /\ current' = NoCall
    /\ pc' = [pc EXCEPT ![c] = IF pc[c] = "cancel" THEN "power" ELSE "stopWrite"]
    /\ UNCHANGED <<pump, kind, parentErr, oldOp>>

\* The function New returned: it forgets the operation only while it is current.
finish(c) == current' = IF current = c THEN NoCall ELSE current

\* The finish of the wait inside GoTo runs before the deferred function of
\* WaitTillNotPowered.
FinishInner(c) ==
    /\ pc[c] = "innerFinish"
    /\ finish(c)
    /\ pc' = [pc EXCEPT ![c] = "deferred"]
    /\ UNCHANGED <<pump, kind, parentErr, opErr, displaced, oldOp>>

\* The finish of GoFor is deferred to its return.  What the call knew is gone.
FinishOuter(c) ==
    /\ pc[c] = "finish"
    /\ IF kind[c] = "GoFor" THEN finish(c) ELSE UNCHANGED current
    /\ pc' = [pc EXCEPT ![c] = "idle"]
    /\ parentErr' = [parentErr EXCEPT ![c] = "none"]
    /\ opErr' = [opErr EXCEPT ![c] = "none"]
    /\ displaced' = [displaced EXCEPT ![c] = "no"]
    /\ oldOp' = [oldOp EXCEPT ![c] = FALSE]
    /\ UNCHANGED <<pump, kind>>

-----------------------------------------------------------------------------
(* WaitForSuccess and WaitTillNotPowered *)

\* What follows the loop of WaitForSuccess: the finish of the nested New, which
\* does nothing unless that New registered the operation.
AfterLoop(c) == IF HasOp(c) THEN "deferred" ELSE "innerFinish"

\* testFunc: ask the pump whether it runs.  An error ends the wait, too.
Poll(c) ==
    /\ pc[c] = "poll"
    /\ \/ pc' = [pc EXCEPT ![c] = IF pump = NoCall THEN AfterLoop(c) ELSE "sleep"]
       \/ IOMayFail /\ pc' = [pc EXCEPT ![c] = AfterLoop(c)]
    /\ UNCHANGED <<current, pump, kind, parentErr, opErr, displaced, oldOp>>

SleepForever(c) ==
    /\ pc[c] = "sleep"
    /\ pc' = [pc EXCEPT ![c] = "poll"]
    /\ UNCHANGED <<current, pump, kind, parentErr, opErr, displaced, oldOp>>

\* SelectContextOrWait: the loop ends when the wait's context has.
Sleep(c) ==
    /\ pc[c] = "sleep"
    /\ pc' = [pc EXCEPT ![c] = IF opErr[c] = "none" THEN "poll" ELSE AfterLoop(c)]
    /\ UNCHANGED <<current, pump, kind, parentErr, opErr, displaced, oldOp>>

DeferredNoStop(c) ==
    /\ pc[c] = "deferred"
    /\ pc' = [pc EXCEPT ![c] = "finish"]
    /\ UNCHANGED <<current, pump, kind, parentErr, opErr, displaced, oldOp>>

\* The deferred function: under the lock it compares the current operation with
\* the context's, when the context was cancelled.
Deferred(c) ==
    /\ pc[c] = "deferred"
    /\ IF OuterErr(c) = "canceled"
       THEN /\ oldOp' = [oldOp EXCEPT ![c] = OuterIsOp(c) /\ current = c]
            /\ pc' = [pc EXCEPT ![c] = "recheck"]
       ELSE /\ pc' = [pc EXCEPT ![c] = "finish"]
            /\ UNCHANGED oldOp
    /\ UNCHANGED <<current, pump, kind, parentErr, opErr, displaced>>

\* After the unlock it reads sm.currentOp once more.
Recheck(c) ==
    /\ pc[c] = "recheck"
    /\ pc' = [pc EXCEPT ![c] =
                 IF oldOp[c] \/ current = NoCall THEN "stopCancel" ELSE "finish"]
    /\ oldOp' = [oldOp EXCEPT ![c] = FALSE]
    /\ UNCHANGED <<current, pump, kind, parentErr, opErr, displaced>>

\* The second half of the deferred Stop: the command to the pump.
StopWrite(c) ==
    /\ pc[c] = "stopWrite"
    /\ \/ pump' = NoCall
       \/ IOMayFail /\ UNCHANGED pump
    /\ pc' = [pc EXCEPT ![c] = "finish"]
    /\ UNCHANGED <<current, kind, parentErr, opErr, displaced, oldOp>>

-----------------------------------------------------------------------------
(* The driver and its environment *)

\* A caller enters a method of the driver with a live context.
Issue(c, k) ==
    /\ pc[c] = "idle"
    /\ kind' = [kind EXCEPT ![c] = k]
    /\ pc' = [pc EXCEPT ![c] = CASE k = "GoFor" -> "new"
                                 [] k = "GoTo" -> "command"
                                 [] OTHER -> "cancel"]
    /\ UNCHANGED <<current, pump, parentErr, opErr, displaced, oldOp>>

\* GoFor and GoTo send the pump its dose; an error ends the method.
Command(c) ==
    /\ pc[c] = "command"
    /\ \/ /\ pump' = c
          /\ pc' = [pc EXCEPT ![c] = IF kind[c] = "GoFor" THEN "poll" ELSE "new"]
       \/ /\ IOMayFail
          /\ UNCHANGED pump
          /\ pc' = [pc EXCEPT ![c] = "finish"]
    /\ UNCHANGED <<current, kind, parentErr, opErr, displaced, oldOp>>

\* SetPower starts the pump, or, as Stop always does, turns it off.
Power(c) ==
    /\ pc[c] = "power"
    /\ \/ pump' \in {c, NoCall}
       \/ IOMayFail /\ UNCHANGED pump
    /\ pc' = [pc EXCEPT ![c] = "idle"]
    /\ UNCHANGED <<current, kind, parentErr, opErr, displaced, oldOp>>

\* The caller of a move goes away, or its deadline passes, at any moment of the
\* call.  SetPower and Stop do not look at the error of their context.
ContextEnds(c, e) ==
    /\ pc[c] # "idle"
    /\ kind[c] \in {"GoFor", "GoTo"}
    /\ parentErr[c] = "none"
    /\ parentErr' = [parentErr EXCEPT ![c] = e]
    /\ opErr' = [opErr EXCEPT ![c] = FirstErr(@, e)]
    /\ UNCHANGED <<current, pump, pc, kind, displaced, oldOp>>

\* The pump has delivered a dose and turns itself off; what SetPower started
\* has no end of its own.
DoseDone ==
    /\ pump # NoCall
    /\ kind[pump] \in {"GoFor", "GoTo"}
    /\ pump' = NoCall
    /\ UNCHANGED <<current, pc, kind, parentErr, opErr, displaced, oldOp>>

Step(c) ==
    \/ New(c) \/ CancelRunning(c) \/ FinishOuter(c) \/ FinishInner(c)
    \/ Poll(c) \/ Sleep(c) \/ Deferred(c) \/ Recheck(c) \/ StopWrite(c)
    \/ Command(c) \/ Power(c)

SingleNext ==
    \/ \E c \in Call : Step(c)
    \/ \E c \in Call, k \in Method : Issue(c, k)
    \/ \E c \in Call, e \in CtxError : ContextEnds(c, e)
    \/ DoseDone

SingleSpec == SingleInit /\ [][SingleNext]_singleVars

\* A goroutine inside a method keeps running; no step waits for another one.
SingleFairSpec == SingleSpec /\ \A c \in Call : WF_singleVars(Step(c))

-----------------------------------------------------------------------------
(* What holds *)

\* The manager's promise: an operation that was registered and not finished is
\* the current one, or its context has been cancelled; at most one is live.
OneLive ==
    \A c \in Call : Registered(c) /\ displaced[c] = "no" => current = c

\* The converse, which OpRunning reports: the current operation is one that a
\* call is still inside of, and that nothing has displaced.
CurrentIsLive ==
    current # NoCall => Registered(current) /\ displaced[current] = "no"

\* Only a call outside every operation displaces one, and never its own: a
\* nested call (Spin of a base driving the motors) leaves the running one alone.
OnlyOutsidersDisplace ==
    [][\A c \in Call :
          displaced[c] = "no" /\ displaced'[c] # "no" =>
             \E d \in Call \ (Foreign \union {c}) :
                /\ pc[d] \in {"new", "cancel", "stopCancel"}
                /\ pc'[d] # pc[d]
                /\ pc[d] = "stopCancel" => kind[d] = "GoTo"]_singleVars

\* An operation that was displaced leaves the driver: its wait ends, whatever
\* the pump is doing.
DisplacedReturns ==
    \A c \in Call : displaced[c] # "no" ~> pc[c] = "idle"

\* When the caller of the current move goes away the pump does not keep running
\* for it: the deferred stop is sent, also when asking the pump has failed,
\* unless another call takes over.
CanceledMoveStops ==
    \A c \in Call :
       (/\ OuterIsOp(c) /\ current = c /\ pc[c] \in {"poll", "sleep"}
        /\ pump = c /\ opErr[c] = "canceled")
       ~> (pc[c] = "stopWrite" \/ pump # c \/ displaced[c] # "no")
=============================================================================
