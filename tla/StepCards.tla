------------------------------ MODULE StepCards ------------------------------
(***************************************************************************)
(* The step buttons of the gantry and servo cards and of the arm card's    *)
(* end position (components/gantry.vue, servo.vue, arm.vue): every press   *)
(* sends the whole position, which is the one last reported but for the    *)
(* axis that is stepped.                                                   *)
(*                                                                         *)
(* A press can come before the move of the press before is done and before *)
(* the status that would show it: requests travel, the robot moves one     *)
(* axis at a time, and the status stream samples it on the way.            *)
(***************************************************************************)
EXTENDS Integers, Sequences

CONSTANTS
    Axis,        \* of a gantry, or the fields of an end position
    ServoAxis,   \* the angle of a servo
    StepSize,    \* what the buttons add
    Start,       \* per axis, the position when the page is opened
    MaxRequests, \* bound on the requests in flight
    MaxPresses   \* bound on the presses

ASSUME StepConstantsOK ==
    /\ ServoAxis \in Axis
    /\ StepSize \subseteq Int
    /\ Start \in [Axis -> Int]
    /\ MaxRequests \in Nat /\ MaxPresses \in Nat

Position == [Axis -> Int]

VARIABLES
    device,      \* which of the three cards it is
    position,    \* where the robot is
    target,      \* where it was last told to go
    requests,    \* move requests that have not reached the robot
    sampled,     \* the status on its way to the page
    onPage,      \* the status the page has
    touched,     \* the axes that were stepped
    stepped,     \* per axis, the sum of the steps that were pressed
    presses,
    patient      \* every press so far waited for the one before to show

stepVars == <<device, position, target, requests, sampled, onPage, touched, stepped, presses, patient>>

StepTypeOK ==
    /\ device \in {"gantry", "servo", "arm"}
    /\ {position, target, sampled, onPage} \subseteq Position
    /\ requests \in Seq(Position) /\ Len(requests) <= MaxRequests
    /\ touched \subseteq Axis /\ stepped \in Position
    /\ presses \in 0..MaxPresses /\ patient \in BOOLEAN

StepInit ==
    /\ device \in {"gantry", "servo", "arm"}
    /\ position = Start /\ target = Start /\ requests = <<>>
    /\ sampled = Start /\ onPage = Start
    /\ touched = {} /\ stepped = [a \in Axis |-> 0]
    /\ presses = 0 /\ patient = TRUE

Settled == requests = <<>> /\ position = target /\ onPage = position

\* A button of axis a is pressed and the position p sent.
Press(a, amount, p) ==
    /\ Len(requests) < MaxRequests
    /\ presses < MaxPresses
    /\ presses' = presses + 1
    /\ requests' = Append(requests, p)
    /\ touched' = touched \union {a}
    /\ stepped' = [stepped EXCEPT ![a] = @ + amount]
    /\ patient' = (patient /\ Settled)
    /\ UNCHANGED <<device, position, target, sampled, onPage>>

\* increment: all positions of the status, one of them changed.
Increment(a, amount) ==
    /\ device = "gantry"
    /\ Press(a, amount, [onPage EXCEPT ![a] = @ + amount])

\* Mutant: the amount alone is sent.
MoveBy(amount) ==
    /\ device = "servo"
    /\ Press(ServoAxis, amount, [onPage EXCEPT ![ServoAxis] = amount])

\* move: from the angle of the raw status.
Move(amount) ==
    /\ device = "servo"
    /\ Press(ServoAxis, amount, [onPage EXCEPT ![ServoAxis] = @ + amount])

\* armEndPositionInc: the fields are copied from the raw status by name, and the
\* one that is stepped is changed.  (An orientation moves by hundredths: its unit
\* is one.)
ArmEndPositionInc(a, amount) ==
    /\ device = "arm"
    /\ LET newPose == [f \in Axis |-> onPage[f]]
       IN Press(a, amount, [newPose EXCEPT ![a] = @ + amount])

\* STOP, which the robot serves at once: it stays where it is.
StopCard ==
    /\ target' = position
    /\ patient' = (patient /\ target = position)
    /\ UNCHANGED <<device, position, requests, sampled, onPage, touched, stepped, presses>>

\* The robot takes a request, which replaces the one it is serving, or refuses it.
Take(ok) ==
    /\ requests # <<>>
    /\ requests' = Tail(requests)
    /\ target' = IF ok THEN Head(requests) ELSE target
    /\ patient' = (patient /\ ok)
    /\ UNCHANGED <<device, position, sampled, onPage, touched, stepped, presses>>

\* One axis gets one unit closer to where it was told to go.
Travel(a) ==
    /\ position[a] # target[a]
    /\ position' = [position EXCEPT ![a] = IF @ < target[a] THEN @ + 1 ELSE @ - 1]
    /\ UNCHANGED <<device, target, requests, sampled, onPage, touched, stepped, presses, patient>>

Sample ==
    /\ sampled' = position
    /\ UNCHANGED <<device, position, target, requests, onPage, touched, stepped, presses, patient>>

\* The page takes a status; a gantry whose lists differ in length is not taken
\* (fixGantryStatus throws).
Deliver(ok) ==
    /\ ok \/ device = "gantry"
    /\ onPage' = IF ok THEN sampled ELSE onPage
    /\ UNCHANGED <<device, position, target, requests, sampled, touched, stepped, presses, patient>>

StepNext ==
    \/ \E amount \in StepSize :
         \/ \E a \in Axis : Increment(a, amount) \/ ArmEndPositionInc(a, amount)
         \/ Move(amount)
    \/ StopCard
    \/ \E ok \in BOOLEAN : Take(ok) \/ Deliver(ok)
    \/ \E a \in Axis : Travel(a)
    \/ Sample

-----------------------------------------------------------------------------
(* Properties. *)

\* An axis that was never stepped holds its position, however stale the status
\* each request is made from and whatever request the robot serves or refuses
\* (increment and armEndPositionInc send the reported position of the other axes).
UntouchedAxisHolds == \A a \in Axis \ touched : position[a] = Start[a]

\* Steps add up when each press waits for the one before to show on the page,
\* also after a status that could not be taken: the robot is told to go to where
\* it started plus all the steps (the buttons start from the reported position).
\* A press that does not wait starts from an older position, and loses a step.
PatientStepsAddUp ==
    patient => LET told == IF requests = <<>> THEN target ELSE Head(requests)
               IN told = [a \in Axis |-> Start[a] + stepped[a]]
=============================================================================
