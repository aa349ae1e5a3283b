------------------------------- MODULE ArmCard -------------------------------
(***************************************************************************)
(* The joints of the arm card (components/arm.vue): the step buttons, Home,*)
(* and the "Modify All" form, over a status that the stream replaces.      *)
(*                                                                         *)
(* rawStatus.joint_positions.values is changed in place by every command   *)
(* and is what the next command starts from.  The form's inputs hold text, *)
(* and "+" puts text together: a value is a number, the text of a number,  *)
(* or text that is none.  The end position is left to StepCards: its steps  *)
(* are taken from the status and never change it.                          *)
(***************************************************************************)
EXTENDS Integers

CONSTANTS
    Joint,
    Amount,     \* what the step buttons add
    Reported,   \* the angles the robot reports
    Typed,      \* the numbers that are typed into the form
    MaxSteps    \* bound on the steps, either way, since a joint was last set

ASSUME ArmConstantsOK ==
    /\ Amount \subseteq Int /\ Reported \subseteq Int /\ Typed \subseteq Int
    /\ 0 \in Reported
    /\ MaxSteps \in Nat

Num(n) == [kind |-> "num", n |-> n]
Text(n) == [kind |-> "text", n |-> n]
NotNum == [kind |-> "nan", n |-> 0]

VARIABLES
    jointValues,   \* rawStatus.joint_positions.values, which every command sends
    shown,         \* status.joint_pieces, of the same report
    toggle,        \* the form: its values, <<>> when it is closed
    pending,       \* calls of the form's two Go buttons awaited
    base, steps    \* per joint: what it was last set to, and the steps since

armVars == <<jointValues, shown, toggle, pending, base, steps>>

JointValue == [kind : {"num", "text", "nan"}, n : Int]
ArmTypeOK ==
    /\ shown \in [Joint -> Reported]
    /\ jointValues \in [Joint -> JointValue]
    /\ toggle \in [Joint -> JointValue] \union {<<>>}
    /\ pending \in 0..2
    /\ base \in [Joint -> Int] /\ steps \in [Joint -> Int]

ArmInit ==
    /\ shown = [j \in Joint |-> 0]
    /\ jointValues = [j \in Joint |-> Num(0)]
    /\ toggle = <<>> /\ pending = 0
    /\ base = shown /\ steps = [j \in Joint |-> 0]

\* A status comes over the stream: fresh numbers, in both forms (fixArmStatus).
Report(angles) ==
    /\ jointValues' = [j \in Joint |-> Num(angles[j])]
    /\ shown' = angles
    /\ base' = angles /\ steps' = [j \in Joint |-> 0]
    /\ UNCHANGED <<toggle, pending>>

\* v + amount, where a text is extended by the amount's digits.
Plus(v, amount) ==
    IF v.kind = "num" THEN Num(v.n + amount)
    ELSE IF v.kind = "text" /\ amount >= 0 THEN Text(v.n * 10 + amount)
    ELSE NotNum

\* Mutant: every step starts from the status that is shown.
ArmJointIncFromStatus(j, amount) ==
    /\ steps[j] + amount \in -MaxSteps..MaxSteps
    /\ jointValues' = [i \in Joint |-> Num(IF i = j THEN shown[i] + amount ELSE shown[i])]
    /\ steps' = [steps EXCEPT ![j] = @ + amount]
    /\ UNCHANGED <<shown, toggle, pending, base>>

\* armJointInc: the list is changed in place, then sent.
ArmJointInc(j, amount) ==
    /\ steps[j] + amount \in -MaxSteps..MaxSteps
    /\ jointValues' = [jointValues EXCEPT ![j] = Plus(@, amount)]
    /\ steps' = [steps EXCEPT ![j] = @ + amount]
    /\ UNCHANGED <<shown, toggle, pending, base>>

ArmHome ==
    /\ jointValues' = [j \in Joint |-> Num(0)]
    /\ base' = [j \in Joint |-> 0] /\ steps' = base'
    /\ UNCHANGED <<shown, toggle, pending>>

\* The form opens on the status that is shown, as numbers.
ArmModifyAll ==
    /\ toggle' = [j \in Joint |-> Num(shown[j])]
    /\ UNCHANGED <<jointValues, shown, pending, base, steps>>

TypeIn(j, n) ==
    /\ toggle # <<>>
    /\ toggle' = [toggle EXCEPT ![j] = Text(n)]
    /\ UNCHANGED <<jointValues, shown, pending, base, steps>>

ArmModifyAllCancel ==
    /\ toggle # <<>>
    /\ toggle' = <<>>
    /\ UNCHANGED <<jointValues, shown, pending, base, steps>>

\* armModifyAllDoJoint up to its await.
ArmModifyAllDoJoint ==
    /\ toggle # <<>> /\ pending < 2
    /\ jointValues' = toggle
    /\ base' = [j \in Joint |-> toggle[j].n] /\ steps' = [j \in Joint |-> 0]
    /\ pending' = pending + 1
    /\ UNCHANGED <<shown, toggle>>

\* armModifyAllDoEndPosition up to its await.
ArmModifyAllDoEndPosition ==
    /\ toggle # <<>> /\ pending < 2
    /\ pending' = pending + 1
    /\ UNCHANGED <<jointValues, shown, toggle, base, steps>>

\* After either, answered or refused: whatever form is open is closed.
FormReply ==
    /\ pending > 0
    /\ pending' = pending - 1
    /\ toggle' = <<>>
    /\ UNCHANGED <<jointValues, shown, base, steps>>

ArmNext ==
    \/ \E angles \in [Joint -> Reported] : Report(angles)
    \/ ArmHome
    \/ \E j \in Joint : \E a \in Amount : ArmJointInc(j, a)
    \/ ArmModifyAll \/ ArmModifyAllCancel \/ ArmModifyAllDoJoint
    \/ ArmModifyAllDoEndPosition \/ FormReply
    \/ \E j \in Joint : \E n \in Typed : TypeIn(j, n)

-----------------------------------------------------------------------------
(* Properties. *)

\* Steps add up: pressing a joint's buttons before the next status arrives sends
\* the arm to where it was last set plus every step since, none lost, on every
\* joint, as long as what it was set to was not typed (armJointInc starts from
\* the list it has changed, not from the status that is shown).
JointStepsAddUp == \A j \in Joint :
    jointValues[j].kind = "num" => jointValues[j].n = base[j] + steps[j]
=============================================================================
