----------------------------- MODULE DriveProofs -----------------------------
(***************************************************************************)
(* The ways to move a robot from the page.  The buttons of the gantry, the *)
(* servo and the arm's end position step the axis they are for, for any    *)
(* axes, steps and delays.  The base card follows the keys it records, for *)
(* every keyboard layout and any number of setPower calls in flight, and   *)
(* implements DriveIntent.  The web gamepad card tells the robot what its  *)
(* controls show, in order of time, for any gamepads and controls, any     *)
(* number of tick timers and any setting of the browser's clock.           *)
(***************************************************************************)
EXTENDS StepCards, BaseControl, WebGamepad, FiniteSetTheorems, TLAPS

-----------------------------------------------------------------------------
(* The steps of the gantry, the servo and the end position. *)

StepSpec == StepInit /\ [][StepNext]_stepVars

StepTypes ==
    /\ position \in Position /\ target \in Position
    /\ sampled \in Position /\ onPage \in Position
    /\ stepped \in Position
    /\ requests \in Seq(Position)
    /\ touched \subseteq Axis

\* Everything that the position of an axis can come from: the target, the
\* requests, and the statuses the next requests are made from.
Untouched(a) ==
    /\ position[a] = Start[a] /\ target[a] = Start[a]
    /\ sampled[a] = Start[a] /\ onPage[a] = Start[a]
    /\ \A i \in 1..Len(requests) : requests[i][a] = Start[a]

\* Where the steps that were pressed add up to.
Sum == [a \in Axis |-> Start[a] + stepped[a]]

\* Of patient presses at most one is on its way.
PatientInv ==
    patient => /\ Len(requests) <= 1
               /\ requests = <<>> => target = Sum
               /\ requests # <<>> => Head(requests) = Sum

StepInv == StepTypes /\ (\A a \in Axis \ touched : Untouched(a)) /\ PatientInv

\* What a press does to the invariant, given that it changes no other axis of
\* the status: common to the three cards.
LEMMA PressKeeps ==
  ASSUME StepInv, NEW a \in Axis, NEW amount \in StepSize,
         Press(a, amount, [onPage EXCEPT ![a] = onPage[a] + amount])
  PROVE  StepInv'
<1> DEFINE p == [onPage EXCEPT ![a] = onPage[a] + amount]
<1> USE StepConstantsOK
<1>1. amount \in Int /\ p \in Position
  BY DEF StepInv, StepTypes, Position
<1>2. /\ requests' = Append(requests, p)
      /\ touched' = touched \union {a}
      /\ stepped' = [stepped EXCEPT ![a] = stepped[a] + amount]
      /\ patient' = (patient /\ Settled)
      /\ position' = position /\ target' = target /\ sampled' = sampled /\ onPage' = onPage
  BY DEF Press
<1>3. StepTypes'
  <2>1. requests' \in Seq(Position)
    BY <1>1, <1>2 DEF StepInv, StepTypes
  <2>2. stepped' \in Position
    <3>0. stepped \in Position
      BY DEF StepInv, StepTypes
    <3>1. stepped \in [Axis -> Int] /\ stepped[a] + amount \in Int
      BY <1>1, <3>0 DEF Position
    <3> QED
      BY <1>2, <3>1, Zenon DEF Position
  <2> QED
    BY <1>2, <2>1, <2>2 DEF StepInv, StepTypes
<1>4. ASSUME NEW b \in Axis \ touched' PROVE Untouched(b)'
  <2>1. b \in Axis \ touched /\ b # a
    BY <1>2, <1>4
  <2>2. p[b] = Start[b]
    BY <2>1 DEF StepInv, StepTypes, Untouched, Position
  <2>3. Untouched(b) /\ requests \in Seq(Position)
    BY <2>1 DEF StepInv, StepTypes
  <2>4. \A i \in 1..Len(requests') : requests'[i] = p \/ (i \in 1..Len(requests) /\ requests'[i] = requests[i])
    BY <1>1, <1>2, <2>3
  <2>5. \A i \in 1..Len(requests') : requests'[i][b] = Start[b]
    BY <2>2, <2>3, <2>4, Zenon DEF Untouched
  <2> QED
    BY <1>2, <2>2, <2>3, <2>5 DEF Untouched
<1>5. ASSUME patient' PROVE Len(requests') <= 1 /\ requests' # <<>> /\ Head(requests') = Sum'
  <2>1. patient /\ requests = <<>> /\ onPage = target
    BY <1>2, <1>5, Zenon DEF Settled
  <2>2. onPage = Sum
    BY <2>1 DEF StepInv, PatientInv
  <2>3. requests' = <<p>>
    BY <1>1, <1>2, <2>1
  <2>4. p = Sum'
    <3>1. Sum' = [b \in Axis |-> Start[b] + stepped'[b]]
      BY DEF Sum
    <3>2. \A b \in Axis : onPage[b] = Start[b] + stepped[b] /\ stepped[b] \in Int /\ Start[b] \in Int
      BY <2>2 DEF Sum, StepInv, StepTypes, Position
    <3>3. ASSUME NEW b \in Axis PROVE p[b] = Start[b] + stepped'[b]
      <4>1. CASE b = a
        BY <1>1, <1>2, <3>2, <4>1, SMTT(30) DEF StepInv, StepTypes, Position
      <4>2. CASE b # a
        BY <1>1, <1>2, <3>2, <4>2 DEF StepInv, StepTypes, Position
      <4> QED
        BY <4>1, <4>2
    <3> QED
      BY <1>1, <3>1, <3>3, ZenonT(30) DEF Position
  <2> QED
    BY <2>3, <2>4
<1> QED
  BY <1>3, <1>4, <1>5 DEF StepInv, PatientInv

\* Every step of these cards keeps the invariant, one case per button, request,
\* move and status.
LEMMA StepInductive == StepInv /\ [StepNext]_stepVars => StepInv'
<1> SUFFICES ASSUME StepInv, [StepNext]_stepVars PROVE StepInv'
  OBVIOUS
<1> USE StepConstantsOK
<1>1. ASSUME NEW a \in Axis, NEW amount \in StepSize, Increment(a, amount) PROVE StepInv'
  BY <1>1, PressKeeps DEF Increment
<1>2. ASSUME NEW amount \in StepSize, Move(amount) PROVE StepInv'
  BY <1>2, PressKeeps DEF Move
<1>3. ASSUME NEW a \in Axis, NEW amount \in StepSize, ArmEndPositionInc(a, amount) PROVE StepInv'
  <2>1. [f \in Axis |-> onPage[f]] = onPage
    BY DEF StepInv, StepTypes, Position
  <2>2. Press(a, amount, [onPage EXCEPT ![a] = onPage[a] + amount])
    BY <1>3, <2>1, Zenon DEF ArmEndPositionInc
  <2> QED
    BY <2>2, PressKeeps
<1>4. CASE StopCard
  <2>1. target' = position /\ (patient' => patient /\ target' = target)
    BY <1>4, ZenonT(30) DEF StopCard
  <2>2. UNCHANGED <<position, requests, sampled, onPage, touched, stepped>>
    BY <1>4 DEF StopCard
  <2>3. StepTypes' /\ \A a \in Axis \ touched' : Untouched(a)'
    BY <2>1, <2>2 DEF StepInv, StepTypes, Untouched
  <2>4. PatientInv'
    BY <2>1, <2>2 DEF StepInv, PatientInv, Sum
  <2> QED
    BY <2>3, <2>4 DEF StepInv
<1>5. ASSUME NEW ok \in BOOLEAN, Take(ok) PROVE StepInv'
  <2>1. requests # <<>> /\ requests' = Tail(requests)
    BY <1>5 DEF Take
  <2>2. UNCHANGED <<position, sampled, onPage, touched, stepped>>
    BY <1>5 DEF Take
  <2>3. target' = Head(requests) \/ target' = target
    BY <1>5 DEF Take
  <2>4. patient' => patient /\ target' = Head(requests)
    BY <1>5, Zenon DEF Take
  <2>5. Head(requests) = requests[1] /\ Len(requests) \in Nat \ {0} /\ requests[1] \in Position
    BY <2>1 DEF StepInv, StepTypes
  <2>6. /\ requests' \in Seq(Position) /\ Len(requests') = Len(requests) - 1
        /\ \A i \in 1..Len(requests') : requests'[i] = requests[i + 1] /\ i + 1 \in 1..Len(requests)
    BY <2>1, <2>5 DEF StepInv, StepTypes
  <2>7. StepTypes'
    BY <2>2, <2>3, <2>5, <2>6 DEF StepInv, StepTypes
  <2>8. ASSUME NEW a \in Axis \ touched' PROVE Untouched(a)'
    <3>1. Untouched(a)
      BY <2>2, <2>8 DEF StepInv
    <3>2. target'[a] = Start[a]
      BY <2>3, <2>5, <3>1 DEF Untouched
    <3>3. \A i \in 1..Len(requests') : requests'[i][a] = Start[a]
      BY <2>6, <3>1 DEF Untouched
    <3> QED
      BY <2>2, <3>1, <3>2, <3>3 DEF Untouched
  <2>9. PatientInv'
    <3> SUFFICES ASSUME patient' PROVE Len(requests') <= 1 /\ requests' = <<>> /\ target' = Sum'
      BY DEF PatientInv
    <3>1. Len(requests) <= 1 /\ Head(requests) = Sum
      BY <2>1, <2>4, SMTT(30) DEF StepInv, PatientInv
    <3>2. Len(requests') = 0
      BY <2>5, <2>6, <3>1
    <3>3. requests' = <<>>
      BY <2>6, <3>2
    <3>4. Sum' = Sum
      BY <2>2 DEF Sum
    <3> QED
      BY <2>4, <3>1, <3>2, <3>3, <3>4
  <2> QED
    BY <2>7, <2>8, <2>9 DEF StepInv
<1>6. ASSUME NEW a \in Axis, Travel(a) PROVE StepInv'
  <2>1. UNCHANGED <<target, requests, sampled, onPage, touched, stepped, patient>>
    BY <1>6, SMTT(30) DEF Travel
  <2>2. /\ position[a] # target[a]
        /\ position' = [position EXCEPT ![a] = IF position[a] < target[a] THEN position[a] + 1 ELSE position[a] - 1]
    BY <1>6, SMTT(30) DEF Travel
  <2>3. StepTypes'
    BY <2>1, <2>2, SMTT(30) DEF StepInv, StepTypes, Position
  <2>4. ASSUME NEW b \in Axis \ touched' PROVE Untouched(b)'
    <3>1. Untouched(b)
      BY <2>1, <2>4 DEF StepInv
    <3>2. b # a
      BY <2>2, <3>1 DEF Untouched
    <3>3. position'[b] = position[b]
      BY <2>2, <3>2 DEF StepInv, StepTypes, Position
    <3> QED
      BY <2>1, <3>1, <3>3 DEF Untouched
  <2>5. PatientInv'
    BY <2>1, SMTT(30) DEF StepInv, PatientInv, Sum
  <2> QED
    BY <2>3, <2>4, <2>5, SMTT(30) DEF StepInv
<1>7. CASE Sample
  <2>1. sampled' = position /\ UNCHANGED <<position, target, requests, onPage, touched, stepped, patient>>
    BY <1>7 DEF Sample
  <2>2. StepTypes'
    BY <2>1 DEF StepInv, StepTypes
  <2>3. PatientInv'
    BY <2>1 DEF StepInv, PatientInv, Sum
  <2>4. \A a \in Axis \ touched' : Untouched(a)'
    BY <2>1 DEF StepInv, Untouched
  <2> QED
    BY <2>2, <2>3, <2>4 DEF StepInv
<1>8. ASSUME NEW ok \in BOOLEAN, Deliver(ok) PROVE StepInv'
  <2>1. UNCHANGED <<position, target, requests, sampled, touched, stepped, patient>>
    BY <1>8 DEF Deliver
  <2>2. onPage' = sampled \/ onPage' = onPage
    BY <1>8, SMTT(30) DEF Deliver
  <2>3. StepTypes'
    BY <2>1, <2>2 DEF StepInv, StepTypes
  <2>4. PatientInv'
    BY <2>1 DEF StepInv, PatientInv, Sum
  <2>5. \A a \in Axis \ touched' : Untouched(a)'
    BY <2>1, <2>2 DEF StepInv, Untouched
  <2> QED
    BY <2>3, <2>4, <2>5 DEF StepInv
<1>9. CASE UNCHANGED stepVars
  BY <1>9 DEF stepVars, StepInv, StepTypes, Untouched, PatientInv, Sum
<1> QED
  BY <1>1, <1>2, <1>3, <1>4, <1>5, <1>6, <1>7, <1>8, <1>9 DEF StepNext

\* The invariant holds throughout: the start satisfies it and every step keeps it.
LEMMA StepInvariant == StepSpec => []StepInv
<1>1. ASSUME StepInit PROVE StepInv
  <2>1. StepTypes
    <3>1. Start \in Position /\ [a \in Axis |-> 0] \in Position
      BY StepConstantsOK DEF Position
    <3>2. requests \in Seq(Position)
      BY <1>1 DEF StepInit
    <3> QED
      BY <1>1, <3>1, <3>2 DEF StepInit, StepTypes
  <2>2. \A a \in Axis \ touched : Untouched(a)
    <3>1. 1..Len(requests) = {}
      BY <1>1 DEF StepInit
    <3> QED
      BY <1>1, <3>1, Zenon DEF StepInit, Untouched
  <2>3. Sum = Start
    BY <1>1, StepConstantsOK DEF StepInit, Sum
  <2>4. PatientInv
    BY <1>1, <2>3 DEF StepInit, PatientInv
  <2> QED
    BY <2>1, <2>2, <2>4, Zenon DEF StepInv
<1> QED
  BY <1>1, StepInductive, PTL DEF StepSpec

\* An axis that is never stepped never moves, for any axes, any steps and any
\* number of requests and statuses under way: it is at its start in everything
\* a request is made from.
THEOREM OtherAxesHold == StepSpec => []UntouchedAxisHolds
<1>1. StepInv => UntouchedAxisHolds
  BY Zenon DEF StepInv, Untouched, UntouchedAxisHolds
<1> QED
  BY <1>1, StepInvariant, PTL

\* Presses that wait for one another add up, on every axis.
THEOREM PatientStepsKept == StepSpec => []PatientStepsAddUp
<1>1. StepInv => PatientStepsAddUp
  BY DEF StepInv, PatientInv, PatientStepsAddUp, Sum
<1> QED
  BY <1>1, StepInvariant, PTL

-----------------------------------------------------------------------------
(* The base card.                                                          *)
(*                                                                         *)
(* None of the three invariants is inductive alone.  A run started from    *)
(* the discrete form must not find stopped = FALSE, which is known because *)
(* the flag is only lowered under power and leaving KeyboardInput ended    *)
(* the power; that it ended it rests on pressed being non-empty under      *)
(* power, which is what handleToggle tests.                                *)


\* The invariants that are proved together.
IInv == TypeOK /\ PowerFollowsKeys /\ LeavingKeyboardStops /\ SwitchIsHonest

\* PowerOf yields a command of the right type for any set of keys.
LEMMA PowerOfType ==
    ASSUME NEW S
    PROVE  /\ PowerOf(S).op = "setPower"
           /\ PowerOf(S) \in Commands
BY DEF PowerOf, Command, Commands, Held

\* RunOf yields a command other than stop and setPower.
LEMMA RunOfType ==
    ASSUME NEW f
    PROVE  /\ RunOf(f).op \in {"setVelocity", "moveStraight", "spin"}
           /\ RunOf(f) \in Commands
BY DEF RunOf, Command, Commands

\* stop() leaves the base idle.
LEMMA StopType ==
    /\ Command("stop", 0, 0).op = "stop"
    /\ Command("stop", 0, 0) \in Commands
    /\ Command("none", 0, 0).op = "none"
    /\ Command("none", 0, 0) \in Commands
BY DEF Command, Commands

\* The card starts idle, with no key recorded.
LEMMA InitIInv == Init => IInv
<1> SUFFICES ASSUME Init PROVE IInv
  OBVIOUS
<1>1. TypeOK
  <2>1. form \in Forms
    BY DEF Init, Forms, ResetForm
  <2>2. pending \in 0..MaxCalls
    BY ConstantsOK DEF Init
  <2> QED BY <2>1, <2>2, StopType, Zenon DEF Init, TypeOK
<1>2. DriveState = "idle"
  BY StopType DEF Init, DriveState
<1> QED BY <1>1, <1>2
  DEF Init, IInv, PowerFollowsKeys, LeavingKeyboardStops, SwitchIsHonest, KeyboardShown

\* Telling the card that the keyboard is off stops a base under power.
LEMMA ToggleOffStops ==
    ASSUME IInv, ToggleOff
    PROVE  /\ ~listening' /\ ~isActive'
           /\ stopped'
           /\ command'.op # "setPower"
           /\ command' \in Commands
BY StopType DEF IInv, TypeOK, SwitchIsHonest, DriveState, ToggleOff, HandleToggle, Stop

\* What a step owes: a state whose type is right keeps the invariant if it is
\* under the power of its keys, or idle or running with the flag raised.
LEMMA Summary ==
    ASSUME TypeOK', listening' <=> isActive', ~KeyboardShown' => ~listening',
           \/ command'.op = "setPower" /\ pressed' # {} /\ command' = PowerOf(pressed') /\ KeyboardShown'
           \/ command'.op # "setPower" /\ stopped'
    PROVE  IInv'
BY DEF IInv, TypeOK, PowerFollowsKeys, LeavingKeyboardStops, SwitchIsHonest, DriveState, Commands

\* The converse: how the invariant is used.
LEMMA Unfold ==
    ASSUME IInv
    PROVE  /\ TypeOK
           /\ listening <=> isActive
           /\ ~KeyboardShown => ~listening
           /\ \/ command.op = "setPower" /\ pressed # {} /\ command = PowerOf(pressed) /\ KeyboardShown
              \/ command.op # "setPower" /\ stopped
BY DEF IInv, TypeOK, PowerFollowsKeys, LeavingKeyboardStops, SwitchIsHonest, DriveState, Commands

\* A handler of KeyboardInput that records or forgets a key keeps the invariant.
LEMMA KeyEventKeeps ==
    ASSUME IInv, NEW k \in Keys, KeyboardShown, EmitKeyDown(k) \/ EmitKeyUp(k),
           mounted' = mounted, down' \in SUBSET Physical,
           pointer' \in Keys \union {NoKey}, focus' \in {"page", "window", "tab"}
    PROVE  IInv'
<1> USE Unfold
<1>1. /\ UNCHANGED <<selectedMode, form, isActive, listening>>
      /\ pressedKeys' \in SUBSET Keys /\ pressed' \in SUBSET Keys
  BY DEF EmitKeyDown, EmitKeyUp, HandleKeyDown, HandleKeyUp, TypeOK
<1>2. \/ DigestInput(pressed') /\ pressed' # {}
      \/ Stop /\ pending' = pending
  BY DEF EmitKeyDown, EmitKeyUp, HandleKeyDown, HandleKeyUp
<1>3. /\ pending' \in 0..MaxCalls /\ command' \in Commands
      /\ \/ command'.op = "setPower" /\ pressed' # {} /\ command' = PowerOf(pressed')
         \/ command'.op # "setPower" /\ stopped' = TRUE
  BY <1>2, ConstantsOK, PowerOfType, StopType DEF DigestInput, Stop, TypeOK
<1>4. stopped' \in BOOLEAN
  BY Zenon DEF EmitKeyDown, EmitKeyUp, HandleKeyDown, HandleKeyUp, Stop, TypeOK
<1>5. TypeOK'
  BY <1>1, <1>3, <1>4, Zenon DEF TypeOK
<1>6. (KeyboardShown <=> KeyboardShown') /\ (listening' <=> isActive')
  BY <1>1 DEF KeyboardShown
<1>7. /\ ~KeyboardShown' => ~listening'
      /\ \/ command'.op = "setPower" /\ pressed' # {} /\ command' = PowerOf(pressed') /\ KeyboardShown'
         \/ command'.op # "setPower" /\ stopped'
  BY <1>1, <1>3, <1>6, Zenon
<1> QED BY <1>5, <1>6, <1>7, Summary
\* Every step of the card, of the user and of a reply keeps the invariant.
LEMMA NextIInv == IInv /\ [Next]_vars => IInv'
<1> SUFFICES ASSUME IInv, [Next]_vars PROVE IInv'
  OBVIOUS
<1> USE Unfold
<1> DEFINE Quiet == /\ UNCHANGED <<mounted, selectedMode, form, isActive, listening, pressedKeys, pressed,
                                  stopped, command, pending>>
                    /\ down' \in SUBSET Physical
                    /\ pointer' \in Keys \union {NoKey}
                    /\ focus' \in {"page", "window", "tab"}
<1>1. ASSUME Quiet PROVE IInv'
  BY <1>1, Zenon DEF IInv, TypeOK, PowerFollowsKeys, LeavingKeyboardStops, SwitchIsHonest,
                     DriveState, KeyboardShown
<1>2. ASSUME NEW p \in Physical, PressKey(p) PROVE IInv'
  <2>1. /\ mounted' = mounted /\ down' \in SUBSET Physical
        /\ pointer' \in Keys \union {NoKey} /\ focus' \in {"page", "window", "tab"}
    BY <1>2 DEF PressKey, TypeOK
  <2>2. CASE Ignored
    BY <2>1, <2>2, <1>1 DEF Ignored, card
  <2>3. CASE listening /\ Keymap[p] # NoKey /\ EmitKeyDown(Keymap[p])
    BY <2>1, <2>3, KeyEventKeeps, ConstantsOK
  <2> QED BY <1>2, <2>2, <2>3 DEF PressKey, OnKeyDown
<1>3. ASSUME NEW p \in Physical, ReleaseKey(p) PROVE IInv'
  <2>1. /\ mounted' = mounted /\ down' \in SUBSET Physical
        /\ pointer' \in Keys \union {NoKey} /\ focus' \in {"page", "window", "tab"}
    BY <1>3 DEF ReleaseKey, TypeOK
  <2>2. CASE Ignored
    BY <2>1, <2>2, <1>1 DEF Ignored, card
  <2>3. CASE listening /\ Keymap[p] # NoKey /\ EmitKeyUp(Keymap[p])
    BY <2>1, <2>3, KeyEventKeeps, ConstantsOK
  <2> QED BY <1>3, <2>2, <2>3 DEF ReleaseKey, OnKeyUp
<1>4. ASSUME NEW k \in Buttons, PointerDown(k) PROVE IInv'
  <2>1. /\ mounted' = mounted /\ down' \in SUBSET Physical
        /\ pointer' \in Keys \union {NoKey} /\ focus' \in {"page", "window", "tab"}
    BY <1>4, ConstantsOK DEF PointerDown, TypeOK
  <2> QED BY <1>4, <2>1, KeyEventKeeps, ConstantsOK DEF PointerDown
<1>5. ASSUME NEW k \in Buttons, PointerUp(k) PROVE IInv'
  <2>1. /\ mounted' = mounted /\ down' \in SUBSET Physical
        /\ pointer' \in Keys \union {NoKey} /\ focus' \in {"page", "window", "tab"}
    BY <1>5, ConstantsOK DEF PointerUp, TypeOK
  <2>2. CASE Ignored
    BY <2>1, <2>2, <1>1 DEF Ignored, card
  <2>3. CASE KeyboardShown /\ EmitKeyUp(k)
    BY <2>1, <2>3, KeyEventKeeps, ConstantsOK
  <2> QED BY <1>5, <2>2, <2>3 DEF PointerUp
<1>6. ASSUME NEW on \in BOOLEAN, ToggleKeyboard(on) PROVE IInv'
  <2>1. CASE on
    <3>1. TypeOK'
      BY <1>6, <2>1, Zenon DEF ToggleKeyboard, TypeOK, user
    <3>2. /\ listening' /\ isActive' /\ KeyboardShown' /\ KeyboardShown
          /\ UNCHANGED <<stopped, command, pressed>>
      BY <1>6, <2>1 DEF ToggleKeyboard, KeyboardShown
    <3> QED BY <3>1, <3>2, Summary
  <2>2. CASE ~on
    <3>1. ToggleOff /\ UNCHANGED <<mounted, selectedMode, form, pressedKeys, pressed, pending, user>>
      BY <1>6, <2>2 DEF ToggleKeyboard
    <3>2. TypeOK'
      BY <3>1, ToggleOffStops, Zenon DEF TypeOK, user, ToggleOff
    <3> QED BY <3>1, <3>2, ToggleOffStops, Summary
  <2> QED BY <2>1, <2>2
<1>7. ASSUME ClickOutside PROVE IInv'
  <2>1. CASE isActive /\ KeyboardShown
    <3>1. ToggleOff /\ UNCHANGED <<mounted, selectedMode, form, pressedKeys, pressed, pending, user>>
      BY <1>7, <2>1 DEF ClickOutside
    <3>2. TypeOK'
      BY <3>1, ToggleOffStops, Zenon DEF TypeOK, user, ToggleOff
    <3> QED BY <3>1, <3>2, ToggleOffStops, Summary
  <2>2. CASE ~(isActive /\ KeyboardShown)
    <3>1. isActive' = FALSE /\ isActive = FALSE
      BY <1>7, <2>2 DEF ClickOutside, TypeOK
    <3> QED BY <1>7, <2>2, <3>1, <1>1, Zenon DEF ClickOutside, user, TypeOK
  <2> QED BY <2>1, <2>2
<1>8. ASSUME NEW tab \in {"Keyboard", "Discrete"}, HandleTabSelect(tab) PROVE IInv'
  <2>0. /\ selectedMode' = tab /\ mounted' = mounted /\ mounted
        /\ UNCHANGED <<pressed, pending, user>>
        /\ form' \in Forms
    BY <1>8 DEF HandleTabSelect, TypeOK, Forms, ResetForm
  <2>1. CASE KeyboardShown /\ tab = "Discrete"
    <3>1. ToggleOff /\ pressedKeys' = {}
      BY <1>8, <2>1 DEF HandleTabSelect, LeaveKeyboard
    <3>2. TypeOK'
      BY <2>0, <3>1, ToggleOffStops, Zenon DEF TypeOK, user, ToggleOff
    <3> QED BY <2>0, <3>1, <3>2, ToggleOffStops, Summary
  <2>2. CASE ~(KeyboardShown /\ tab = "Discrete")
    <3>1. UNCHANGED <<isActive, listening, pressedKeys, stopped, command>>
      BY <1>8, <2>2 DEF HandleTabSelect
    <3>2. TypeOK'
      BY <2>0, <3>1, Zenon DEF TypeOK, user
    <3>3. KeyboardShown => KeyboardShown'
      BY <2>0, <2>2 DEF KeyboardShown
    <3> QED BY <2>0, <3>1, <3>2, <3>3, Summary
  <2> QED BY <2>1, <2>2
<1>9. ASSUME NEW f \in Forms, SetForm(f) PROVE IInv'
  BY <1>9, Zenon DEF SetForm, user, IInv, TypeOK, PowerFollowsKeys, LeavingKeyboardStops, SwitchIsHonest,
                     DriveState, KeyboardShown
<1>10. ASSUME BaseRun PROVE IInv'
  <2>1. /\ ~KeyboardShown /\ command' = RunOf(form)
        /\ UNCHANGED <<mounted, card, stopped, pending, user>>
    BY <1>10 DEF BaseRun, FormShown, KeyboardShown
  <2>2. stopped /\ ~listening /\ ~isActive
    BY <2>1
  <2>3. TypeOK'
    BY <2>1, RunOfType, Zenon DEF TypeOK, card, user
  <2>4. command'.op # "setPower" /\ listening' = listening /\ isActive' = isActive /\ stopped' = stopped
    BY <2>1, RunOfType DEF card
  <2> QED BY <2>2, <2>3, <2>4, Summary
<1>11. ASSUME StopButton PROVE IInv'
  <2>1. Stop /\ UNCHANGED <<mounted, card, pending, user>>
    BY <1>11 DEF StopButton
  <2>2. TypeOK'
    BY <2>1, StopType, Zenon DEF Stop, TypeOK, card, user
  <2>3. /\ command'.op # "setPower" /\ stopped' = TRUE
        /\ listening' = listening /\ isActive' = isActive /\ KeyboardShown' = KeyboardShown
    BY <2>1, StopType DEF Stop, card, KeyboardShown
  <2> QED BY <2>2, <2>3, Summary
<1>12. ASSUME NEW f \in {"page", "window", "tab"}, HandleVisibilityChange(f) PROVE IInv'
  <2>0. /\ focus' \in {"page", "window", "tab"}
        /\ UNCHANGED <<down, pointer, mounted, selectedMode, form, isActive, listening, pressedKeys, pending>>
    BY <1>12 DEF HandleVisibilityChange, MoveFocus
  <2>1. CASE pressed' = {} /\ Stop
    <3>1. TypeOK'
      BY <2>0, <2>1, StopType, Zenon DEF Stop, TypeOK
    <3>2. /\ command'.op # "setPower" /\ stopped' = TRUE
          /\ listening' = listening /\ isActive' = isActive /\ KeyboardShown' = KeyboardShown
      BY <2>0, <2>1, StopType DEF Stop, KeyboardShown
    <3> QED BY <3>1, <3>2, Summary
  <2>2. CASE UNCHANGED <<pressed, stopped, command>>
    BY <2>0, <2>2, <1>1 DEF TypeOK
  <2> QED BY <1>12, <2>1, <2>2 DEF HandleVisibilityChange
<1>13. ASSUME PowerReply PROVE IInv'
  <2>0. UNCHANGED <<mounted, card, user>>
    BY <1>13 DEF PowerReply
  <2>1. pending' \in 0..MaxCalls
    BY <1>13, ConstantsOK DEF PowerReply, TypeOK
  <2>2. CASE Stop
    <3>1. TypeOK'
      BY <2>0, <2>1, <2>2, StopType, Zenon DEF Stop, TypeOK, card, user
    <3>2. /\ command'.op # "setPower" /\ stopped' = TRUE
          /\ listening' = listening /\ isActive' = isActive /\ KeyboardShown' = KeyboardShown
      BY <2>0, <2>2, StopType DEF Stop, card, KeyboardShown
    <3> QED BY <3>1, <3>2, Summary
  <2>3. CASE UNCHANGED <<stopped, command>>
    <3>1. TypeOK'
      BY <2>0, <2>1, <2>3, Zenon DEF TypeOK, card, user
    <3>2. /\ listening' = listening /\ isActive' = isActive /\ KeyboardShown' = KeyboardShown
          /\ pressed' = pressed
      BY <2>0 DEF card, KeyboardShown
    <3> QED BY <2>3, <3>1, <3>2, Summary
  <2> QED BY <1>13, <2>2, <2>3 DEF PowerReply
<1>14. ASSUME Unmount PROVE IInv'
  <2>1. /\ Stop /\ mounted' = FALSE
        /\ UNCHANGED <<selectedMode, form, pressed, pending, user>>
    BY <1>14 DEF Unmount
  <2>2. listening' = FALSE /\ isActive' = FALSE /\ pressedKeys' \in SUBSET Keys
    BY <1>14 DEF Unmount, KeyboardShown, TypeOK
  <2>3. TypeOK'
    BY <2>1, <2>2, StopType, Zenon DEF Stop, TypeOK, user
  <2>4. command'.op # "setPower" /\ stopped' = TRUE
    BY <2>1, StopType DEF Stop
  <2> QED BY <2>2, <2>3, <2>4, Summary
<1>15. ASSUME UNCHANGED vars PROVE IInv'
  BY <1>15, <1>1 DEF vars, TypeOK
<1> QED
  BY <1>2, <1>3, <1>4, <1>5, <1>6, <1>7, <1>8, <1>9, <1>10, <1>11, <1>12, <1>13, <1>14, <1>15 DEF Next
\* The type invariant of the base card.
THEOREM TypeCorrect == Spec => []TypeOK
<1>1. IInv => TypeOK
  BY DEF IInv
<1> QED BY InitIInv, NextIInv, <1>1, PTL DEF Spec

\* The base is under power only with the power of the keys that the base card
\* records, whatever the layout and however setPower replies come in.
THEOREM PowerFollows == Spec => []PowerFollowsKeys
<1>1. IInv => PowerFollowsKeys
  BY DEF IInv
<1> QED BY InitIInv, NextIInv, <1>1, PTL DEF Spec

\* A card whose KeyboardInput is gone neither listens nor drives.
THEOREM LeavingStops == Spec => []LeavingKeyboardStops
<1>1. IInv => LeavingKeyboardStops
  BY DEF IInv
<1> QED BY InitIInv, NextIInv, <1>1, PTL DEF Spec

\* The keyboard switch and the stopped flag say what handleToggle relies on.
THEOREM HonestSwitch == Spec => []SwitchIsHonest
<1>1. IInv => SwitchIsHonest
  BY DEF IInv
<1> QED BY InitIInv, NextIInv, <1>1, PTL DEF Spec

\* What a step does to the keys and the command, seen from DriveIntent: power
\* for recorded keys, a stop, a run from the discrete form, or nothing.
LEMMA StepKinds ==
    ASSUME Next
    PROVE  \/ DigestInput(pressed') /\ \E k \in Keys : EmitKeyDown(k) \/ (EmitKeyUp(k) /\ pressed' # {})
           \/ Stop
           \/ BaseRun
           \/ UNCHANGED <<pressed, command>>
<1>1. ASSUME NEW k \in Keys, EmitKeyDown(k) \/ EmitKeyUp(k)
      PROVE  \/ DigestInput(pressed') /\ \E j \in Keys : EmitKeyDown(j) \/ (EmitKeyUp(j) /\ pressed' # {})
             \/ Stop
  BY <1>1, Zenon DEF EmitKeyDown, EmitKeyUp, HandleKeyDown, HandleKeyUp
<1>2. ASSUME NEW p \in Physical, PressKey(p) \/ ReleaseKey(p)
      PROVE  Ignored \/ \E k \in Keys : EmitKeyDown(k) \/ EmitKeyUp(k)
  BY <1>2, ConstantsOK DEF PressKey, ReleaseKey, OnKeyDown, OnKeyUp
<1>3. ASSUME NEW b \in Buttons, PointerDown(b) \/ PointerUp(b)
      PROVE  Ignored \/ \E k \in Keys : EmitKeyDown(k) \/ EmitKeyUp(k)
  BY <1>3, ConstantsOK DEF PointerDown, PointerUp
<1>4. Ignored => UNCHANGED <<pressed, command>>
  BY DEF Ignored, card
<1>5. CASE \E on \in BOOLEAN : ToggleKeyboard(on)
  BY <1>5 DEF ToggleKeyboard, ToggleOff, HandleToggle
<1>6. CASE ClickOutside
  BY <1>6 DEF ClickOutside, ToggleOff, HandleToggle
<1>7. CASE \E tab \in {"Keyboard", "Discrete"} : HandleTabSelect(tab)
  BY <1>7 DEF HandleTabSelect, LeaveKeyboard, ToggleOff, HandleToggle
<1>8. CASE \E f \in Forms : SetForm(f)
  BY <1>8 DEF SetForm
<1>9. CASE \E f \in {"page", "window", "tab"} : HandleVisibilityChange(f)
  BY <1>9 DEF HandleVisibilityChange
<1>10. CASE PowerReply
  BY <1>10 DEF PowerReply, card
<1>11. CASE Unmount \/ StopButton
  BY <1>11 DEF Unmount, StopButton
<1> QED BY <1>1, <1>2, <1>3, <1>4, <1>5, <1>6, <1>7, <1>8, <1>9, <1>10, <1>11 DEF Next

\* The base card implements DriveIntent: the keys it records and what its last
\* command makes the base do move only as DriveIntent lets them.
THEOREM Implements == Spec => ImplementsDriveIntent
<1>1. Init => Drive!Init
  BY StopType DEF Init, Drive!Init, DriveState
<1>2. IInv /\ IInv' /\ [Next]_vars => [Drive!Next]_<<pressed, DriveState>>
  <2> SUFFICES ASSUME IInv, IInv', Next \/ UNCHANGED vars
               PROVE  Drive!Next \/ UNCHANGED <<pressed, DriveState>>
    BY DEF vars
  <2>0. pressed' \in SUBSET Keys
    BY DEF IInv, TypeOK
  <2>1. CASE UNCHANGED <<pressed, command>>
    BY <2>1 DEF DriveState
  <2>2. CASE Stop
    <3>1. DriveState' = "idle"
      BY <2>2, StopType DEF Stop, DriveState
    <3> QED BY <2>0, <3>1 DEF Drive!Next, Drive!Halt
  <2>3. CASE BaseRun
    <3>1. /\ DriveState # "power" /\ pressed' = pressed
      BY <2>3 DEF BaseRun, FormShown, KeyboardShown, IInv, LeavingKeyboardStops, card
    <3>2. DriveState' = "run"
      BY <2>3, RunOfType DEF BaseRun, DriveState
    <3> QED BY <3>1, <3>2 DEF Drive!Next, Drive!Run
  <2>4. CASE DigestInput(pressed') /\ \E k \in Keys : EmitKeyDown(k) \/ (EmitKeyUp(k) /\ pressed' # {})
    <3>1. pressed' # {}
      BY <2>4 DEF EmitKeyDown, HandleKeyDown
    <3>2. DriveState' = "power"
      BY <2>4, PowerOfType DEF DigestInput, DriveState
    <3> QED BY <2>0, <3>1, <3>2 DEF Drive!Next, Drive!Power
  <2>5. \/ DigestInput(pressed') /\ \E k \in Keys : EmitKeyDown(k) \/ (EmitKeyUp(k) /\ pressed' # {})
        \/ Stop
        \/ BaseRun
        \/ UNCHANGED <<pressed, command>>
    <3>1. CASE Next
      BY <3>1, StepKinds
    <3>2. CASE UNCHANGED vars
      BY <3>2 DEF vars
    <3> QED BY <3>1, <3>2
  <2> QED BY <2>1, <2>2, <2>3, <2>4, <2>5
<1> QED BY <1>1, <1>2, InitIInv, NextIInv, PTL DEF Spec, ImplementsDriveIntent, Drive!Spec

-----------------------------------------------------------------------------
(* The web gamepad card. *)

PadSpec == PadInit /\ [][PadNext]_padVars

\* The steps that read no gamepad, send no event and switch nothing.
Unheard == UNCHANGED <<enabled, curStates, sent>>

-----------------------------------------------------------------------------
(* What the robot was told. *)

\* ReportedIsCurrent with what a tick without a gamepad relies on: if no
\* gamepad was connected, the last events were Disconnect events or there were
\* none.
ReportInv ==
    /\ reported \subseteq Control
    /\ ReportedIsCurrent
    /\ enabled /\ ~gamepadConnectedPrev => \A c \in reported : seen[c] = "off"

\* processEvents(true) tells the robot what has changed.
LEMMA ProcessReports ==
  ASSUME ReportInv, enabled, enabled', NEW v, curStates' = v, ProcessEvents(v)
  PROVE  ReportInv'
<1> DEFINE changed == {c \in Control : v[c] # curStates[c]}
<1>1. /\ seen' = [c \in Control |-> IF c \in changed THEN Told(v[c])
                                    ELSE IF gamepadConnectedPrev THEN seen[c] ELSE "0"]
      /\ reported' = changed \union (IF gamepadConnectedPrev THEN reported ELSE {})
      /\ gamepadConnectedPrev' = TRUE
  BY Zenon DEF ProcessEvents
<1>2. reported' \subseteq Control
  BY <1>1 DEF ReportInv
<1>3. ASSUME NEW c \in reported' PROVE seen'[c] = Told(v[c])
  <2>1. CASE c \in changed
    BY <1>1, <1>2, <2>1
  <2>2. CASE c \notin changed
    <3>1. gamepadConnectedPrev /\ c \in reported /\ v[c] = curStates[c]
      BY <1>1, <1>2, <1>3, <2>2
    <3>2. seen'[c] = seen[c]
      BY <1>1, <1>2, <2>2, <3>1
    <3> QED
      BY <3>1, <3>2 DEF ReportInv, ReportedIsCurrent
  <2> QED
    BY <2>1, <2>2
<1> QED
  BY <1>1, <1>2, <1>3 DEF ReportInv, ReportedIsCurrent, Told

\* processEvents(false) leaves every control told Disconnect, or never told.
LEMMA GoneReports ==
  ASSUME ReportInv, enabled, enabled', ProcessGone
  PROVE  ReportInv'
<1>1. curStates' = [c \in Control |-> "NaN"]
  BY DEF ProcessGone, AllNaN
<1>2. CASE gamepadConnectedPrev
  <2>1. seen' = [c \in Control |-> "off"] /\ reported' = Control
    BY <1>2 DEF ProcessGone
  <2> QED
    BY <1>1, <2>1 DEF ReportInv, ReportedIsCurrent, Told
<1>3. CASE ~gamepadConnectedPrev
  <2>1. seen' = seen /\ reported' = reported
    BY <1>3 DEF ProcessGone, sent
  <2>2. \A c \in reported' : seen'[c] = "off" /\ curStates'[c] = "NaN"
    BY <1>1, <1>3, <2>1 DEF ReportInv
  <2> QED
    BY <2>1, <2>2 DEF ReportInv, ReportedIsCurrent, Told
<1> QED
  BY <1>2, <1>3

\* A tick, by whichever timer or listener, and whichever gamepad it reads.
LEMMA TickReports ==
  ASSUME ReportInv, UNCHANGED enabled, NEW i, NEW on, NEW n, NEW held, Tick(i, on, n, held)
  PROVE  ReportInv'
<1>1. CASE enabled
  <2>1. enabled'
    BY <1>1
  <2>2. CASE on
    <3>1. PICK v \in Readings(i) : curStates' = v /\ ProcessEvents(v)
      BY <1>1, <2>2 DEF Tick
    <3> QED
      BY <1>1, <2>1, <3>1, ProcessReports
  <2>3. CASE ~on
    <3>1. ProcessGone
      BY <1>1, <2>3 DEF Tick
    <3> QED
      BY <1>1, <2>1, <3>1, GoneReports
  <2> QED
    BY <2>2, <2>3
<1>2. CASE ~enabled
  <2>1. UNCHANGED sent
    BY <1>2 DEF Tick
  <2> QED
    BY <1>2, <2>1 DEF sent, ReportInv, ReportedIsCurrent
<1> QED
  BY <1>1, <1>2

\* While the card is enabled, what the robot was told last of a control is what
\* the card reads on it, whichever gamepads come and go and however the card is
\* switched off and on.
THEOREM ReportsAreCurrent == PadSpec => []ReportedIsCurrent
<1>1. PadInit => ReportInv
  BY DEF PadInit, ReportInv, ReportedIsCurrent
<1>2. ReportInv /\ [PadNext]_padVars => ReportInv'
  <2> SUFFICES ASSUME ReportInv, [PadNext]_padVars PROVE ReportInv'
    OBVIOUS
  <2>0. ASSUME Unheard PROVE ReportInv'
    BY <2>0 DEF Unheard, sent, ReportInv, ReportedIsCurrent
  <2>1. CASE TimerFires
    BY <2>1, TickReports, Zenon DEF TimerFires
  <2>2. CASE PadMount
    <3>1. CASE UNCHANGED <<curStates, sent>>
      BY <2>0, <2>2, <3>1 DEF PadMount, Unheard
    <3>2. CASE Tick(gamepadIdx', TRUE, armed, handleArmed)
      BY <2>2, <3>2, TickReports, Zenon DEF PadMount
    <3> QED
      BY <2>2, <3>1, <3>2, Zenon DEF PadMount
  <2>3. CASE Toggle
    <3>1. CASE enabled'
      BY <2>3, <3>1 DEF Toggle, ReportInv, ReportedIsCurrent
    <3>2. CASE ~enabled'
      BY <2>3, <3>2 DEF Toggle, ReportInv, ReportedIsCurrent
    <3> QED
      BY <3>1, <3>2
  <2>4. ASSUME NEW i \in Index, PlugIn(i) PROVE ReportInv'
    <3>1. CASE UNCHANGED <<curStates, sent>>
      BY <2>0, <2>4, <3>1 DEF PlugIn, Unheard
    <3>2. CASE Tick(i, TRUE, armed, handleArmed)
      BY <2>4, <3>2, TickReports, Zenon DEF PlugIn
    <3> QED
      BY <2>4, <3>1, <3>2, Zenon DEF PlugIn
  <2>5. CASE PadUnmount \/ SetClock \/ \E i \in Index : PullOut(i) \/ Disconnected(i)
    BY <2>0, <2>5 DEF PadUnmount, SetClock, PullOut, Disconnected, Unheard
  <2>6. CASE UNCHANGED padVars
    BY <2>0, <2>6 DEF padVars, Unheard, sent
  <2> QED
    BY <2>1, <2>2, <2>3, <2>4, <2>5, <2>6, SMTT(30) DEF PadNext
<1> QED
  BY <1>1, <1>2, PTL DEF PadSpec, ReportInv

-----------------------------------------------------------------------------
(* The times of the events. *)

\* The times in s increase, after lo and up to hi.
Rising(s, lo, hi) ==
    /\ s \in Seq(Nat)
    /\ \A j \in 1..Len(s) : lo < s[j] /\ s[j] <= hi
    /\ \A j \in 1..Len(s) - 1 : s[j] < s[j + 1]

\* The times of a batch increase after the last time used before it.
LEMMA BatchRises ==
  ASSUME NEW last \in Nat, NEW n \in Nat, now \in Nat
  PROVE  /\ AfterBatch(last, n) \in Nat /\ last < AfterBatch(last, n)
         /\ Rising(BatchTimes(last, n), last, AfterBatch(last, n))
<1>1. NextTS(last) \in Nat /\ last < NextTS(last)
  BY DEF NextTS
<1>2. BatchTimes(last, n) \in Seq(Nat) /\ Len(BatchTimes(last, n)) = n
  BY <1>1 DEF BatchTimes
<1> QED
  BY <1>1, <1>2 DEF BatchTimes, AfterBatch, Rising

\* Two batches in a row make one.
LEMMA ConcatRises ==
  ASSUME NEW a \in Nat, NEW b \in Nat, NEW c \in Nat, a <= b, b <= c,
         NEW s, NEW t, Rising(s, a, b), Rising(t, b, c)
  PROVE  Rising(s \o t, a, c)
<1> DEFINE st == s \o t
<1>1. s \in Seq(Nat) /\ t \in Seq(Nat) /\ Len(s) \in Nat /\ Len(t) \in Nat
  BY DEF Rising
<1>2. /\ st \in Seq(Nat) /\ Len(st) = Len(s) + Len(t)
      /\ \A j \in 1..Len(st) : st[j] = IF j <= Len(s) THEN s[j] ELSE t[j - Len(s)]
  BY <1>1
<1>3. ASSUME NEW j \in 1..Len(st) PROVE a < st[j] /\ st[j] <= c
  <2>1. CASE j <= Len(s)
    <3>1. j \in 1..Len(s) /\ st[j] = s[j] /\ s[j] \in Nat
      BY SMTT(30), <1>1, <1>2, <1>3, <2>1
    <3>2. a < s[j] /\ s[j] <= b
      BY <3>1 DEF Rising
    <3> QED
      BY <3>1, <3>2
  <2>2. CASE j > Len(s)
    <3>1. j - Len(s) \in 1..Len(t) /\ st[j] = t[j - Len(s)] /\ t[j - Len(s)] \in Nat
      BY SMTT(30), <1>1, <1>2, <1>3, <2>2
    <3>2. b < t[j - Len(s)] /\ t[j - Len(s)] <= c
      BY <3>1 DEF Rising
    <3> QED
      BY <3>1, <3>2
  <2> QED
    BY <1>1, <2>1, <2>2
<1>4. ASSUME NEW j \in 1..Len(st) - 1 PROVE st[j] < st[j + 1]
  <2>0. j \in Nat /\ j \in 1..Len(st) /\ j + 1 \in 1..Len(st)
    BY <1>1, <1>2, <1>4
  <2>1. CASE j + 1 <= Len(s)
    <3>1. j \in 1..Len(s) - 1 /\ st[j] = s[j] /\ st[j + 1] = s[j + 1]
      BY <1>1, <1>2, <2>0, <2>1
    <3> QED
      BY <3>1 DEF Rising
  <2>2. CASE j = Len(s)
    <3>1. j \in 1..Len(s) /\ 1 \in 1..Len(t) /\ st[j] = s[j] /\ st[j + 1] = t[1]
          /\ s[j] \in Nat /\ t[1] \in Nat
      BY <1>1, <1>2, <2>0, <2>2
    <3>2. s[j] <= b /\ b < t[1]
      BY <3>1, SMTT(30) DEF Rising
    <3> QED
      BY SMTT(30), <3>1, <3>2
  <2>3. CASE j > Len(s)
    <3>1. j - Len(s) \in 1..Len(t) - 1 /\ st[j] = t[j - Len(s)] /\ st[j + 1] = t[(j - Len(s)) + 1]
      BY <1>1, <1>2, <2>0, <2>3
    <3> QED
      BY <3>1 DEF Rising
  <2> QED
    BY SMTT(30), <1>1, <2>0, <2>1, <2>2, <2>3
<1> QED
  BY <1>2, <1>3, <1>4, SMTT(30) DEF Rising

\* The card remembers the latest time it has used.
TimeInv ==
    /\ lastTS \in Nat /\ now \in Nat
    /\ times \in Seq(Nat)
    /\ \A j \in 1..Len(times) : times[j] <= lastTS

\* What a step may do to the times: it sends nothing, or a batch that is later
\* than all before.
Ahead ==
    /\ lastTS' \in Nat /\ lastTS <= lastTS'
    /\ times' = times \/ Rising(times', lastTS, lastTS')

\* A step that sends nothing.
LEMMA NothingSent ==
  ASSUME TimeInv, UNCHANGED <<lastTS, times>>
  PROVE  Ahead
BY DEF TimeInv, Ahead

\* A batch for every control.
LEMMA BatchAhead ==
  ASSUME TimeInv, times' = BatchTimes(lastTS, Cardinality(Control)),
         lastTS' = AfterBatch(lastTS, Cardinality(Control))
  PROVE  Ahead
<1>1. Cardinality(Control) \in Nat
  BY PadConstantsOK, FS_CardinalityType
<1>2. /\ lastTS' \in Nat /\ lastTS < lastTS'
      /\ Rising(times', lastTS, lastTS')
  BY <1>1, BatchRises, Zenon DEF TimeInv
<1> QED
  BY <1>2 DEF TimeInv, Ahead

\* processEvents(true): the Connect events, if any, and the changes.
LEMMA ProcessAhead ==
  ASSUME TimeInv, NEW v, ProcessEvents(v)
  PROVE  Ahead
<1> DEFINE all == Cardinality(Control)
           changed == {c \in Control : v[c] # curStates[c]}
           connect == IF gamepadConnectedPrev THEN <<>> ELSE BatchTimes(lastTS, all)
           last == IF gamepadConnectedPrev THEN lastTS ELSE AfterBatch(lastTS, all)
           changes == BatchTimes(last, Cardinality(changed))
           after == AfterBatch(last, Cardinality(changed))
<1>1. lastTS' = after /\ times' = IF connect \o changes = <<>> THEN times ELSE connect \o changes
  BY Zenon DEF ProcessEvents
<1>2. all \in Nat /\ Cardinality(changed) \in Nat
  BY PadConstantsOK, FS_CardinalityType, FS_Subset
<1>3. last \in Nat /\ lastTS <= last /\ Rising(connect, lastTS, last)
  <2>1. CASE gamepadConnectedPrev
    <3>1. connect = <<>> /\ last = lastTS
      BY <2>1
    <3>2. Rising(<<>>, lastTS, lastTS)
      BY DEF Rising
    <3> QED
      BY <3>1, <3>2 DEF TimeInv
  <2>2. CASE ~gamepadConnectedPrev
    <3>1. connect = BatchTimes(lastTS, all) /\ last = AfterBatch(lastTS, all)
      BY <2>2
    <3>2. last \in Nat /\ lastTS < last /\ Rising(connect, lastTS, last)
      BY <1>2, <3>1, BatchRises, Zenon DEF TimeInv
    <3> QED
      BY <3>2 DEF TimeInv
  <2> QED
    BY <2>1, <2>2
<1>4. after \in Nat /\ last <= after /\ Rising(changes, last, after)
  <2> HIDE DEF last
  <2>1. after \in Nat /\ last < after /\ Rising(changes, last, after)
    BY <1>2, <1>3, BatchRises, Zenon DEF TimeInv
  <2> QED
    BY <1>3, <2>1
<1>5. Rising(connect \o changes, lastTS, after)
  <2> HIDE DEF last, connect, changes, after
  <2> QED
    BY <1>3, <1>4, ConcatRises, ZenonT(30) DEF TimeInv
<1>6. lastTS <= after
  <2> HIDE DEF last, after
  <2> QED
    BY <1>3, <1>4 DEF TimeInv
<1> HIDE DEF connect, changes, after
<1> QED
  BY <1>1, <1>4, <1>5, <1>6 DEF Ahead

\* A tick sends nothing, or one of these batches.
LEMMA TickAhead ==
  ASSUME TimeInv, NEW i, NEW on, NEW n, NEW held, Tick(i, on, n, held)
  PROVE  Ahead
<1>1. CASE UNCHANGED sent
  BY <1>1, NothingSent DEF sent
<1>2. ASSUME NEW v, ProcessEvents(v) PROVE Ahead
  BY <1>2, ProcessAhead
<1>3. CASE ProcessGone
  <2>1. CASE gamepadConnectedPrev
    BY <1>3, <2>1, BatchAhead DEF ProcessGone
  <2>2. CASE ~gamepadConnectedPrev
    BY <1>1, <1>3, <2>2 DEF ProcessGone
  <2> QED
    BY <2>1, <2>2
<1> QED
  BY <1>1, <1>2, <1>3 DEF Tick

\* So does every step of the card.
LEMMA StepAhead ==
  ASSUME TimeInv, [PadNext]_padVars
  PROVE  Ahead /\ now' \in Nat
<1>0. ASSUME Unheard PROVE Ahead
  BY <1>0, NothingSent DEF Unheard, sent
<1>1. CASE TimerFires
  BY <1>1, TickAhead, Zenon DEF TimerFires, TimeInv
<1>2. CASE PadMount
  <2>1. CASE UNCHANGED sent
    BY <2>1, NothingSent, <1>2 DEF sent, PadMount, TimeInv
  <2>2. CASE Tick(gamepadIdx', TRUE, armed, handleArmed)
    BY <1>2, <2>2, TickAhead, Zenon DEF PadMount, TimeInv
  <2> QED
    BY <1>2, <2>1, <2>2, Zenon DEF PadMount
<1>3. CASE Toggle
  <2>0. now' = now
    BY <1>3 DEF Toggle
  <2>1. CASE UNCHANGED <<times, lastTS>>
    BY <2>0, <2>1, NothingSent DEF TimeInv
  <2>2. CASE times' = BatchTimes(lastTS, Cardinality(Control)) /\ lastTS' = AfterBatch(lastTS, Cardinality(Control))
    BY <2>0, <2>2, BatchAhead DEF TimeInv
  <2>3. CASE times' = times /\ lastTS' = AfterBatch(lastTS, Cardinality(Control))
    <3>1. Cardinality(Control) \in Nat
      BY PadConstantsOK, FS_CardinalityType
    <3>2. lastTS' \in Nat /\ lastTS < lastTS'
      BY <2>3, <3>1, BatchRises, Zenon DEF TimeInv
    <3>3. lastTS <= lastTS'
      BY <3>2 DEF TimeInv
    <3> QED
      BY <2>0, <2>3, <3>2, <3>3 DEF TimeInv, Ahead
  <2> QED
    BY <1>3, <2>1, <2>2, <2>3 DEF Toggle
<1>4. ASSUME NEW i \in Index, PlugIn(i) PROVE Ahead /\ now' \in Nat
  <2>0. now' = now
    BY <1>4 DEF PlugIn
  <2>1. CASE UNCHANGED sent
    BY <2>0, <2>1, NothingSent DEF sent, TimeInv
  <2>2. CASE Tick(i, TRUE, armed, handleArmed)
    BY <2>0, <2>2, TickAhead, Zenon DEF TimeInv
  <2> QED
    BY <1>4, <2>1, <2>2, Zenon DEF PlugIn
<1>5. CASE PadUnmount \/ \E i \in Index : PullOut(i) \/ Disconnected(i)
  BY <1>0, <1>5 DEF PadUnmount, PullOut, Disconnected, Unheard, TimeInv
<1>6. CASE SetClock
  BY <1>0, <1>6, PadConstantsOK DEF SetClock, Unheard
<1>7. CASE UNCHANGED padVars
  BY <1>0, <1>7 DEF padVars, Unheard, sent, TimeInv
<1> QED
  BY <1>1, <1>2, <1>3, <1>4, <1>5, <1>6, <1>7, SMTT(30) DEF PadNext

\* Every event that is sent is later than every event sent before, whatever the
\* browser's clock does, for any number of controls and of tick timers.
THEOREM TimesIncrease == PadSpec => EventTimesIncrease
<1> DEFINE Later == times' # times =>
              LET all == (IF times = <<>> THEN <<>> ELSE <<times[Len(times)]>>) \o times'
              IN \A j \in 1..Len(all) - 1 : all[j] < all[j + 1]
<1>1. PadInit => TimeInv
  BY DEF PadInit, TimeInv
<1>2. TimeInv /\ [PadNext]_padVars => TimeInv'
  <2> SUFFICES ASSUME TimeInv, [PadNext]_padVars PROVE TimeInv'
    OBVIOUS
  <2>1. Ahead /\ now' \in Nat
    BY StepAhead
  <2>2. CASE times' = times
    BY <2>1, <2>2 DEF Ahead, TimeInv
  <2>3. CASE Rising(times', lastTS, lastTS')
    BY <2>1, <2>3 DEF Ahead, TimeInv, Rising
  <2> QED
    BY <2>1, <2>2, <2>3 DEF Ahead
<1>3. TimeInv /\ [PadNext]_padVars => [Later]_padVars
  <2> SUFFICES ASSUME TimeInv, [PadNext]_padVars, times' # times PROVE Later
    OBVIOUS
  <2>1. Rising(times', lastTS, lastTS')
    BY StepAhead DEF Ahead
  <2>2. CASE times = <<>>
    <3>1. <<>> \o times' = times'
      BY <2>1 DEF Rising
    <3> QED
      BY <2>1, <2>2, <3>1 DEF Rising
  <2>3. CASE times # <<>>
    <3> DEFINE latest == times[Len(times)]
    <3>1. latest \in Nat /\ latest <= lastTS
      BY <2>3 DEF TimeInv
    <3>2. lastTS \in Nat /\ lastTS' \in Nat /\ times' \in Seq(Nat)
      BY <2>1, StepAhead DEF Ahead, TimeInv, Rising
    <3> DEFINE all == <<latest>> \o times'
    <3>3. /\ Len(all) = 1 + Len(times') /\ Len(times') \in Nat
          /\ all[1] = latest
          /\ \A j \in 1..Len(times') : all[j + 1] = times'[j]
      BY <3>1, <3>2
    <3>4. ASSUME NEW j \in 1..Len(all) - 1 PROVE all[j] < all[j + 1]
      <4>1. CASE j = 1
        BY <2>1, <3>1, <3>2, <3>3, <3>4, <4>1, SMTT(30) DEF Rising
      <4>2. CASE j # 1
        <5>1. j - 1 \in 1..Len(times') - 1 /\ all[j] = times'[j - 1] /\ all[j + 1] = times'[(j - 1) + 1]
          BY <3>3, <3>4, <4>2
        <5> QED
          BY <2>1, <5>1 DEF Rising
      <4> QED
        BY <4>1, <4>2
    <3> QED
      BY <2>3, <3>4
  <2> QED
    BY <2>2, <2>3
<1> QED
  BY <1>1, <1>2, <1>3, PTL DEF PadSpec, EventTimesIncrease
=============================================================================
