----------------------------- MODULE BaseControl -----------------------------
(***************************************************************************)
(* The base card (components/base.vue) together with the KeyboardInput it  *)
(* contains (components/keyboard-input.vue), the keyboard, the pointer and *)
(* the browser tab the events come from.                                   *)
(*                                                                         *)
(* One event handler, with the component events it emits and the watcher   *)
(* it wakes, is one step.  A call to the robot is issued in the step; the  *)
(* reply of a setPower call is a step of its own, because digestInput goes *)
(* on after it.  Speeds, distances and the power percentage are left out:  *)
(* a command keeps the sign of its linear and angular part.                *)
(***************************************************************************)
EXTENDS Integers

CONSTANTS
    Physical,   \* the physical keys the user works with
    Keymap,     \* what normalizeKey makes of each of them
    Buttons,    \* the on-screen keys the user works with
    NoKey,      \* normalizeKey's null; also "the pointer holds no button"
    MaxCalls    \* bound on the setPower calls in flight

Keys == {"w", "a", "s", "d"}

ASSUME ConstantsOK ==
    /\ Keymap \in [Physical -> Keys \union {NoKey}]
    /\ Buttons \subseteq Keys
    /\ NoKey \notin Keys
    /\ MaxCalls \in Nat

VARIABLES
    mounted,      \* the card is on the page
    selectedMode, \* tab of the card: KeyboardInput or the discrete form
    form,         \* the radio buttons of the discrete form
    isActive,     \* keyboardStates.isActive, shown by the keyboard switch
    listening,    \* KeyboardInput's key listeners are on the window
    pressedKeys,  \* KeyboardInput's own record of pressed keys
    pressed,      \* the base card's set of pressed keys
    stopped,      \* the base card's flag
    command,      \* the last command issued to the base
    pending,      \* setPower calls in flight
    down,         \* physical keys the user holds
    pointer,      \* on-screen key the pointer holds
    focus         \* where the user is: this page, another window, another tab

vars == <<mounted, selectedMode, form, isActive, listening, pressedKeys, pressed,
          stopped, command, pending, down, pointer, focus>>
card == <<selectedMode, form, isActive, listening, pressedKeys, pressed>>
user == <<down, pointer, focus>>

Command(op, linear, angular) == [op |-> op, linear |-> linear, angular |-> angular]

Commands == [op : {"none", "stop", "setPower", "setVelocity", "moveStraight", "spin"},
             linear : -1..1, angular : -1..1]

\* What the last command makes the base do.
DriveState ==
    IF command.op \in {"none", "stop"} THEN "idle"
    ELSE IF command.op = "setPower" THEN "power" ELSE "run"

Forms == [movementMode : {"Straight", "Spin"},
          movementType : {"Continuous", "Discrete"},
          direction    : {"Forwards", "Backwards"},
          spinType     : {"Clockwise", "Counterclockwise"}]

ResetForm == [movementMode |-> "Straight", movementType |-> "Continuous",
              direction |-> "Forwards", spinType |-> "Clockwise"]

TypeOK ==
    /\ mounted \in BOOLEAN
    /\ selectedMode \in {"Keyboard", "Discrete"}
    /\ form \in Forms
    /\ isActive \in BOOLEAN
    /\ listening \in BOOLEAN
    /\ pressedKeys \in SUBSET Keys
    /\ pressed \in SUBSET Keys
    /\ stopped \in BOOLEAN
    /\ command \in Commands
    /\ pending \in 0..MaxCalls
    /\ down \in SUBSET Physical
    /\ pointer \in Keys \union {NoKey}
    /\ focus \in {"page", "window", "tab"}

Init ==
    /\ mounted = TRUE
    /\ selectedMode = "Keyboard"
    /\ form = ResetForm
    /\ isActive = FALSE
    /\ listening = FALSE
    /\ pressedKeys = {}
    /\ pressed = {}
    /\ stopped = TRUE
    /\ command = Command("none", 0, 0)
    /\ pending = 0
    /\ down = {}
    /\ pointer = NoKey
    /\ focus = "page"

-----------------------------------------------------------------------------
(* What is on the screen. *)

KeyboardShown == mounted /\ selectedMode = "Keyboard"
FormShown == mounted /\ selectedMode = "Discrete"

-----------------------------------------------------------------------------
(* The commands of the base card. *)

\* stop(): the flag is set before the call is made, and nothing waits for it.
Stop ==
    /\ stopped' = TRUE
    /\ command' = Command("stop", 0, 0)

Held(keys, k) == IF k \in keys THEN 1 ELSE 0

\* The power digestInput asks for: opposite keys cancel out.
PowerOf(keys) ==
    Command("setPower", Held(keys, "w") - Held(keys, "s"), Held(keys, "a") - Held(keys, "d"))

\* digestInput up to its await.
DigestInput(keys) ==
    /\ pending < MaxCalls
    /\ pending' = pending + 1
    /\ command' = PowerOf(keys)

\* digestInput after its await: only a failed call has an effect, and only
\* when the set it reads by then is empty.
PowerReply ==
    /\ pending > 0
    /\ pending' = pending - 1
    /\ \/ UNCHANGED <<stopped, command>>
       \/ IF pressed = {} THEN Stop ELSE UNCHANGED <<stopped, command>>
    /\ UNCHANGED <<mounted, card, user>>

\* The base card on KeyboardInput's "keydown" event.
HandleKeyDown(k) ==
    /\ pressed' = pressed \union {k}
    /\ DigestInput(pressed')
    /\ UNCHANGED stopped

\* The base card on KeyboardInput's "keyup" event.
HandleKeyUp(k) ==
    /\ pressed' = pressed \ {k}
    /\ IF pressed' # {}
         THEN /\ stopped' = FALSE
              /\ DigestInput(pressed')
         ELSE /\ Stop
              /\ UNCHANGED pending

\* Mutant: only the flag is tested, which a single key never lowers.
ToggleTestsFlagOnly ==
    IF ~stopped THEN Stop ELSE UNCHANGED <<stopped, command>>

\* The base card on KeyboardInput's "toggle" event, the switch being off.
HandleToggle ==
    IF pressed # {} \/ ~stopped THEN Stop ELSE UNCHANGED <<stopped, command>>

-----------------------------------------------------------------------------
(* KeyboardInput. *)

EmitKeyDown(k) ==
    /\ pressedKeys' = pressedKeys \union {k}
    /\ HandleKeyDown(k)
    /\ UNCHANGED <<selectedMode, form, isActive, listening>>

EmitKeyUp(k) ==
    /\ pressedKeys' = pressedKeys \ {k}
    /\ HandleKeyUp(k)
    /\ UNCHANGED <<selectedMode, form, isActive, listening>>

Ignored == UNCHANGED <<card, stopped, command, pending>>

\* A keydown event of physical key p, if it reaches the listener.
OnKeyDown(p) ==
    LET k == Keymap[p] IN
    IF ~listening \/ k = NoKey \/ k \in pressedKeys THEN Ignored ELSE EmitKeyDown(k)

OnKeyUp(p) ==
    LET k == Keymap[p] IN
    IF ~listening \/ k = NoKey THEN Ignored ELSE EmitKeyUp(k)

\* The user presses a key, or holds one that the keyboard repeats.
PressKey(p) ==
    /\ focus = "page"
    /\ down' = down \union {p}
    /\ OnKeyDown(p)
    /\ UNCHANGED <<mounted, pointer, focus>>

\* The keyup event goes to the window that has the focus.
ReleaseKey(p) ==
    /\ p \in down
    /\ down' = down \ {p}
    /\ IF focus = "page" THEN OnKeyUp(p) ELSE Ignored
    /\ UNCHANGED <<mounted, pointer, focus>>

PointerDown(k) ==
    /\ KeyboardShown
    /\ focus = "page"
    /\ pointer = NoKey
    /\ pointer' = k
    /\ EmitKeyDown(k)
    /\ UNCHANGED <<mounted, down, focus>>

\* pointerup and pointerleave have the same handler, so leaving a button that
\* was only hovered over comes here too.
PointerUp(k) ==
    /\ focus = "page"
    /\ pointer \in {k, NoKey}
    /\ pointer' = NoKey
    /\ IF KeyboardShown THEN EmitKeyUp(k) ELSE Ignored
    /\ UNCHANGED <<mounted, down, focus>>

\* toggleKeyboard(false): the listeners go and the card is told, but neither
\* record of pressed keys is cleared.  The watcher on isActive calls it a
\* second time, which changes nothing more.
ToggleOff ==
    /\ listening' = FALSE
    /\ isActive' = FALSE
    /\ HandleToggle

\* The keyboard switch: toggleKeyboard(nowActive).
ToggleKeyboard(nowActive) ==
    /\ KeyboardShown
    /\ IF nowActive
         THEN /\ listening' = TRUE
              /\ isActive' = TRUE
              /\ UNCHANGED <<stopped, command>>
         ELSE ToggleOff
    /\ UNCHANGED <<mounted, selectedMode, form, pressedKeys, pressed, pending, user>>

-----------------------------------------------------------------------------
(* The rest of the base card. *)

\* A click outside the card clears isActive; KeyboardInput watches it.
ClickOutside ==
    /\ mounted
    /\ IF isActive /\ KeyboardShown
         THEN ToggleOff
         ELSE isActive' = FALSE /\ UNCHANGED <<listening, stopped, command>>
    /\ UNCHANGED <<mounted, selectedMode, form, pressedKeys, pressed, pending, user>>

\* Mutant: KeyboardInput has no onUnmounted hook.
LeaveWithoutHook ==
    /\ pressedKeys' = {}
    /\ UNCHANGED <<isActive, listening, stopped, command>>

\* KeyboardInput is unmounted: its onUnmounted hook switches the keyboard off
\* and its record of pressed keys is lost.
LeaveKeyboard ==
    /\ ToggleOff
    /\ pressedKeys' = {}

HandleTabSelect(tab) ==
    /\ mounted
    /\ selectedMode' = tab
    /\ form' = IF tab = "Discrete" THEN ResetForm ELSE form
    /\ IF KeyboardShown /\ tab = "Discrete"
         THEN LeaveKeyboard
         ELSE UNCHANGED <<isActive, listening, pressedKeys, stopped, command>>
    /\ UNCHANGED <<mounted, pressed, pending, user>>

\* A radio button of the discrete form; only the fields of the chosen
\* movement mode are on the screen.
SetForm(f) ==
    /\ FormShown
    /\ \/ f = [form EXCEPT !.movementMode = f.movementMode]
       \/ /\ form.movementMode = "Straight"
          /\ \/ f = [form EXCEPT !.movementType = f.movementType]
             \/ f = [form EXCEPT !.direction = f.direction]
       \/ /\ form.movementMode = "Spin"
          /\ f = [form EXCEPT !.spinType = f.spinType]
    /\ form' = f
    /\ UNCHANGED <<mounted, selectedMode, isActive, listening, pressedKeys, pressed,
                   stopped, command, pending, user>>

RunOf(f) ==
    LET way == IF f.direction = "Forwards" THEN 1 ELSE -1 IN
    IF f.movementMode = "Spin"
      THEN Command("spin", 0, IF f.spinType = "Clockwise" THEN -1 ELSE 1)
      ELSE IF f.movementType = "Continuous"
             THEN Command("setVelocity", way, 0)
             ELSE Command("moveStraight", way, 0)

BaseRun ==
    /\ FormShown
    /\ command' = RunOf(form)
    /\ UNCHANGED <<mounted, card, stopped, pending, user>>

StopButton ==
    /\ mounted
    /\ Stop
    /\ UNCHANGED <<mounted, card, pending, user>>

\* The user leaves for another tab or window, or comes back.
MoveFocus(f) ==
    /\ f # focus
    /\ focus' = f
    /\ UNCHANGED <<down, pointer, mounted, selectedMode, form, isActive, listening,
                   pressedKeys, pending>>

\* handleVisibilityChange: only a hidden tab counts, another window does not.
HandleVisibilityChange(f) ==
    /\ MoveFocus(f)
    /\ IF mounted /\ f = "tab" /\ pressed # {}
         THEN pressed' = {} /\ Stop
         ELSE UNCHANGED <<pressed, stopped, command>>

\* The card leaves the page: KeyboardInput's hook runs before the card's.
Unmount ==
    /\ mounted
    /\ mounted' = FALSE
    /\ IF selectedMode = "Keyboard"
         THEN listening' = FALSE /\ isActive' = FALSE /\ pressedKeys' = {}
         ELSE UNCHANGED <<listening, isActive, pressedKeys>>
    /\ Stop
    /\ UNCHANGED <<selectedMode, form, pressed, pending, user>>

Next ==
    \/ \E p \in Physical : PressKey(p) \/ ReleaseKey(p)
    \/ \E k \in Buttons : PointerDown(k) \/ PointerUp(k)
    \/ \E on \in BOOLEAN : ToggleKeyboard(on)
    \/ ClickOutside
    \/ \E tab \in {"Keyboard", "Discrete"} : HandleTabSelect(tab)
    \/ \E f \in Forms : SetForm(f)
    \/ BaseRun
    \/ StopButton
    \/ \E f \in {"page", "window", "tab"} : HandleVisibilityChange(f)
    \/ PowerReply
    \/ Unmount

Spec == Init /\ [][Next]_vars

-----------------------------------------------------------------------------
\* The base is under power only while the card records a pressed key, and with
\* the power of exactly the keys recorded: every way the record changes (key,
\* pointer, hidden tab) also issues the matching command.
PowerFollowsKeys ==
    DriveState = "power" => pressed # {} /\ command = PowerOf(pressed)

\* Leaving KeyboardInput, by the other tab or by removing the card, leaves
\* neither a key listener on the window nor a base under power.
LeavingKeyboardStops ==
    ~KeyboardShown => ~listening /\ ~isActive /\ DriveState # "power"

\* The switch shows whether the window's keys drive the base, and handleToggle
\* never has a base under power that its two conditions miss.
SwitchIsHonest ==
    /\ listening <=> isActive
    /\ DriveState = "power" \/ ~stopped => pressed # {}
    /\ ~stopped => DriveState = "power"

Drive == INSTANCE DriveIntent WITH held <- pressed, drive <- DriveState

\* The card keeps the promise of DriveIntent.
ImplementsDriveIntent == Drive!Spec

\* The comment in handleVisibilityChange: hiding the tab does not interfere
\* with a command issued otherwise (here: a discrete run) when no key is
\* pressed.
HiddenTabSparesOtherCommands ==
    [][focus' = "tab" /\ focus # "tab" /\ down = {} /\ pointer = NoKey /\ DriveState = "run"
         => command' = command]_vars
=============================================================================
