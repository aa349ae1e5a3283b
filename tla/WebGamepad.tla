----------------------------- MODULE WebGamepad -----------------------------
(***************************************************************************)
(* The web gamepad card (components/gamepad.vue): gamepads are plugged in  *)
(* and out, a 10 ms timer reads the current one, and what changed is sent  *)
(* to the robot as time-stamped events while the card is enabled.          *)
(*                                                                         *)
(* A tick is one step; the values it reads are any the gamepad can have.   *)
(* Times are numbers whose unit is the nanosecond by which two events of a *)
(* batch differ; the browser's clock may be set forwards and backwards.    *)
(* What becomes of an event that was sent is left out.                     *)
(***************************************************************************)
EXTENDS Integers, FiniteSets, Sequences

CONSTANTS
    Index,      \* the browser's gamepad indices
    Control,    \* the controls in curStates
    Lacks,      \* per index, the controls that gamepad does not have
    NoPad,      \* gamepadIdx is null
    MaxPlugs,   \* bound on how often a gamepad is plugged in
    MaxTime,    \* bound on the clock
    MaxTS       \* bound on the event times at which another event is sent

ASSUME PadConstantsOK ==
    /\ Index \subseteq Nat /\ NoPad \notin Index
    /\ IsFiniteSet(Control)
    /\ Lacks \in [Index -> SUBSET Control]
    /\ MaxPlugs \in Nat /\ MaxTime \in Nat /\ MaxTS \in Nat

\* A control's value: at rest, pushed, or not a number.
PadValue == {"0", "1", "NaN"}

VARIABLES
    padCard,              \* not mounted yet, shown, or unmounted
    enabled,
    gamepadIdx, gamepadConnectedPrev,
    curStates,
    armed, handleArmed,   \* tick timers that are set; handle is the id of one of them
    lastTS, now,
    times,                \* the times of the events sent last
    seen,                 \* what the robot was last told of each control
    reported,             \* controls with an event of their own since enabling
    present, leaving,     \* gamepads plugged in; "gamepaddisconnected" still to come
    plugs

padVars == <<padCard, enabled, gamepadIdx, gamepadConnectedPrev, curStates, armed, handleArmed, lastTS,
          now, times, seen, reported, present, leaving, plugs>>
sent == <<lastTS, times, seen, reported, gamepadConnectedPrev>>
pads == <<present, leaving, plugs>>

PadTypeOK ==
    /\ padCard \in {"new", "shown", "gone"}
    /\ {enabled, gamepadConnectedPrev, handleArmed} \subseteq BOOLEAN
    /\ gamepadIdx \in Index \union {NoPad}
    /\ curStates \in [Control -> PadValue]
    /\ armed \in Nat /\ (handleArmed => armed > 0)
    /\ {lastTS, now} \subseteq Nat
    /\ times \in Seq(Nat)
    /\ seen \in [Control -> {"none", "0", "1", "off"}]
    /\ reported \subseteq Control
    /\ present \subseteq Index /\ leaving \subseteq Index
    /\ plugs \in 0..MaxPlugs

AllNaN == [c \in Control |-> "NaN"]

PadInit ==
    /\ padCard = "new" /\ enabled = FALSE
    /\ gamepadIdx = NoPad /\ gamepadConnectedPrev = FALSE
    /\ curStates = AllNaN
    /\ armed = 0 /\ handleArmed = FALSE
    /\ lastTS = 0 /\ now = 0 /\ times = <<>>
    /\ seen = [c \in Control |-> "none"] /\ reported = {}
    /\ present \in SUBSET Index /\ leaving = {} /\ plugs = 0

-----------------------------------------------------------------------------
(* Time stamps. *)

\* Mutant: the clock as it is.
ClockTS(last) == now

\* nextTS: the clock, unless it is not past the last time that was used.
NextTS(last) == IF last >= now THEN last + 1 ELSE now

\* The times of n events sent in a row, and what lastTS is after them.
BatchTimes(last, n) == [j \in 1..n |-> NextTS(last) + j]
AfterBatch(last, n) == NextTS(last) + n

-----------------------------------------------------------------------------
(* Events. *)

\* What an event tells the robot about a value; "off" is a Disconnect event.
Told(v) == IF v = "NaN" THEN "off" ELSE v

\* processEvents(true), the values being v: a Connect event for every control
\* if there was none yet, then the changes.
ProcessEvents(v) ==
    LET all == Cardinality(Control)
        changed == {c \in Control : v[c] # curStates[c]}
        connect == IF gamepadConnectedPrev THEN <<>> ELSE BatchTimes(lastTS, all)
        last == IF gamepadConnectedPrev THEN lastTS ELSE AfterBatch(lastTS, all)
        batch == connect \o BatchTimes(last, Cardinality(changed))
    IN
    /\ lastTS' = AfterBatch(last, Cardinality(changed))
    /\ times' = IF batch = <<>> THEN times ELSE batch
    /\ seen' = [c \in Control |-> IF c \in changed THEN Told(v[c])
                                  ELSE IF gamepadConnectedPrev THEN seen[c] ELSE "0"]
    /\ reported' = changed \union (IF gamepadConnectedPrev THEN reported ELSE {})
    /\ gamepadConnectedPrev' = TRUE

\* Mutant: the card forgets the gamepad without telling the robot.
GoneQuietly ==
    /\ curStates' = AllNaN
    /\ gamepadConnectedPrev' = FALSE
    /\ UNCHANGED <<lastTS, times, seen, reported>>

\* processEvents(false): Disconnect events if Connect events went before.
ProcessGone ==
    /\ curStates' = AllNaN
    /\ IF gamepadConnectedPrev
         THEN /\ times' = BatchTimes(lastTS, Cardinality(Control))
              /\ lastTS' = AfterBatch(lastTS, Cardinality(Control))
              /\ seen' = [c \in Control |-> "off"]
              /\ reported' = Control
              /\ gamepadConnectedPrev' = FALSE
         ELSE UNCHANGED sent

-----------------------------------------------------------------------------
(* The timer. *)

Readings(i) == {v \in [Control -> PadValue] : \A c \in Control : v[c] = "NaN" <=> c \in Lacks[i]}

\* Mutant: a tick that finds no gamepad returns at once.
TickReturns(i, on, n, held) ==
    IF on
      THEN /\ \E v \in Readings(i) :
                /\ curStates' = v
                /\ IF enabled THEN ProcessEvents(v) ELSE UNCHANGED sent
           /\ armed' = n + 1
           /\ handleArmed' = TRUE
      ELSE /\ UNCHANGED <<curStates, sent>>
           /\ armed' = n
           /\ handleArmed' = held

\* tick() with gamepad i current, connected or not, and n timers left besides the one it sets.
\* Without a connected gamepad it does not set another.
Tick(i, on, n, held) ==
    IF on
      THEN /\ \E v \in Readings(i) :
                /\ curStates' = v
                /\ IF enabled THEN ProcessEvents(v) ELSE UNCHANGED sent
           /\ armed' = n + 1
           /\ handleArmed' = TRUE
      ELSE /\ IF enabled THEN ProcessGone ELSE UNCHANGED <<curStates, sent>>
           /\ armed' = n
           /\ handleArmed' = held

\* A timer fires: the one whose id is held, or another.
TimerFires ==
    /\ lastTS <= MaxTS
    /\ \/ handleArmed /\ Tick(gamepadIdx, gamepadIdx \in present, armed - 1, FALSE)
       \/ armed > (IF handleArmed THEN 1 ELSE 0) /\ Tick(gamepadIdx, gamepadIdx \in present, armed - 1, handleArmed)
    /\ UNCHANGED <<padCard, enabled, gamepadIdx, now, pads>>

-----------------------------------------------------------------------------
(* The card. *)

\* onMounted: the initial search takes the first gamepad, but index 0 counts as
\* none when it comes to starting the timer.
PadMount ==
    /\ padCard = "new"
    /\ padCard' = "shown"
    /\ gamepadIdx' = IF present = {} THEN NoPad ELSE CHOOSE i \in present : \A j \in present : i <= j
    /\ IF gamepadIdx' \in {NoPad, 0}
         THEN UNCHANGED <<curStates, sent, armed, handleArmed>>
         ELSE Tick(gamepadIdx', TRUE, armed, handleArmed)
    /\ UNCHANGED <<enabled, now, pads>>

\* onUnmounted clears one timer; the window's listeners and the other timers
\* stay, and with them the state of the card.
PadUnmount ==
    /\ padCard = "shown"
    /\ padCard' = "gone"
    /\ armed' = IF handleArmed THEN armed - 1 ELSE armed
    /\ handleArmed' = FALSE
    /\ UNCHANGED <<enabled, gamepadIdx, curStates, sent, now, pads>>

\* The switch, then the watcher: connectEvent(enabled).  The Disconnect events
\* of a card that was just disabled are dropped by sendEvent; only the times
\* they would have had are used up.
Toggle ==
    /\ padCard = "shown"
    /\ lastTS <= MaxTS
    /\ enabled' = ~enabled
    /\ IF enabled'
         THEN /\ reported' = {}
              /\ IF gamepadIdx \in present
                   THEN /\ times' = BatchTimes(lastTS, Cardinality(Control))
                        /\ lastTS' = AfterBatch(lastTS, Cardinality(Control))
                        /\ seen' = [c \in Control |-> "0"]
                   ELSE UNCHANGED <<times, lastTS, seen>>
         ELSE /\ lastTS' = IF gamepadConnectedPrev THEN AfterBatch(lastTS, Cardinality(Control)) ELSE lastTS
              /\ UNCHANGED <<times, seen, reported>>
    /\ UNCHANGED <<padCard, gamepadIdx, gamepadConnectedPrev, curStates, armed, handleArmed, now, pads>>

\* A gamepad is plugged in: the "gamepadconnected" listener takes it unless it
\* has one already, index 0 counting as none.
PlugIn(i) ==
    /\ i \notin present \union leaving
    /\ plugs < MaxPlugs
    /\ lastTS <= MaxTS
    /\ plugs' = plugs + 1
    /\ present' = present \union {i}
    /\ IF padCard = "new" \/ gamepadIdx \notin {NoPad, 0}
         THEN UNCHANGED <<gamepadIdx, curStates, sent, armed, handleArmed>>
         ELSE /\ gamepadIdx' = i
              /\ Tick(i, TRUE, armed, handleArmed)
    /\ UNCHANGED <<padCard, enabled, now, leaving>>

\* A gamepad is pulled out; its event comes later.
PullOut(i) ==
    /\ i \in present
    /\ present' = present \ {i}
    /\ leaving' = leaving \union {i}
    /\ UNCHANGED <<padCard, enabled, gamepadIdx, curStates, sent, armed, handleArmed, now, plugs>>

\* The "gamepaddisconnected" listener.
Disconnected(i) ==
    /\ i \in leaving
    /\ leaving' = leaving \ {i}
    /\ gamepadIdx' = IF gamepadIdx = i \/ gamepadIdx \notin present THEN NoPad ELSE gamepadIdx
    /\ UNCHANGED <<padCard, enabled, curStates, sent, armed, handleArmed, now, present, plugs>>

SetClock ==
    /\ now' \in (0..MaxTime) \ {now}
    /\ UNCHANGED <<padCard, enabled, gamepadIdx, curStates, sent, armed, handleArmed, pads>>

PadNext ==
    \/ TimerFires
    \/ PadMount \/ PadUnmount \/ Toggle
    \/ \E i \in Index : PlugIn(i) \/ PullOut(i) \/ Disconnected(i)
    \/ SetClock

\* Timers fire.
PadFairness == WF_padVars(TimerFires)

-----------------------------------------------------------------------------
(* Properties. *)

\* Whatever happens to the browser's clock, and however many tick timers run,
\* every event the card sends is later than every event it sent before
\* (nextTS, and the nanosecond added per event).
EventTimesIncrease ==
    [][times' # times =>
         LET all == (IF times = <<>> THEN <<>> ELSE <<times[Len(times)]>>) \o times'
         IN \A j \in 1..Len(all) - 1 : all[j] < all[j + 1]]_padVars

\* While the card is enabled, what the robot was told last about a control that
\* had an event of its own since is what the card reads on it: no change is
\* lost to the gamepad being pulled out, swapped or plugged in again, nor to a
\* second timer (processEvents compares every reading with the one before).
ReportedIsCurrent ==
    enabled => \A c \in reported : seen[c] = Told(curStates[c])

PadGone == gamepadIdx \notin present

\* A gamepad that is lost while the card is enabled and its timer runs is
\* reported: the robot is told Disconnect for every control, unless the card is
\* disabled or unmounted or a gamepad comes back first (tick on a missing gamepad calls
\* processEvents(false)), or the bound on the event times is reached.
LossIsReported ==
    (enabled /\ gamepadConnectedPrev /\ PadGone /\ armed > 0)
      ~> (~enabled \/ padCard = "gone" \/ ~PadGone \/ (\A c \in Control : seen[c] = "off") \/ lastTS > MaxTS)
=============================================================================
