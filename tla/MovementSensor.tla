--------------------------- MODULE MovementSensor ---------------------------
(***************************************************************************)
(* The movement sensor card (components/movement-sensor.vue): every 500 ms *)
(* it asks for the sensor's properties, then for each quantity the sensor  *)
(* supports, and sets its timer again without waiting for those answers.   *)
(*                                                                         *)
(* A quantity's value is whether there is one; what the sensor supports    *)
(* may change.                                                             *)
(***************************************************************************)
EXTENDS Integers

CONSTANT Quantity   \* orientation, angular velocity, ..., position

VARIABLES
    sensorShown,
    timers, timerHeld,   \* refresh timers that are set; refreshId is the id of one
    refreshing,          \* calls of refresh awaiting the properties
    gaveUp,              \* the properties were refused: the promise never resolves
    supported,           \* properties
    getting,             \* quantities asked for and not answered
    quantities               \* quantities with a value

sensorVars == <<sensorShown, timers, timerHeld, refreshing, gaveUp, supported, getting, quantities>>
timerVars == <<timers, timerHeld, refreshing>>

SensorTypeOK ==
    /\ {sensorShown, timerHeld, gaveUp} \subseteq BOOLEAN
    /\ {timers, refreshing} \subseteq Nat
    /\ {supported, getting, quantities} \subseteq SUBSET Quantity

\* setTimeout(refresh, 500), once n timers are left.
Arm(n) == timers' = n + 1 /\ timerHeld' = TRUE

\* onMounted.
SensorInit ==
    /\ sensorShown = TRUE
    /\ timers = 1 /\ timerHeld = TRUE /\ refreshing = 0 /\ gaveUp = FALSE
    /\ supported = {} /\ getting = {} /\ quantities = {}

\* The timer fires: refresh asks for the properties.
Refresh ==
    /\ timers > 0
    /\ timers' = timers - 1 /\ timerHeld' = FALSE
    /\ refreshing' = refreshing + 1
    /\ UNCHANGED <<sensorShown, gaveUp, supported, getting, quantities>>

\* They arrive: refresh goes on.
Properties(s) ==
    /\ refreshing > 0
    /\ refreshing' = refreshing - 1
    /\ supported' = s
    /\ getting' = getting \union s
    /\ Arm(timers)
    /\ UNCHANGED <<sensorShown, gaveUp, quantities>>

\* Mutant: the call goes on as well.
PropertiesClosedGoesOn ==
    /\ refreshing > 0
    /\ Arm(timers)
    /\ UNCHANGED <<sensorShown, refreshing, gaveUp, supported, getting, quantities>>

\* "Response closed without headers": try again; this call never goes on.
PropertiesClosed ==
    /\ refreshing > 0
    /\ refreshing' = refreshing - 1
    /\ Arm(timers)
    /\ UNCHANGED <<sensorShown, gaveUp, supported, getting, quantities>>

\* Any other error is displayed, and that is all.
PropertiesError ==
    /\ refreshing > 0
    /\ refreshing' = refreshing - 1
    /\ gaveUp' = TRUE
    /\ UNCHANGED <<sensorShown, timers, timerHeld, supported, getting, quantities>>

\* A quantity is answered or refused.
Value(q) ==
    /\ q \in getting
    /\ getting' = getting \ {q}
    /\ quantities' \in {quantities, quantities \union {q}}
    /\ UNCHANGED <<sensorShown, timerVars, gaveUp, supported>>

\* onUnmounted: a refresh that is under way still sets its timer.
SensorUnmount ==
    /\ sensorShown
    /\ sensorShown' = FALSE
    /\ timers' = IF timerHeld THEN timers - 1 ELSE timers
    /\ timerHeld' = FALSE
    /\ UNCHANGED <<refreshing, gaveUp, supported, getting, quantities>>

SensorNext ==
    \/ Refresh
    \/ \E s \in SUBSET Quantity : Properties(s)
    \/ PropertiesClosed \/ PropertiesError
    \/ \E q \in Quantity : Value(q)
    \/ SensorUnmount

-----------------------------------------------------------------------------
(* Properties. *)

\* There is one chain of refreshes, whatever the answers and their order: while
\* the card is shown it is always about to refresh or refreshing, once, until an
\* error ends the chain, and unmounting never leaves two (every path of refresh
\* but the last error sets the timer, and sets it once).
OneRefreshChain ==
    /\ timers + refreshing <= 1
    /\ sensorShown => timers + refreshing = IF gaveUp THEN 0 ELSE 1
=============================================================================
