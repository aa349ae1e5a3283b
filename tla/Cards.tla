-------------------------------- MODULE Cards --------------------------------
(***************************************************************************)
(* The page of a robot with one resource of interest: which card there is  *)
(* is chosen at the start, and only that card takes steps.  The cards share *)
(* nothing but the page, so what holds of each alone holds of them         *)
(* together.                                                               *)
(***************************************************************************)
EXTENDS Navigation, SlamCard, CameraCloud, MovementSensor, ArmCard, DoCommand, Listings,
        WebGamepad, StepCards

VARIABLE card

vars == <<card, navVars, slamVars, panelVars, viewVars, sensorVars, armVars, doVars, listVars,
          padVars, stepVars>>

Kinds == {"navigation", "slam", "camera", "movement_sensor", "arm", "do_command", "lists", "gamepad", "steps"}

TypeOK ==
    /\ card \in Kinds
    /\ NavTypeOK /\ SlamTypeOK /\ PanelTypeOK /\ ViewTypeOK
    /\ SensorTypeOK /\ ArmTypeOK /\ DoTypeOK /\ ListTypeOK /\ PadTypeOK /\ StepTypeOK

Init ==
    /\ card \in Kinds
    /\ NavInit /\ SlamInit /\ PanelInit /\ ViewInit
    /\ SensorInit /\ ArmInit /\ DoInit /\ ListInit /\ PadInit /\ StepInit
    /\ card # "navigation" => script = "none"
    /\ card # "gamepad" => present = {}
    /\ card # "steps" => device = "gantry"

Next ==
    \/ /\ card = "navigation" /\ NavNext
       /\ UNCHANGED <<card, slamVars, panelVars, viewVars, sensorVars, armVars, doVars, listVars, padVars, stepVars>>
    \/ /\ card = "slam" /\ SlamNext
       /\ UNCHANGED <<card, navVars, panelVars, sensorVars, armVars, doVars, listVars, padVars, stepVars>>
    \/ /\ card = "camera" /\ PanelNext
       /\ UNCHANGED <<card, navVars, slamVars, sensorVars, armVars, doVars, listVars, padVars, stepVars>>
    \/ /\ card = "movement_sensor" /\ SensorNext
       /\ UNCHANGED <<card, navVars, slamVars, panelVars, viewVars, armVars, doVars, listVars, padVars, stepVars>>
    \/ /\ card = "arm" /\ ArmNext
       /\ UNCHANGED <<card, navVars, slamVars, panelVars, viewVars, sensorVars, doVars, listVars, padVars, stepVars>>
    \/ /\ card = "do_command" /\ DoNext
       /\ UNCHANGED <<card, navVars, slamVars, panelVars, viewVars, sensorVars, armVars, listVars, padVars, stepVars>>
    \/ /\ card = "lists" /\ ListNext
       /\ UNCHANGED <<card, navVars, slamVars, panelVars, viewVars, sensorVars, armVars, doVars, padVars, stepVars>>
    \/ /\ card = "gamepad" /\ PadNext
       /\ UNCHANGED <<card, navVars, slamVars, panelVars, viewVars, sensorVars, armVars, doVars, listVars, stepVars>>
    \/ /\ card = "steps" /\ StepNext
       /\ UNCHANGED <<card, navVars, slamVars, panelVars, viewVars, sensorVars, armVars, doVars, listVars,
                      padVars>>

FairSpec == Init /\ [][Next]_vars /\ NavFairness /\ PadFairness
=============================================================================
