--------------------------- MODULE MCRemoteControl ---------------------------
(* RemoteControl for TLC: reconfigurations that touch a relevant resource, the  *)
(* sensors service, both, or only a camera.                                    *)
EXTENDS RemoteControl

MCConfigs == {{"gantry", "sensors"}, {"gantry", "camera"}, {"camera"}}
=============================================================================
