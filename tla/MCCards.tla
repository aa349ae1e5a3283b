------------------------------ MODULE MCCards ------------------------------
(* Cards for TLC: the strings and the steps that a .cfg cannot write. *)
EXTENDS Cards

Steps == {-1, 1}
StartAtTwo == [a \in Axis |-> 2]
Spaces == << <<"acme">>, <<"rdk">> >>
TypeNames == << <<"component">>, <<"service">> >>
SubtypeNames == << <<"arm">>, <<"input_controller">> >>
RdkController == <<2, 1, 2>>

\* The empty name, the web gamepad, one with a slash, the web gamepad of a remote.
ResourceNames == << <<>>, <<"WebGamepad">>, <<"r", "/", "a">>, <<"r", ":", "WebGamepad">> >>

\* Of the two gamepads the first lacks a control.
LacksB == [i \in Index |-> IF i = 0 THEN {"B"} ELSE {}]
=============================================================================
