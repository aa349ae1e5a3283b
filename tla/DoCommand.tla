------------------------------ MODULE DoCommand ------------------------------
(***************************************************************************)
(* The DoCommand card (components/do-command.vue): one command at a time,  *)
(* typed as JSON, and its output.                                          *)
(***************************************************************************)
EXTENDS Integers

CONSTANT Component   \* the names that can be selected

VARIABLES
    selected,      \* selectedComponent, "none" while undefined
    input,         \* the editor: "none", "json", or text that is not JSON
    executing,
    asked,         \* the components of the commands in flight
    output         \* the component whose result is displayed

doVars == <<selected, input, executing, asked, output>>

DoTypeOK ==
    /\ {selected, output} \subseteq Component \union {"none"}
    /\ input \in {"none", "json", "broken"}
    /\ executing \in BOOLEAN
    /\ asked \subseteq Component

DoInit ==
    /\ selected = "none" /\ input = "none"
    /\ executing = FALSE /\ asked = {} /\ output = "none"

\* The select is disabled while a command runs; the editor is not.
Select(c) ==
    /\ ~executing
    /\ selected' = c
    /\ UNCHANGED <<input, executing, asked, output>>

Edit(text) ==
    /\ input' = text
    /\ UNCHANGED <<selected, executing, asked, output>>

\* DO is disabled without a component, without input, and while a command runs.
DoEnabled == selected # "none" /\ input # "none" /\ ~executing

\* doCommand: JSON.parse throws before anything is changed.
Do ==
    /\ DoEnabled
    /\ IF input = "broken"
         THEN UNCHANGED <<executing, asked>>
         ELSE executing' = TRUE /\ asked' = asked \union {selected}
    /\ UNCHANGED <<selected, input, output>>

\* The command is answered, refused, or answered with nothing.
DoReply(c, ok) ==
    /\ c \in asked
    /\ asked' = asked \ {c}
    /\ executing' = FALSE
    /\ output' = IF ok THEN c ELSE output
    /\ UNCHANGED <<selected, input>>

DoNext ==
    \/ \E c \in Component : Select(c) \/ DoReply(c, TRUE) \/ DoReply(c, FALSE)
    \/ \E text \in {"none", "json", "broken"} : Edit(text)
    \/ Do

-----------------------------------------------------------------------------
(* Properties. *)

\* The card says it is running exactly while one command is in flight, the one
\* of the selected component: a command that cannot be parsed, is refused or
\* comes back empty never leaves the card disabled, and an answer is never taken
\* for another component's (the order of JSON.parse and executing, the flag
\* reset on every path, and the disabled select).
ExecutingIsInFlight ==
    asked = IF executing THEN {selected} ELSE {}
=============================================================================
