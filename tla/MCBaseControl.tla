----------------------------- MODULE MCBaseControl -----------------------------
(* BaseControl for TLC: two physical keys for one direction and one that drives *)
(* nothing.                                                                    *)
EXTENDS BaseControl

MCPhysical == {"w", "ArrowUp", "x"}
MCKeymap == [p \in MCPhysical |-> IF p = "x" THEN NoKey ELSE "w"]
=============================================================================
