----------------------------- MODULE MCQueryGate -----------------------------
(***************************************************************************)
(* QueryGate for TLC: a harmless select, two different unbounded writes,   *)
(* and a text whose first statement is a select and whose second wipes a   *)
(* table.  One of the writes is not formatted yet.                         *)
(***************************************************************************)
EXTENDS QueryGate

CONSTANTS select, delete, deleteTidy, selectThenDelete, blank

MCTexts     == {blank, select, delete, deleteTidy, selectThenDelete}
MCUnbounded == {delete, deleteTidy, selectThenDelete}
MCFormatted == [t \in MCTexts |-> IF t = delete THEN deleteTidy ELSE t]
MCSelects   == {select, selectThenDelete}
=============================================================================
