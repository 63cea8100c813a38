----------------------------- MODULE MCToolRounds ------------------------------
(* Calls of which the first is refused: alone, or before one that is done. *)
EXTENDS ToolRounds
MCOutcomes == {<<"refused">>, <<"refused", "done">>}
================================================================================
