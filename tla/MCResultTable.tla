---------------------------- MODULE MCResultTable -----------------------------
(* A text that matches the second of two rows; and of three, the last better than the first. *)
EXTENDS ResultTable
MCTerms == {[k \in {2} |-> 1]}
MCThree == {[k \in {1, 3} |-> IF k = 3 THEN 1 ELSE 2]}
================================================================================
