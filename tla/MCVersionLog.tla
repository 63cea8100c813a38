----------------------------- MODULE MCVersionLog -----------------------------
(***************************************************************************)
(* VersionLog for TLC.  The constants of the code are scaled down: every   *)
(* second or third entry is full, and a chain is cut at two entries.  No   *)
(* definition tells one writer or one node from another, so runs without   *)
(* liveness may take them as alike.                                        *)
(***************************************************************************)
EXTENDS VersionLog

\* Only Fire reads the timer, and does nothing that LeavePage may not do too:
\* for what the log holds, states that differ in it are the same.
Untimed == <<disk, saved, page, chain, phase, owed>>

Symmetry == Permutations(Writers) \cup Permutations(Ids)
=============================================================================
