----------------------------- MODULE RegionLabels -----------------------------
(***************************************************************************)
(* What the regions of a page promise: every node carries at most one      *)
(* label.  Grouping puts one label on the nodes it names and touches no    *)
(* other node; the answer to a grouping request moves only the nodes that  *)
(* were asked about, and strips nobody of a label unless the whole page    *)
(* was to be regrouped; and whatever a step changes can be taken back.     *)
(***************************************************************************)
CONSTANTS Pages, Nodes, Labels, None

VARIABLES home,   \* per page, the label of every node, None if it has none
          was,    \* per page, the labellings that undo and redo still reach
          asked   \* the open request: its page, its nodes, replaces; or None

Worn(labelling) == {labelling[n] : n \in Nodes} \ {None}
Ever == UNION {Worn(l) : l \in UNION {was[p] \cup {home[p]} : p \in Pages}}

(* The labelling a change leaves can be returned to; changing nothing adds
   nothing. *)
Becomes(p, labelling) ==
    /\ home' = [home EXCEPT ![p] = labelling]
    /\ IF labelling = home[p] THEN was'[p] \subseteq was[p] \cup {labelling}
       ELSE was'[p] \subseteq was[p] \cup {home[p]} /\ home[p] \in was'[p]
    /\ \A q \in Pages \ {p} : was'[q] = was[q]

Label(p, S, r) ==
    /\ UNCHANGED asked
    /\ Becomes(p, [n \in Nodes |-> IF n \in S THEN r ELSE home[p][n]])
    /\ r \in Worn(home[p]) \/ r \notin Ever

Unlabel(p, S) ==
    /\ UNCHANGED asked
    /\ Becomes(p, [n \in Nodes |-> IF n \in S THEN None ELSE home[p][n]])

Return(p) ==
    /\ UNCHANGED asked
    /\ \E l \in was[p] : Becomes(p, l)

Ask(p, S, replaces) ==
    /\ asked = None
    /\ asked' = [page |-> p, nodes |-> S, replaces |-> replaces]
    /\ UNCHANGED <<home, was>>

(* The answer goes to page p, which is the page on screen when it comes. *)
Answer(p) ==
    /\ asked # None /\ asked' = None
    /\ Becomes(p, home'[p])
    /\ \A r \in Worn(home'[p]) \ Worn(home[p]) : r \notin Ever
    /\ \A n \in Nodes :
         \/ home'[p][n] = home[p][n]
         \/ n \in asked.nodes /\ home'[p][n] # None
         \/ asked.replaces /\ home'[p][n] = None

Init == /\ home \in [Pages -> [Nodes -> Labels \cup {None}]]
        /\ was = [p \in Pages |-> {}]
        /\ asked = None

Next == \E p \in Pages :
    \/ \E S \in SUBSET Nodes : \/ \E r \in Labels : Label(p, S, r)
                               \/ Unlabel(p, S)
                               \/ \E b \in BOOLEAN : Ask(p, S, b)
    \/ Return(p)
    \/ Answer(p)

Spec == Init /\ [][Next]_<<home, was, asked>>
=============================================================================
