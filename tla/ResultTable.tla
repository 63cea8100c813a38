------------------------------ MODULE ResultTable ------------------------------
(***************************************************************************)
(* A result node (peek-ui node/result): the rows the document holds, the   *)
(* table that shows them, what is picked out and searched for in it, and   *)
(* the edits and deletions written back to the database, each pinned to    *)
(* its rows by primary key (peek-db mutation.rs).  The session runs one    *)
(* statement at a time, whichever of the tasks waiting for it gets its     *)
(* lock, and each answer comes back through a task of its own.             *)
(***************************************************************************)
EXTENDS Naturals, SequencesExt, FiniteSetsExt

CONSTANTS Keys,      \* primary keys
          Terms,     \* searches: the keys a text matches, each with its rank
          Shapes,    \* what the SQL is: "keyed", or "joined" with no row behind a cell
          MaxMoves,  \* bound: presses, openings, searches, pivots, changes to the query
          MaxSent,   \* bound: edits, deletions and runs by a person or a poll
          None

ASSUME KeysAssumption == Keys \subseteq Nat /\ IsFiniteSet(Keys) /\ Shapes \subseteq {"keyed", "joined"}
(* A search puts the rows it matches in one order: no two have the same rank. *)
ASSUME TermsAssumption ==
  \A t \in Terms : \A k, l \in DOMAIN t : t[k] \in Nat /\ (t[k] = t[l] => k = l)

VARIABLES db,        \* the table in the database: key to version
          result,    \* the node in the document
          source,    \* what the query of the node is good for: see Rewire
          running,   \* it has a run out
          erred,     \* its last run ended in an error
          missed,    \* history: the refresh of a write came to nothing, and no run since
          shown,     \* what the delegate has adopted of the node
          visible,   \* Matches: display position to row
          find,      \* the find bar and its debounce
          picked,    \* Selection, in display positions
          editing,   \* the open cell, by row
          panel,     \* the canvas shows the JSON editor
          pane,      \* the row whose value the detail pane shows
          asked,     \* the deletion dialog, and the keys it counted
          work,      \* statements waiting for the session, writes by number
          answers,   \* what came back of them and was not heard yet
          budget     \* bound: moves and statements so far

screen == <<shown, visible, find, picked, editing, panel, pane, asked>>
remote == <<db, source, running, erred, missed, work, answers>>
vars == <<result, remote, screen, budget>>

NoPick   == [cells |-> None, rows |-> {}, drag |-> None]
Versions == 0..1

(* The rows of the query, in the order it names: by key. *)
Fetched(d) ==
  LET key(i) == CHOOSE k \in DOMAIN d : Cardinality({j \in DOMAIN d : j < k}) = i - 1
  IN [i \in 1..Cardinality(DOMAIN d) |-> <<key(i), d[key(i)]>>]

Everything(rows) == [i \in DOMAIN rows |-> i]

(* search: the rows that match, best first. *)
Matching(rows, term) ==
  IF term = None THEN Everything(rows)
  ELSE LET found == {i \in DOMAIN rows : rows[i][1] \in DOMAIN term}
           better(i) == {j \in found : term[rows[j][1]] < term[rows[i][1]]}
       IN [p \in 1..Cardinality(found) |->
             CHOOSE i \in found : Cardinality(better(i)) = p - 1]

Init == /\ \E d \in [Keys -> {0}] : db = d
        /\ \E s \in Shapes : result = [shape |-> s, rows |-> Fetched(db), pivoted |-> FALSE]
        /\ source = "ready" /\ running = FALSE /\ erred = FALSE /\ missed = FALSE
        /\ shown = result /\ visible = Everything(result.rows)
        /\ find = [open |-> FALSE, term |-> None, due |-> FALSE]
        /\ picked = NoPick /\ editing = None /\ panel = FALSE /\ pane = None /\ asked = None
        /\ work = {} /\ answers = {}
        /\ budget = [moves |-> 0, sent |-> 0]

Spend(what, max) == budget[what] < max /\ budget' = [budget EXCEPT ![what] = @ + 1]
Move == Spend("moves", MaxMoves)
Free == asked = None /\ ~panel    \* no dialog and no panel takes the press

----------------------------------------------------------------------------
(* Each frame hands the node of the document to the table. *)

Adopt(closes) ==
  LET fresh == result.rows # shown.rows
      moved == fresh \/ result.pivoted # shown.pivoted
  IN /\ shown # result
     /\ shown' = result
     /\ visible' = IF fresh THEN Everything(result.rows) ELSE visible
     /\ picked' = IF moved THEN NoPick ELSE picked
     /\ pane' = IF moved THEN None ELSE pane
     /\ editing' = IF moved /\ closes THEN None ELSE editing
     /\ UNCHANGED <<result, remote, find, panel, asked, budget>>


FrameKeepingEdit == Adopt(FALSE)     \* slip: new rows under an open editor
Frame == Adopt(TRUE)

Pivot == /\ Free /\ Move
         /\ result' = [result EXCEPT !.pivoted = ~@]
         /\ UNCHANGED <<remote, screen>>

----------------------------------------------------------------------------
(* Picking out cells or rows.  A drag over rows that were replaced goes on with nothing. *)

Pick(p) == picked' = p /\ UNCHANGED <<result, remote, shown, visible, find, editing, panel, pane, asked>>

Grid == Free /\ ~shown.pivoted

PressCell(p) == Grid /\ Move /\ Pick([NoPick EXCEPT !.cells = <<p, p>>])

PressRow(p) ==
  /\ Grid /\ Move
  /\ Pick([picked EXCEPT !.cells = None, !.drag = [from |-> p, base |-> picked.rows, moved |-> FALSE]])

PressHeader == Grid /\ Move /\ visible # <<>> /\ Pick([NoPick EXCEPT !.cells = <<1, Len(visible)>>])

DragTo(p) ==
  /\ Grid /\ UNCHANGED budget
  /\ \/ LET from == picked.drag.from
        IN /\ picked.drag # None
           /\ Pick([picked EXCEPT !.drag.moved = TRUE,
                                  !.rows = picked.drag.base
                                             \cup Min({from, p})..Max({from, p})])
     \/ picked.drag = None /\ picked.cells # None /\ Pick([picked EXCEPT !.cells[2] = p])

(* A shift-press that never moved is a toggle. *)
Release ==
  LET drag == picked.drag
      from == {drag.from}
  IN /\ Grid /\ drag # None /\ UNCHANGED budget
     /\ Pick([picked EXCEPT !.drag = None,
                !.rows = IF drag.moved THEN @
                         ELSE (drag.base \ from) \cup (from \ drag.base)])

----------------------------------------------------------------------------
(* The find bar. *)

Find(f, v) == find' = f /\ visible' = v /\ UNCHANGED <<result, remote, shown, editing, panel, pane, asked>>

OpenFind == /\ Grid /\ ~find.open /\ UNCHANGED <<picked, budget>>
            /\ Find([find EXCEPT !.open = TRUE], visible)

(* Each keystroke restarts the debounce. *)
TypeFind(t) == /\ Grid /\ find.open /\ Move /\ UNCHANGED picked
               /\ Find([find EXCEPT !.term = t, !.due = TRUE], visible)

(* apply_search: positions were captured against the previous order. *)
SearchKeepingPick == /\ find.due /\ UNCHANGED <<picked, budget>>
                     /\ Find([find EXCEPT !.due = FALSE], Matching(shown.rows, find.term))
Search == /\ find.due /\ UNCHANGED budget
          /\ picked' = NoPick
          /\ Find([find EXCEPT !.due = FALSE], Matching(shown.rows, find.term))

Closed == [find EXCEPT !.open = FALSE, !.term = None]

CloseFindOnly == /\ Free /\ find.open /\ UNCHANGED <<picked, budget>> /\ Find(Closed, visible)
CloseFind == /\ Free /\ find.open /\ UNCHANGED budget
             /\ picked' = NoPick
             /\ Find(Closed, Matching(shown.rows, None))

----------------------------------------------------------------------------
(* Opening a cell, and what escape takes down, one thing at a time. *)

Editable == shown.shape = "keyed"

Opened(p, popover) == [row |-> visible[p], seen |-> shown.rows[visible[p]], popover |-> popover,
                       saving |-> FALSE, failed |-> FALSE]

(* A double-click, which presses the cell first: edits a short value in place, a document in the
   panel, and shows a long one in the pane; a row that cannot be written to is only shown.  The
   cell an editor fills takes no press of the table. *)
OpenCell(p, value) ==
  /\ Free /\ Move /\ (editing # None => editing.row # visible[p])
  /\ picked' = IF shown.pivoted THEN picked ELSE [NoPick EXCEPT !.cells = <<p, p>>]
  /\ IF shown.pivoted \/ value = "long" \/ (value = "json" /\ ~Editable)
       THEN pane' = visible[p] /\ UNCHANGED <<editing, panel>>
       ELSE /\ editing' = IF Editable THEN Opened(p, value = "json") ELSE editing
            /\ panel' = (value = "json")
            /\ UNCHANGED pane
  /\ UNCHANGED <<result, remote, shown, visible, find, asked>>

(* The panel keeps the key while it is up; so does the dialog. *)
Escape ==
  LET drops == panel \/ editing # None
  IN /\ UNCHANGED <<result, remote, shown, budget>>
     /\ IF asked # None
          THEN asked' = None /\ UNCHANGED <<visible, find, picked, editing, panel, pane>>
          ELSE /\ panel' = FALSE /\ editing' = None /\ UNCHANGED asked
               /\ pane' = IF drops THEN pane ELSE None
               /\ IF drops \/ pane # None THEN UNCHANGED <<visible, find, picked>>
                  ELSE /\ picked' = NoPick
                       /\ find' = IF find.open THEN Closed ELSE find
                       /\ visible' = IF find.open THEN Matching(shown.rows, None) ELSE visible

----------------------------------------------------------------------------
(* Statements.  A query is "ready" to run; or a variable in it has no value ("undefined"); or run
   and rerun_source return at once ("refused"): the node is deleted, its text is blank, or there
   is no connection any more. *)

Rewire(s) == /\ s # source /\ Move /\ source' = s
             /\ UNCHANGED <<result, db, running, erred, missed, work, answers, screen>>

Select == [kind |-> "select"]
Starts == source = "ready" /\ ~running
Start == Starts /\ running' = TRUE /\ missed' = FALSE /\ work' = work \cup {Select} /\ UNCHANGED erred

(* An undefined variable becomes an error on the canvas, and the database is not asked. *)
Declined == /\ ~Starts /\ UNCHANGED <<running, work>>
            /\ erred' = (erred \/ (source = "undefined" /\ ~running))

(* run, for a person or a poll. *)
Run == /\ Spend("sent", MaxSent) /\ ~running /\ source # "refused"
       /\ Start \/ (Declined /\ UNCHANGED missed)
       /\ UNCHANGED <<db, source, result, answers, screen>>

(* rerun_source, once a write is answered: what it declines is missed, unless a run that is out
   has yet to read. *)
Refresh == Start \/ (Declined /\ missed' = (missed \/ Select \notin work))

(* commit_edit: a statement in flight is not sent again. *)
Commit(value) ==
  /\ editing # None /\ ~editing.saving /\ asked = None /\ (editing.popover => panel)
  /\ Editable /\ Spend("sent", MaxSent)
  /\ work' = work \cup {[kind |-> "update", key |-> shown.rows[editing.row][1], value |-> value,
                          meant |-> editing.seen[1], number |-> budget.sent]}
  /\ editing' = [editing EXCEPT !.saving = TRUE, !.failed = FALSE]
  /\ UNCHANGED <<db, source, result, running, erred, missed, answers, shown, visible, find, picked, panel, pane, asked>>

(* A query whose text changed under the editor has no row to write to. *)
Refused == /\ editing # None /\ ~editing.saving /\ asked = None /\ ~Editable
           /\ editing' = [editing EXCEPT !.failed = TRUE]
           /\ UNCHANGED <<result, remote, shown, visible, find, picked, panel, pane, asked, budget>>

(* The selection holds positions, so a searched table deletes the rows on screen. *)
ChosenByRow == {shown.rows[i][1] : i \in picked.rows \cap DOMAIN shown.rows}
Chosen == {shown.rows[visible[p]][1] : p \in picked.rows \cap DOMAIN visible}
OnScreen == {shown.rows[visible[p]][1] : p \in picked.rows}

Ask == /\ Free /\ Editable /\ picked.rows # {}
       /\ asked' = OnScreen
       /\ UNCHANGED <<result, remote, shown, visible, find, picked, editing, panel, pane, budget>>

(* run_delete reads the selection again: it may be gone by now, and then nothing is sent. *)
Confirm ==
  /\ asked # None /\ asked' = None
  /\ IF Editable /\ Chosen # {}
       THEN /\ Spend("sent", MaxSent)
            /\ work' = work \cup {[kind |-> "delete", keys |-> Chosen, meant |-> asked,
                                    number |-> budget.sent]}
       ELSE UNCHANGED <<budget, work>>
  /\ UNCHANGED <<db, source, result, running, erred, missed, answers, shown, visible, find, picked,
                 editing, panel, pane>>

(* Any of the statements that wait gets the session next; it may fail. *)
Done(job) == CASE job.kind = "select" -> db
               [] job.kind = "update" -> IF job.key \in DOMAIN db
                                           THEN [db EXCEPT ![job.key] = job.value] ELSE db
               [] job.kind = "delete" -> [k \in DOMAIN db \ job.keys |-> db[k]]

Execute(job) ==
  /\ job \in work /\ work' = work \ {job}
  /\ \E ok \in BOOLEAN :
       /\ db' = IF ok THEN Done(job) ELSE db
       /\ answers' = answers \cup {[job |-> job, ok |-> ok,
                                   rows |-> IF ok /\ job.kind = "select" THEN Fetched(db) ELSE <<>>]}
  /\ UNCHANGED <<result, source, running, erred, missed, screen, budget>>

(* Any of the answers is heard next. *)
Hear(a, kind) == /\ a \in answers /\ a.job.kind = kind
                 /\ answers' = answers \ {a} /\ UNCHANGED <<db, source, budget>>

(* run: the rows take their place, or an error does. *)
LandSelect(a) ==
  /\ Hear(a, "select")
  /\ running' = FALSE /\ erred' = ~a.ok
  /\ IF a.ok THEN \E s \in Shapes : result' = [result EXCEPT !.rows = a.rows, !.shape = s]
     ELSE UNCHANGED result
  /\ UNCHANGED <<missed, work, screen>>

(* commit_edit: the answer goes to whichever cell is open by now, and of rows written to the
   query is run again. *)
Told(ok) ==
  IF ok THEN editing' = None /\ panel' = FALSE
  ELSE /\ editing' = IF editing = None THEN None
                     ELSE [editing EXCEPT !.saving = FALSE, !.failed = TRUE]
       /\ UNCHANGED panel

UpdateLanding(a, reruns) ==
  /\ Hear(a, "update")
  /\ Told(a.ok)
  /\ IF a.ok /\ reruns THEN Refresh ELSE UNCHANGED <<running, erred, missed, work>>
  /\ UNCHANGED <<result, shown, visible, find, picked, pane, asked>>

LandUpdateQuietly(a) == UpdateLanding(a, FALSE)   \* slip: the rows are not asked for again
LandUpdate(a) == UpdateLanding(a, TRUE)

LandDelete(a) == Hear(a, "delete") /\ Refresh /\ UNCHANGED <<result, screen>>

Positions == DOMAIN visible
Sources == {"ready", "undefined", "refused"}

Gesture == \/ \E p \in Positions : PressCell(p) \/ PressRow(p) \/ DragTo(p)
           \/ \E p \in Positions, v \in {"short", "json", "long"} : OpenCell(p, v)
           \/ PressHeader \/ Release
           \/ OpenFind \/ (\E t \in Terms \cup {None} : TypeFind(t)) \/ CloseFind
           \/ Escape \/ Pivot \/ Run \/ (\E s \in Sources : Rewire(s))
           \/ (\E v \in Versions : Commit(v)) \/ Refused \/ Ask \/ Confirm

Works == \E job \in work : Execute(job)
Lands == \E a \in answers : LandSelect(a) \/ LandUpdate(a) \/ LandDelete(a)
Next == Gesture \/ Frame \/ Search \/ Works \/ Lands

(* The session answers, the window draws and hears. *)
Fairness == WF_vars(Works) /\ WF_vars(Lands) /\ WF_vars(Frame)
Spec == Init /\ [][Next]_vars /\ Fairness

----------------------------------------------------------------------------
TypeOK ==
  /\ DOMAIN db \subseteq Keys /\ source \in Sources
  /\ running \in BOOLEAN /\ erred \in BOOLEAN /\ missed \in BOOLEAN
  /\ \A i \in DOMAIN visible : visible[i] \in DOMAIN shown.rows
  /\ find \in [open : BOOLEAN, term : Terms \cup {None}, due : BOOLEAN]
  /\ panel \in BOOLEAN /\ (pane = None \/ pane \in DOMAIN shown.rows)
  /\ \A job \in work : job.kind \in {"select", "update", "delete"}

(* A statement hits the rows it was meant for.  An update is pinned to the row the cell was opened
   on, whatever has arrived since (begin_edit, adopt, build_update); a deletion takes the rows the
   dialog counted or none at all, though it reads the selection again when it is confirmed
   (run_delete). *)
UpdateHitsOpenedRow(job) == job.kind = "update" => job.key = job.meant
DeleteHitsAskedRows(job) == job.kind = "delete" => job.keys = job.meant
WritesHitTheirRows == \A job \in work : UpdateHitsOpenedRow(job) /\ DeleteHitsAskedRows(job)

(* What the screen holds is there: what is picked out is on it, and is cells or rows but never
   both (Selection, set_matches), a cell that takes no typing because it is being saved has the
   statement about its own row still to answer it (commit_edit, set_edit_state), and rows are hidden only by a find
   bar that is there to be seen (close_search, adopt). *)
PickIsOnScreen ==
  /\ picked.cells = None \/ picked.rows = {}
  /\ picked.rows \subseteq Positions
  /\ picked.cells # None => ToSet(picked.cells) \subseteq Positions
Awaits(job) == job.kind = "update" /\ job.meant = editing.seen[1]
SavingIsAwaited ==
  editing # None /\ editing.saving => (\E job \in work : Awaits(job)) \/ (\E a \in answers : Awaits(a.job))
HiddenRowsHaveBar == find.open \/ visible = Everything(shown.rows)
ScreenHolds == TypeOK /\ PickIsOnScreen /\ SavingIsAwaited /\ HiddenRowsHaveBar

(* The table comes to show what was written, or an error, or the refresh of a write was declined
   while nothing that was out had yet to read (rerun_source, plan): a run refused because another
   is out is made up for by that one, if it reads later, in whatever order the statements get the
   session and their answers are heard. *)
Stale == shown.rows # Fetched(db)
WritesAreSeen == Stale ~> (~Stale \/ erred \/ missed)

(* "Re-runs the query that produced result, which is how a result refreshes after a row is edited
   or deleted" (execution.rs): of a query that stays ready to run it would be always. *)
ReadyWritesAreSeen == Stale ~> (~Stale \/ erred \/ source # "ready")

(* "Whole rows, by data index": rows copied from the menu of a picked row are the picked ones
   (scope.rs resolve, rows.rs cut). *)
CopiesPickedRows ==
  Cardinality(picked.rows) >= 2 /\ picked.rows \cap DOMAIN shown.rows # {} => ChosenByRow = OnScreen
==============================================================================
