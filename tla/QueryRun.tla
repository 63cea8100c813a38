------------------------------- MODULE QueryRun -------------------------------
(***************************************************************************)
(* A run of a query from the press to its result on the canvas:            *)
(* peek-ui execution.rs (run) over peek-canvas execution.rs (place_result, *)
(* place_query_error), with the undo history under it.                     *)
(*                                                                         *)
(* A run is two steps, with the database in between: the flag is set and   *)
(* the statement sent; later the answer is placed and the flag cleared.    *)
(* Both are edits of whatever page is active at that moment, and both are  *)
(* recorded, so the user, undo, redo and a restart may come in between.    *)
(*                                                                         *)
(* A node is named by what it is and by its query; the names of a result   *)
(* and of an error are derived from the query's in the code too.           *)
(***************************************************************************)
EXTENDS HistoryOps, FiniteSets

CONSTANTS Pages, FirstPage, Queries, Texts, FirstText,
          Slots        \* bound: one per run that may be under way at a time

ASSUME QueryRunAssumption == FirstPage \in Pages /\ FirstText \in Texts

VARIABLES content,     \* persisted.pages, page by page
          active,      \* persisted.active_page_id
          h,           \* history
          flights      \* the spawned tasks of run that wait for the database

vars == <<content, active, h, flights>>

Query(q)    == <<"query", q>>
ResultOf(q) == <<"result", q>>
ErrorOf(q)  == <<"error", q>>

Queried == {Query(q) : q \in Queries}
Derived == {ResultOf(q) : q \in Queries} \cup {ErrorOf(q) : q \in Queries}
Ids     == Queried \cup Derived

\* QueryData: its text and is_running.  A result and an error keep the text of
\* the statement they came from.
QueryDatas == [text : Texts, running : BOOLEAN]

IsPage(c) ==
    /\ DOMAIN c = {"nodes", "edges"}
    /\ DOMAIN c.nodes \subseteq Ids
    /\ \A id \in DOMAIN c.nodes :
          c.nodes[id] \in (IF id \in Queried THEN QueryDatas ELSE Texts)
    /\ c.edges \subseteq Ids \X Ids

Flights == [query : Queries, slot : Slots, text : Texts]

TypeOK ==
    /\ DOMAIN content = Pages /\ \A p \in Pages : IsPage(content[p])
    /\ active \in Pages
    /\ \A p \in Pages :
          \A c \in {h.past[p][i] : i \in DOMAIN h.past[p]}
                     \cup {h.future[p][i] : i \in DOMAIN h.future[p]} : IsPage(c)
    /\ h.pending # NoTx => h.pending.page \in Pages /\ IsPage(h.pending.before)
    /\ flights \subseteq Flights

Here      == content[active]
On(c, id) == id \in DOMAIN c.nodes

Running(c) == {q \in Queries : On(c, Query(q)) /\ c.nodes[Query(q)].running}

InFlight == {f.query : f \in flights}

SetPage(c) == content' = [content EXCEPT ![active] = c]

\* A document as it is loaded: the queries on the first page, nothing running.
Init ==
    /\ content = [p \in Pages |->
                    [nodes |-> [id \in IF p = FirstPage THEN Queried ELSE {} |->
                                  [text |-> FirstText, running |-> FALSE]],
                     edges |-> {}]]
    /\ active = FirstPage
    /\ h = EmptyHistory(Pages)
    /\ flights = {}

----------------------------------------------------------------------------
(* Edits of a page.  *)

Put(c, id, d) ==
    [c EXCEPT !.nodes = [m \in DOMAIN c.nodes \cup {id} |-> IF m = id THEN d ELSE c.nodes[m]]]

Connect(c, from, to) == [c EXCEPT !.edges = @ \cup {<<from, to>>}]

\* remove_node: the edges at a removed node go with it.
Remove(c, D) ==
    [nodes |-> [id \in DOMAIN c.nodes \ D |-> c.nodes[id]],
     edges |-> {e \in c.edges : e[1] \notin D /\ e[2] \notin D}]

\* update_data is a no-op when the node is not on the page.
SetRunning(c, q, flag) ==
    IF On(c, Query(q))
      THEN Put(c, Query(q), [text |-> c.nodes[Query(q)].text, running |-> flag])
      ELSE c

\* place_result: a result that exists is refreshed, a new one is connected to
\* its query, whether or not the query is on the page; the error goes.
PlaceResult(c, q, t) ==
    LET placed == Put(c, ResultOf(q), t)
    IN  Remove(IF On(c, ResultOf(q)) THEN placed
               ELSE Connect(placed, Query(q), ResultOf(q)),
               {ErrorOf(q)})

\* place_query_error: the edge runs from the error to the query.
PlaceError(c, q, t) ==
    LET placed == Put(c, ErrorOf(q), t)
    IN  IF On(c, ErrorOf(q)) THEN placed
        ELSE Connect(placed, ErrorOf(q), Query(q))

----------------------------------------------------------------------------
(* A run.  *)

\* plan and run: refused while the flag is set.  Setting the flag is an edit
\* like a keystroke, and joins one made just before.
Start(q, within) ==
    /\ On(Here, Query(q)) /\ q \notin Running(Here)
    /\ \E slot \in Slots :
          /\ \A f \in flights : f.slot # slot
          /\ flights' = flights \cup {[query |-> q, slot |-> slot,
                                       text |-> Here.nodes[Query(q)].text]}
    /\ h' = Record(h, active, Here, Data(q), within)
    /\ SetPage(SetRunning(Here, q, TRUE))
    /\ UNCHANGED active

\* A variable without a value: an error at once, and nothing is sent.
StartUndefined(q) ==
    /\ On(Here, Query(q)) /\ q \notin Running(Here)
    /\ h' = Record(h, active, Here, Structure, FALSE)
    /\ SetPage(PlaceError(Here, q, Here.nodes[Query(q)].text))
    /\ UNCHANGED <<active, flights>>

\* Slip: an error leaves the flag set.
FinishOnlyRows(f, ok) ==
    LET placed == IF ok THEN PlaceResult(Here, f.query, f.text)
                  ELSE PlaceError(Here, f.query, f.text)
    IN  /\ f \in flights
        /\ flights' = flights \ {f}
        /\ SetPage(IF ok THEN SetRunning(placed, f.query, FALSE) ELSE placed)
        /\ h' = Record(h, active, Here, Structure, FALSE)
        /\ UNCHANGED active

\* The answer lands on the page that is active by now.  The placing is one
\* transaction and the clearing of the flag another, left open.
Finish(f, ok) ==
    LET q       == f.query
        placed  == IF ok THEN PlaceResult(Here, q, f.text) ELSE PlaceError(Here, q, f.text)
        opened  == Record(h, active, Here, Structure, FALSE)
    IN  /\ f \in flights
        /\ flights' = flights \ {f}
        /\ SetPage(SetRunning(placed, q, FALSE))
        /\ h' = IF On(Here, Query(q))
                  THEN Record(opened, active, placed, Data(q), FALSE)
                  ELSE opened
        /\ UNCHANGED active

----------------------------------------------------------------------------
(* What may come in between.  *)

Type(q, t, within) ==
    /\ On(Here, Query(q))
    /\ h' = Record(h, active, Here, Data(q), within)
    /\ SetPage(Put(Here, Query(q), [Here.nodes[Query(q)] EXCEPT !.text = t]))
    /\ UNCHANGED <<active, flights>>

Checkpoint ==
    /\ h' = Seal(h, active, Here)
    /\ UNCHANGED <<content, active, flights>>

DeleteNodes(D) ==
    LET after == Remove(Here, D)
    IN  /\ D # {} /\ D \subseteq DOMAIN Here.nodes
        /\ SetPage(after)
        /\ h' = Seal(Record(h, active, Here, Structure, FALSE), active, after)
        /\ UNCHANGED <<active, flights>>

SwitchPage(p) ==
    /\ p # active
    /\ h' = Seal(h, active, Here)
    /\ active' = p
    /\ UNCHANGED <<content, flights>>

Undo ==
    /\ CanStepBack(h, active, Here)
    /\ h' = StepBack(h, active, Here)
    /\ SetPage(Undone(h, active, Here))
    /\ UNCHANGED <<active, flights>>

Redo ==
    /\ CanStepForward(h, active)
    /\ h' = StepForward(h, active, Here)
    /\ SetPage(Redone(h, active))
    /\ UNCHANGED <<active, flights>>

\* Slip: a document is taken as it was saved.
SettleNothing(c) == c

\* normalize: a query loaded from disk is not running.
Settle(c) ==
    [c EXCEPT !.nodes = [id \in DOMAIN @ |->
        IF id \in Queried THEN [text |-> @[id].text, running |-> FALSE] ELSE @[id]]]

\* The program ends, in whatever state, and the saved document is loaded.
Restart ==
    /\ content' = [p \in Pages |-> Settle(content[p])]
    /\ h' = EmptyHistory(Pages)
    /\ flights' = {}
    /\ UNCHANGED active

----------------------------------------------------------------------------
\* A run is settled if its page stays, with its query, until it is over, and
\* undo and redo keep away from it and from the snapshots taken during it.
SwitchIsSettled    == flights = {}
DeleteIsSettled(D) == \A q \in InFlight : Query(q) \notin D
UndoIsSettled ==
    /\ flights = {}
    /\ CanStepBack(h, active, Here)
    /\ Running(Undone(h, active, Here)) = {}
RedoIsSettled ==
    /\ flights = {}
    /\ CanStepForward(h, active)
    /\ Running(Redone(h, active)) = {}

RunNext ==
    \/ \E q \in Queries : \/ \E within \in BOOLEAN : Start(q, within)
                          \/ StartUndefined(q)
                          \/ \E t \in Texts, within \in BOOLEAN : Type(q, t, within)
    \/ \E f \in flights, ok \in BOOLEAN : Finish(f, ok)
    \/ Checkpoint
    \/ Restart

Next ==
    \/ RunNext
    \/ \E D \in SUBSET Ids : DeleteNodes(D)
    \/ \E p \in Pages : SwitchPage(p)
    \/ Undo
    \/ Redo

SettledNext ==
    \/ RunNext
    \/ \E D \in SUBSET Ids : DeleteIsSettled(D) /\ DeleteNodes(D)
    \/ SwitchIsSettled /\ \E p \in Pages : SwitchPage(p)
    \/ UndoIsSettled /\ Undo
    \/ RedoIsSettled /\ Redo

Answered(q) == \E f \in flights, ok \in BOOLEAN : f.query = q /\ Finish(f, ok)

\* The task of a run always comes back: with rows, with an error, or because
\* the database runtime is gone, which is an error too.
AnswersCome == \A q \in Queries : WF_vars(Answered(q))

Spec        == Init /\ [][Next]_vars /\ AnswersCome
SettledSpec == Init /\ [][SettledNext]_vars /\ AnswersCome

----------------------------------------------------------------------------
\* A query says it is running exactly as long as an answer is awaited: it
\* never spins for nothing, never looks idle while its statement is out, and
\* never has two statements out (plan, set_running and the end of run).
RunningIsAwaited ==
    /\ UNION {Running(content[p]) : p \in Pages} = InFlight
    /\ \A f, g \in flights : f.query = g.query => f = g

\* A query node spins only while its answer is awaited.
SpinnerHasRun == \A p \in Pages : Running(content[p]) \subseteq InFlight

\* An edge of a page ends in nodes of that page (connect, remove_node).
EdgesHaveEnds ==
    \A p \in Pages : \A e \in content[p].edges :
        On(content[p], e[1]) /\ On(content[p], e[2])

\* Every run ends: a spinning query stops spinning.
RunsEnd ==
    \A q \in Queries : \A p \in Pages :
        q \in Running(content[p]) ~> q \notin Running(content[p])
=============================================================================
