---------------------------- MODULE ResultTableProofs ----------------------------
(***************************************************************************)
(* ResultTable writes only to the rows that were meant, and what is picked *)
(* out of the table, saved and searched for in it is on the screen, for    *)
(* any keys, any searches and any number of presses, writes and runs.      *)
(*                                                                         *)
(* A deletion is confirmed with the selection of a later moment than it    *)
(* was asked with.  The invariant says what may have come between: either  *)
(* nothing that the selection is read through has changed, or it is empty. *)
(***************************************************************************)
EXTENDS ResultTable, FiniteSetTheorems, SequenceTheorems, TLAPS

\* A function from 1 to its length, whatever its values.
IsList(s) == s \in Seq({s[i] : i \in DOMAIN s})

IsNode(r) == /\ r \in [shape : {r.shape}, rows : {r.rows}, pivoted : {r.pivoted}]
             /\ IsList(r.rows)

IsFind(f) == f \in [open : {f.open}, term : {f.term}, due : {f.due}]

IsDrag(d) == d \in [from : {d.from}, base : {d.base}, moved : {d.moved}]

IsPicked(q) == q \in [cells : {q.cells}, rows : {q.rows}, drag : {q.drag}]

IsPick(q) == /\ IsPicked(q)
             /\ q.drag # None => IsDrag(q.drag)
             /\ q.cells # None => q.cells \in {q.cells[1]} \X {q.cells[2]}

IsEdit(e) == e \in [row : {e.row}, seen : {e.seen}, popover : {e.popover},
                     saving : {e.saving}, failed : {e.failed}]

Kinds == {"select", "update", "delete"}

IsQueue(w) == \A job \in w : job.kind \in Kinds

\* What the session answered: the rows of a query are a list.
IsHeard(as) == \A a \in as : a.job.kind = "select" => IsList(a.rows)

Types ==
  /\ DOMAIN db \subseteq Keys
  /\ IsNode(result) /\ IsNode(shown) /\ IsList(visible)
  /\ IsFind(find) /\ IsPick(picked) /\ (editing # None => IsEdit(editing))
  /\ IsQueue(work) /\ IsHeard(answers)

\* What is picked, or would be at the end of a drag, is displayed.
PickHolds(q, v) ==
  /\ q.rows \subseteq DOMAIN v
  /\ q.drag # None => q.cells = None /\ q.drag.from \in DOMAIN v /\ q.drag.base \subseteq DOMAIN v
  /\ q.cells # None => q.cells[1] \in DOMAIN v /\ q.cells[2] \in DOMAIN v
  /\ q.cells = None \/ q.rows = {}

\* An open cell is about the row it was opened on.
EditHolds == editing # None => editing.seen = shown.rows[editing.row]

\* While the dialog is up the selection is the one it counted, or gone.
AskHolds == asked # None => Chosen = {} \/ Chosen = asked

\* Without a find bar there is nothing searched for.
FindHolds == HiddenRowsHaveBar /\ (~find.open => find.term = None)

Inv == /\ Types /\ PickHolds(picked, visible) /\ EditHolds /\ AskHolds /\ FindHolds
       /\ WritesHitTheirRows /\ SavingIsAwaited

-----------------------------------------------------------------------------
(* Lists and records.  *)

\* A function on 1..n is a list.
LEMMA ListLemma ==
    ASSUME NEW n \in Nat, NEW s, s = [i \in 1..n |-> s[i]]
    PROVE  IsList(s) /\ DOMAIN s = 1..n /\ Len(s) = n
<1>1. DOMAIN s = 1..n
  OBVIOUS
<1>2. s \in [1..n -> {s[i] : i \in DOMAIN s}]
  BY <1>1
<1> QED
  BY <1>1, <1>2 DEF IsList

\* What is known of a list.
LEMMA ListProperties ==
    ASSUME NEW s, IsList(s)
    PROVE  Len(s) \in Nat /\ DOMAIN s = 1..Len(s)
BY DEF IsList

\* Taking the first off a list.
LEMMA TailLemma ==
    ASSUME NEW s, IsList(s), s # <<>>
    PROVE  /\ IsList(Tail(s))
           /\ Head(s) = s[1]
           /\ 1 \in DOMAIN s
           /\ \A i \in DOMAIN Tail(s) : i + 1 \in DOMAIN s /\ Tail(s)[i] = s[i + 1]
           /\ \A i \in DOMAIN s : i # 1 => i - 1 \in DOMAIN Tail(s) /\ Tail(s)[i - 1] = s[i]
<1> DEFINE S == {s[i] : i \in DOMAIN s}
           t == Tail(s)
<1>1. s \in Seq(S)
  BY DEF IsList
<1>2. /\ t \in Seq(S) /\ Len(t) = Len(s) - 1
      /\ \A i \in 1..Len(t) : t[i] = s[i + 1]
  BY <1>1, HeadTailProperties
<1>3. Head(s) = s[1] /\ Len(s) \in Nat \ {0} /\ DOMAIN s = 1..Len(s)
  BY <1>1, EmptySeq
<1> HIDE DEF S, t
<1>4. DOMAIN t = 1..Len(t) /\ Len(t) \in Nat
  BY <1>2
<1>5. t = [i \in 1..Len(t) |-> t[i]]
  BY <1>2, <1>4
<1>6. IsList(t)
  BY <1>4, <1>5, ListLemma
<1> QED
  BY <1>2, <1>3, <1>4, <1>6 DEF t

\* What an EXCEPT makes of a find bar, of a drag and of what is picked.
LEMMA FindRecord ==
    ASSUME NEW r, IsFind(r)
    PROVE  /\ \A x : [r EXCEPT !.open = x] = [open |-> x, term |-> r.term, due |-> r.due]
           /\ \A x : [r EXCEPT !.term = x] = [open |-> r.open, term |-> x, due |-> r.due]
           /\ \A x : [r EXCEPT !.due = x] = [open |-> r.open, term |-> r.term, due |-> x]
<1>1. ASSUME NEW x
      PROVE  [r EXCEPT !.open = x] = [open |-> x, term |-> r.term, due |-> r.due]
  <2> DEFINE S == {r.open}
             T == {r.term}
             U == {r.due}
  <2>1. r \in [open : S, term : T, due : U]
    BY DEF IsFind
  <2> HIDE DEF S, T, U
  <2> QED
    BY <2>1
<1>2. ASSUME NEW x
      PROVE  [r EXCEPT !.term = x] = [open |-> r.open, term |-> x, due |-> r.due]
  <2> DEFINE S == {r.open}
             T == {r.term}
             U == {r.due}
  <2>1. r \in [open : S, term : T, due : U]
    BY DEF IsFind
  <2> HIDE DEF S, T, U
  <2> QED
    BY <2>1
<1>3. ASSUME NEW x
      PROVE  [r EXCEPT !.due = x] = [open |-> r.open, term |-> r.term, due |-> x]
  <2> DEFINE S == {r.open}
             T == {r.term}
             U == {r.due}
  <2>1. r \in [open : S, term : T, due : U]
    BY DEF IsFind
  <2> HIDE DEF S, T, U
  <2> QED
    BY <2>1
<1> QED
  BY <1>1, <1>2, <1>3

\* A drag that moves.
LEMMA DragRecord ==
    ASSUME NEW r, IsDrag(r)
    PROVE  /\ \A x : [r EXCEPT !.from = x] = [from |-> x, base |-> r.base, moved |-> r.moved]
           /\ \A x : [r EXCEPT !.base = x] = [from |-> r.from, base |-> x, moved |-> r.moved]
           /\ \A x : [r EXCEPT !.moved = x] = [from |-> r.from, base |-> r.base, moved |-> x]
<1>1. ASSUME NEW x
      PROVE  [r EXCEPT !.from = x] = [from |-> x, base |-> r.base, moved |-> r.moved]
  <2> DEFINE S == {r.from}
             T == {r.base}
             U == {r.moved}
  <2>1. r \in [from : S, base : T, moved : U]
    BY DEF IsDrag
  <2> HIDE DEF S, T, U
  <2> QED
    BY <2>1
<1>2. ASSUME NEW x
      PROVE  [r EXCEPT !.base = x] = [from |-> r.from, base |-> x, moved |-> r.moved]
  <2> DEFINE S == {r.from}
             T == {r.base}
             U == {r.moved}
  <2>1. r \in [from : S, base : T, moved : U]
    BY DEF IsDrag
  <2> HIDE DEF S, T, U
  <2> QED
    BY <2>1
<1>3. ASSUME NEW x
      PROVE  [r EXCEPT !.moved = x] = [from |-> r.from, base |-> r.base, moved |-> x]
  <2> DEFINE S == {r.from}
             T == {r.base}
             U == {r.moved}
  <2>1. r \in [from : S, base : T, moved : U]
    BY DEF IsDrag
  <2> HIDE DEF S, T, U
  <2> QED
    BY <2>1
<1> QED
  BY <1>1, <1>2, <1>3

\* The selection.
LEMMA PickRecord ==
    ASSUME NEW r, IsPicked(r)
    PROVE  /\ \A x : [r EXCEPT !.cells = x] = [cells |-> x, rows |-> r.rows, drag |-> r.drag]
           /\ \A x : [r EXCEPT !.rows = x] = [cells |-> r.cells, rows |-> x, drag |-> r.drag]
           /\ \A x : [r EXCEPT !.drag = x] = [cells |-> r.cells, rows |-> r.rows, drag |-> x]
<1>1. ASSUME NEW x
      PROVE  [r EXCEPT !.cells = x] = [cells |-> x, rows |-> r.rows, drag |-> r.drag]
  <2> DEFINE S == {r.cells}
             T == {r.rows}
             U == {r.drag}
  <2>1. r \in [cells : S, rows : T, drag : U]
    BY DEF IsPicked
  <2> HIDE DEF S, T, U
  <2> QED
    BY <2>1
<1>2. ASSUME NEW x
      PROVE  [r EXCEPT !.rows = x] = [cells |-> r.cells, rows |-> x, drag |-> r.drag]
  <2> DEFINE S == {r.cells}
             T == {r.rows}
             U == {r.drag}
  <2>1. r \in [cells : S, rows : T, drag : U]
    BY DEF IsPicked
  <2> HIDE DEF S, T, U
  <2> QED
    BY <2>1
<1>3. ASSUME NEW x
      PROVE  [r EXCEPT !.drag = x] = [cells |-> r.cells, rows |-> r.rows, drag |-> x]
  <2> DEFINE S == {r.cells}
             T == {r.rows}
             U == {r.drag}
  <2>1. r \in [cells : S, rows : T, drag : U]
    BY DEF IsPicked
  <2> HIDE DEF S, T, U
  <2> QED
    BY <2>1
<1> QED
  BY <1>1, <1>2, <1>3

\* The end of a drag, or of a step of it.
LEMMA MovedRecord ==
    ASSUME NEW r, IsPicked(r), NEW x, NEW y
    PROVE  [r EXCEPT !.drag = x, !.rows = y] = [cells |-> r.cells, rows |-> y, drag |-> x]
<1> DEFINE g == [cells |-> r.cells, rows |-> r.rows, drag |-> x]
<1>1. [r EXCEPT !.drag = x] = g
  BY PickRecord
<1>2. [g EXCEPT !.rows = y] = [cells |-> r.cells, rows |-> y, drag |-> x]
  OBVIOUS
<1>3. [r EXCEPT !.drag = x, !.rows = y] = [[r EXCEPT !.drag = x] EXCEPT !.rows = y]
  OBVIOUS
<1> QED
  BY <1>1, <1>2, <1>3

\* A search that is closed.
LEMMA SearchRecord ==
    ASSUME NEW r, IsFind(r), NEW x, NEW y
    PROVE  [r EXCEPT !.open = x, !.term = y] = [open |-> x, term |-> y, due |-> r.due]
<1> DEFINE g == [open |-> x, term |-> r.term, due |-> r.due]
<1>1. [r EXCEPT !.open = x] = g
  BY FindRecord
<1>2. [g EXCEPT !.term = y] = [open |-> x, term |-> y, due |-> r.due]
  OBVIOUS
<1>3. [r EXCEPT !.open = x, !.term = y] = [[r EXCEPT !.open = x] EXCEPT !.term = y]
  OBVIOUS
<1> QED
  BY <1>1, <1>2, <1>3

\* The same, for the bar of this table.
LEMMA ClosedLemma ==
    ASSUME IsFind(find)
    PROVE  Closed = [open |-> FALSE, term |-> None, due |-> find.due]
BY SearchRecord DEF Closed

\* Displayed rows are a list, and so are fetched ones.
LEMMA DisplayLemma ==
    ASSUME NEW rows, IsList(rows), NEW term
    PROVE  IsList(Everything(rows)) /\ IsList(Matching(rows, term))
<1>1. DOMAIN rows = 1..Len(rows) /\ Len(rows) \in Nat
  BY ListProperties
<1>2. IsList(Everything(rows))
  <2> DEFINE e == Everything(rows)
  <2>1. e = [i \in 1..Len(rows) |-> e[i]]
    BY <1>1 DEF Everything
  <2> HIDE DEF e
  <2>2. IsList(e)
    BY <1>1, <2>1, ListLemma
  <2> QED
    BY <2>2 DEF e
<1>3. CASE term # None
  <2> DEFINE found == {i \in DOMAIN rows : rows[i][1] \in DOMAIN term}
             better(i) == {j \in found : term[rows[j][1]] < term[rows[i][1]]}
             v(q) == CHOOSE i \in found : Cardinality(better(i)) = q - 1
             m == Matching(rows, term)
  <2>1. Cardinality(found) \in Nat
    <3>1. IsFiniteSet(DOMAIN rows)
      BY <1>1, FS_Interval
    <3> QED
      BY <3>1, FS_Subset, FS_CardinalityType
  <2>2. m = [p \in 1..Cardinality(found) |-> v(p)]
    BY <1>3 DEF Matching
  <2> HIDE DEF found, v, m
  <2>3. m = [p \in 1..Cardinality(found) |-> m[p]]
    BY <2>2
  <2>4. IsList(m)
    BY <2>1, <2>3, ListLemma
  <2> QED
    BY <1>2, <2>4 DEF m
<1>4. CASE term = None
  BY <1>2, <1>4 DEF Matching
<1> QED
  BY <1>3, <1>4

\* The rows a query fetches are a list.
LEMMA FetchedLemma ==
    ASSUME NEW d, DOMAIN d \subseteq Keys
    PROVE  IsList(Fetched(d))
<1> DEFINE f == Fetched(d)
           n == Cardinality(DOMAIN d)
           key(i) == CHOOSE k \in DOMAIN d : Cardinality({j \in DOMAIN d : j < k}) = i - 1
           v(i) == <<key(i), d[key(i)]>>
<1>1. n \in Nat
  BY KeysAssumption, FS_Subset, FS_CardinalityType
<1>2. f = [i \in 1..n |-> v(i)]
  BY DEF Fetched
<1> HIDE DEF f, n, v
<1>3. f = [i \in 1..n |-> f[i]]
  BY <1>2
<1>4. IsList(f)
  BY <1>1, <1>3, ListLemma
<1> QED
  BY <1>4 DEF f

\* Nothing is picked, or cells are and nothing else.
LEMMA NoPickLemma ==
    /\ IsPick(NoPick) /\ \A v : PickHolds(NoPick, v)
    /\ \A x : [NoPick EXCEPT !.cells = x] = [cells |-> x, rows |-> {}, drag |-> None]
<1>1. IsPicked(NoPick) /\ NoPick.cells = None /\ NoPick.rows = {} /\ NoPick.drag = None
  BY DEF NoPick, IsPicked
<1>2. IsPick(NoPick) /\ \A v : PickHolds(NoPick, v)
  BY <1>1 DEF IsPick, PickHolds
<1> QED
  BY <1>1, <1>2, PickRecord

-----------------------------------------------------------------------------
(* Steps, by what they change.  *)

\* The invariant holds at first.
LEMMA InitInv == Init => Inv
<1> SUFFICES ASSUME Init PROVE Inv
  OBVIOUS
<1>1. PICK s \in Shapes : result = [shape |-> s, rows |-> Fetched(db), pivoted |-> FALSE]
  BY DEF Init
<1>2. DOMAIN db \subseteq Keys
  BY DEF Init
<1>3. IsList(result.rows)
  BY <1>1, <1>2, FetchedLemma
<1>4. IsNode(result) /\ IsNode(shown) /\ IsList(visible)
  BY <1>1, <1>3, DisplayLemma DEF Init, IsNode
<1>6. Types
  BY <1>2, <1>4 DEF Init, Types, IsFind, IsPick, IsPicked, IsDrag, NoPick, IsQueue, IsHeard
<1>7. PickHolds(picked, visible)
  BY DEF Init, PickHolds, NoPick
<1>8. EditHolds /\ AskHolds /\ FindHolds /\ SavingIsAwaited
  BY DEF Init, EditHolds, AskHolds, FindHolds, HiddenRowsHaveBar, SavingIsAwaited, Awaits
<1>9. WritesHitTheirRows
  BY DEF Init, WritesHitTheirRows
<1> QED
  BY <1>6, <1>7, <1>8, <1>9 DEF Inv

\* Nothing but the rows of the node, or its view, changes: a pivot, a run.
LEMMA NoScreenLemma ==
    ASSUME Inv, IsNode(result'), DOMAIN db' \subseteq Keys,
           UNCHANGED <<shown, visible, find, picked, editing, asked>>,
           IsQueue(work'), IsHeard(answers'), WritesHitTheirRows', SavingIsAwaited'
    PROVE  Inv'
<1>1. Types'
  BY DEF Inv, Types
<1>2. PickHolds(picked, visible)' /\ EditHolds' /\ FindHolds'
  BY DEF Inv, PickHolds, EditHolds, FindHolds, HiddenRowsHaveBar, Everything
<1>3. AskHolds'
  BY DEF Inv, AskHolds, Chosen
<1> QED
  BY <1>1, <1>2, <1>3 DEF Inv

\* A gesture that changes what is picked and nothing else, and no dialog is up.
LEMMA PickLemma ==
    ASSUME Inv, asked = None, NEW q, IsPick(q), PickHolds(q, visible), Pick(q)
    PROVE  Inv'
<1>1. Types'
  BY DEF Inv, Types, Pick, remote
<1>2. PickHolds(picked, visible)' /\ EditHolds' /\ AskHolds' /\ FindHolds'
  BY DEF Inv, Pick, PickHolds, EditHolds, AskHolds, FindHolds, HiddenRowsHaveBar, Everything
<1>3. WritesHitTheirRows' /\ SavingIsAwaited'
  BY DEF Inv, Pick, remote, WritesHitTheirRows, UpdateHitsOpenedRow, DeleteHitsAskedRows,
         SavingIsAwaited, Awaits
<1> QED
  BY <1>1, <1>2, <1>3 DEF Inv

\* A step that shows other rows, and drops what was picked.
LEMMA FindLemma ==
    ASSUME Inv, NEW f, NEW v, Find(f, v), IsFind(f), IsList(v),
           \/ picked' = NoPick
           \/ picked' = picked /\ v = visible,
           f.open \/ (f.term = None /\ v = Everything(shown.rows))
    PROVE  Inv'
<1>1. Types'
  BY NoPickLemma DEF Inv, Types, Find, remote
<1>2. PickHolds(picked, visible)' /\ EditHolds' /\ FindHolds'
  BY DEF Inv, Find, PickHolds, NoPick, EditHolds, FindHolds, HiddenRowsHaveBar, Everything
<1>3. AskHolds'
  <2>1. CASE picked' = NoPick
    BY <2>1 DEF AskHolds, Chosen, NoPick
  <2>2. CASE picked' = picked /\ v = visible
    BY <2>2 DEF Inv, Find, AskHolds, Chosen
  <2> QED
    BY <2>1, <2>2
<1>4. WritesHitTheirRows' /\ SavingIsAwaited'
  BY DEF Inv, Find, remote, WritesHitTheirRows, UpdateHitsOpenedRow, DeleteHitsAskedRows,
         SavingIsAwaited, Awaits
<1> QED
  BY <1>1, <1>2, <1>3, <1>4 DEF Inv

\* New rows, or rows in the other order, drop what was picked and close the
\* open cell.
LEMMA FrameInv ==
    ASSUME Inv, Frame
    PROVE  Inv'
<1> DEFINE fresh == result.rows # shown.rows
           moved == fresh \/ result.pivoted # shown.pivoted
<1>1. /\ shown' = result
      /\ visible' = IF fresh THEN Everything(result.rows) ELSE visible
      /\ picked' = IF moved THEN NoPick ELSE picked
      /\ editing' = IF moved THEN None ELSE editing
      /\ UNCHANGED <<result, remote, find, panel, asked, budget>>
  BY DEF Frame, Adopt
<1>2. IsList(visible')
  BY <1>1, DisplayLemma DEF Inv, Types, IsNode
<1>3. Types'
  BY <1>1, <1>2, NoPickLemma DEF Inv, Types, remote
<1>4. PickHolds(picked, visible)'
  BY <1>1 DEF Inv, PickHolds, NoPick
<1>5. EditHolds'
  BY <1>1 DEF Inv, EditHolds
<1>6. AskHolds'
  <2>1. CASE moved
    BY <1>1, <2>1 DEF AskHolds, Chosen, NoPick
  <2>2. CASE ~moved
    BY <1>1, <2>2 DEF Inv, AskHolds, Chosen
  <2> QED
    BY <2>1, <2>2
<1>7. FindHolds'
  BY <1>1 DEF Inv, FindHolds, HiddenRowsHaveBar, Everything
<1>8. WritesHitTheirRows' /\ SavingIsAwaited'
  BY <1>1 DEF Inv, remote, WritesHitTheirRows, UpdateHitsOpenedRow, DeleteHitsAskedRows,
         SavingIsAwaited, Awaits
<1> QED
  BY <1>3, <1>4, <1>5, <1>6, <1>7, <1>8 DEF Inv

-----------------------------------------------------------------------------
(* Gestures on the table.  *)

\* The rows between two displayed ones are displayed.
LEMMA BetweenLemma ==
    ASSUME IsList(visible), NEW a \in Positions, NEW b \in Positions
    PROVE  Min({a, b})..Max({a, b}) \subseteq Positions
<1>1. DOMAIN visible = 1..Len(visible) /\ Len(visible) \in Nat
  BY ListProperties
<1>2. a \in 1..Len(visible) /\ b \in 1..Len(visible)
  BY <1>1 DEF Positions
<1>3. Min({a, b}) \in {a, b}
  <2>1. \E x \in {a, b} : \A y \in {a, b} : x =< y
    BY <1>1, <1>2
  <2> QED
    BY <2>1 DEF Min
<1>4. Max({a, b}) \in {a, b}
  <2>1. \E x \in {a, b} : \A y \in {a, b} : x >= y
    BY <1>1, <1>2
  <2> QED
    BY <2>1 DEF Max
<1>5. Min({a, b}) \in 1..Len(visible) /\ Max({a, b}) \in 1..Len(visible)
  BY <1>2, <1>3, <1>4
<1> QED
  BY <1>1, <1>5 DEF Positions

\* A press picks what is displayed.
LEMMA PressInv ==
    ASSUME Inv, \/ \E p \in Positions : PressCell(p) \/ PressRow(p)
                \/ PressHeader
    PROVE  Inv'
<1>1. IsPick(picked) /\ IsList(visible) /\ PickHolds(picked, visible)
  BY DEF Inv, Types
<1>2. CASE \E p \in Positions : PressCell(p)
  <2>1. PICK p \in Positions : PressCell(p)
    BY <1>2
  <2> DEFINE q == [cells |-> <<p, p>>, rows |-> {}, drag |-> None]
  <2>2. Pick(q) /\ asked = None
    BY <2>1, NoPickLemma DEF PressCell, Grid, Free
  <2>3. IsPick(q) /\ PickHolds(q, visible)
    BY DEF IsPick, IsPicked, IsDrag, PickHolds, Positions
  <2> QED
    BY <2>2, <2>3, PickLemma
<1>3. CASE \E p \in Positions : PressRow(p)
  <2>1. PICK p \in Positions : PressRow(p)
    BY <1>3
  <2> DEFINE d == [from |-> p, base |-> picked.rows, moved |-> FALSE]
             q == [cells |-> None, rows |-> picked.rows, drag |-> d]
  <2>2. [picked EXCEPT !.cells = None, !.drag = d] = q
    <3> DEFINE g == [cells |-> None, rows |-> picked.rows, drag |-> picked.drag]
    <3>1. IsPicked(picked) /\ IsPicked(g)
      BY <1>1 DEF IsPick, IsPicked
    <3>2. [picked EXCEPT !.cells = None] = g
      BY <3>1, PickRecord
    <3> HIDE DEF d
    <3>3. [g EXCEPT !.drag = d] = [cells |-> g.cells, rows |-> g.rows, drag |-> d]
      <4> HIDE DEF g
      <4> QED
        BY <3>1, PickRecord
    <3>4. [picked EXCEPT !.cells = None, !.drag = d] = [[picked EXCEPT !.cells = None] EXCEPT !.drag = d]
      OBVIOUS
    <3> QED
      BY <3>2, <3>3, <3>4
  <2>3. Pick(q) /\ asked = None
    BY <2>1, <2>2 DEF PressRow, Grid, Free
  <2>4. IsPick(q) /\ PickHolds(q, visible)
    BY <1>1 DEF IsPick, IsPicked, IsDrag, PickHolds, Positions
  <2> QED
    BY <2>3, <2>4, PickLemma
<1>4. CASE PressHeader
  <2> DEFINE q == [cells |-> <<1, Len(visible)>>, rows |-> {}, drag |-> None]
  <2>1. Pick(q) /\ asked = None /\ visible # <<>>
    BY <1>4, NoPickLemma DEF PressHeader, Grid, Free
  <2>2. 1 \in DOMAIN visible /\ Len(visible) \in DOMAIN visible
    BY <1>1, <2>1, TailLemma, ListProperties
  <2>3. IsPick(q) /\ PickHolds(q, visible)
    BY <2>2 DEF IsPick, IsPicked, IsDrag, PickHolds
  <2> QED
    BY <2>1, <2>3, PickLemma
<1> QED
  BY <1>2, <1>3, <1>4

\* A drag picks up to a displayed row.
LEMMA DragInv ==
    ASSUME Inv, NEW p \in Positions, DragTo(p)
    PROVE  Inv'
<1>1. IsPick(picked) /\ IsList(visible) /\ PickHolds(picked, visible)
  BY DEF Inv, Types
<1>2. asked = None
  BY DEF DragTo, Grid, Free
<1>3. CASE picked.drag # None
  <2> DEFINE from == picked.drag.from
             new  == picked.drag.base \cup Min({from, p})..Max({from, p})
             d    == [from |-> from, base |-> picked.drag.base, moved |-> TRUE]
             q    == [cells |-> picked.cells, rows |-> new, drag |-> d]
  <2>1. Pick([picked EXCEPT !.drag.moved = TRUE, !.rows = new])
    BY <1>3 DEF DragTo
  <2>2. IsDrag(picked.drag)
    BY <1>1, <1>3 DEF IsPick
  <2>3. [picked.drag EXCEPT !.moved = TRUE] = d
    BY <2>2, DragRecord
  <2>4. [picked EXCEPT !.drag.moved = TRUE, !.rows = new] = q
    <3> HIDE DEF new, d
    <3>1. IsPicked(picked)
      BY <1>1 DEF IsPick
    <3> QED
      BY <2>3, <3>1, MovedRecord
  <2>5. from \in Positions /\ picked.drag.base \subseteq Positions /\ picked.cells = None
    BY <1>1, <1>3 DEF PickHolds, Positions
  <2>6. new \subseteq Positions
    BY <1>1, <2>5, BetweenLemma
  <2>7. IsPick(q) /\ PickHolds(q, visible)
    <3> HIDE DEF new
    <3> QED
      BY <2>5, <2>6 DEF IsPick, IsPicked, IsDrag, PickHolds, Positions
  <2>8. Pick(q)
    BY <2>1, <2>4
  <2> HIDE DEF q
  <2> QED
    BY <1>2, <2>7, <2>8, PickLemma
<1>4. CASE picked.drag = None
  <2> DEFINE c == <<picked.cells[1], p>>
             q == [cells |-> c, rows |-> picked.rows, drag |-> picked.drag]
  <2>1. picked.cells # None /\ Pick([picked EXCEPT !.cells[2] = p])
    BY <1>4 DEF DragTo
  <2>2. picked.cells \in {picked.cells[1]} \X {picked.cells[2]}
    BY <1>1, <2>1 DEF IsPick, IsPicked, IsDrag
  <2>3. [picked.cells EXCEPT ![2] = p] = c
    BY <2>2
  <2>4. [picked EXCEPT !.cells[2] = p] = q
    <3> HIDE DEF c
    <3>1. [picked EXCEPT !.cells = [picked.cells EXCEPT ![2] = p]]
            = [cells |-> c, rows |-> picked.rows, drag |-> picked.drag]
      BY <1>1, <2>3, PickRecord DEF IsPick
    <3> QED
      BY <3>1
  <2>5. IsPick(q) /\ PickHolds(q, visible)
    BY <1>1, <1>4, <2>1 DEF IsPick, IsPicked, IsDrag, PickHolds, Positions
  <2>6. Pick(q)
    BY <2>1, <2>4
  <2> HIDE DEF q
  <2> QED
    BY <1>2, <2>5, <2>6, PickLemma
<1> QED
  BY <1>3, <1>4

\* The end of a drag keeps to what the drag was over.
LEMMA ReleaseInv ==
    ASSUME Inv, Release
    PROVE  Inv'
<1>1. IsPick(picked) /\ PickHolds(picked, visible)
  BY DEF Inv, Types
<1> DEFINE from == {picked.drag.from}
           base == picked.drag.base
           new  == IF picked.drag.moved THEN picked.rows ELSE (base \ from) \cup (from \ base)
           q    == [cells |-> picked.cells, rows |-> new, drag |-> None]
<1>2. asked = None /\ picked.drag # None /\ Pick([picked EXCEPT !.drag = None, !.rows = new])
  BY DEF Release, Grid, Free
<1>3. new \subseteq DOMAIN visible /\ picked.cells = None
  BY <1>1, <1>2 DEF PickHolds
<1> HIDE DEF new
<1>4. [picked EXCEPT !.drag = None, !.rows = new] = q
  <2>1. IsPicked(picked)
    BY <1>1 DEF IsPick
  <2> QED
    BY <2>1, MovedRecord
<1>5. IsPick(q) /\ PickHolds(q, visible)
  BY <1>3 DEF IsPick, IsPicked, IsDrag, PickHolds
<1>6. Pick(q)
  BY <1>2, <1>4
<1> HIDE DEF q
<1> QED
  BY <1>2, <1>5, <1>6, PickLemma

\* The find bar opens, is typed into, searches and closes.
LEMMA FindInv ==
    ASSUME Inv, OpenFind \/ (\E t \in Terms \cup {None} : TypeFind(t)) \/ CloseFind \/ Search
    PROVE  Inv'
<1>1. IsFind(find) /\ IsList(visible) /\ IsList(shown.rows) /\ FindHolds
  BY DEF Inv, Types, IsNode
<1>2. CASE OpenFind
  <2> DEFINE f == [open |-> TRUE, term |-> find.term, due |-> find.due]
  <2>1. [find EXCEPT !.open = TRUE] = f
    BY <1>1, FindRecord
  <2>2. Find(f, visible) /\ picked' = picked
    BY <1>2, <2>1 DEF OpenFind
  <2>3. IsFind(f) /\ f.open
    BY DEF IsFind
  <2> HIDE DEF f
  <2> QED
    BY <1>1, <2>2, <2>3, FindLemma
<1>3. CASE \E t \in Terms \cup {None} : TypeFind(t)
  <2>1. PICK t \in Terms \cup {None} : TypeFind(t)
    BY <1>3
  <2> DEFINE f == [open |-> find.open, term |-> t, due |-> TRUE]
  <2>2. [find EXCEPT !.term = t, !.due = TRUE] = f
    <3> DEFINE g == [open |-> find.open, term |-> t, due |-> find.due]
    <3>1. [find EXCEPT !.term = t] = g
      BY <1>1, FindRecord
    <3>2. [g EXCEPT !.due = TRUE] = f
      <4>1. IsFind(g) /\ g.open = find.open /\ g.term = t
        BY DEF IsFind
      <4> HIDE DEF g
      <4> QED
        BY <4>1, FindRecord
    <3>3. [find EXCEPT !.term = t, !.due = TRUE] = [[find EXCEPT !.term = t] EXCEPT !.due = TRUE]
      OBVIOUS
    <3> QED
      BY <3>1, <3>2, <3>3
  <2>3. Find(f, visible) /\ picked' = picked /\ find.open
    BY <2>1, <2>2 DEF TypeFind
  <2>4. IsFind(f) /\ f.open
    BY <2>3 DEF IsFind
  <2> HIDE DEF f
  <2> QED
    BY <1>1, <2>3, <2>4, FindLemma
<1>4. CASE CloseFind
  <2> DEFINE f == [open |-> FALSE, term |-> None, due |-> find.due]
  <2>1. Closed = f
    BY <1>1, ClosedLemma
  <2>2. Matching(shown.rows, None) = Everything(shown.rows)
    BY DEF Matching
  <2>3. Find(f, Everything(shown.rows)) /\ picked' = NoPick
    BY <1>4, <2>1, <2>2 DEF CloseFind
  <2>4. IsFind(f) /\ f.term = None /\ IsList(Everything(shown.rows))
    BY <1>1, DisplayLemma DEF IsFind
  <2> HIDE DEF f
  <2> QED
    BY <2>3, <2>4, FindLemma
<1>5. CASE Search
  <2> DEFINE f == [open |-> find.open, term |-> find.term, due |-> FALSE]
             v == Matching(shown.rows, find.term)
  <2>1. [find EXCEPT !.due = FALSE] = f
    BY <1>1, FindRecord
  <2>2. Find(f, v) /\ picked' = NoPick
    BY <1>5, <2>1 DEF Search
  <2>3. IsFind(f) /\ IsList(v)
    BY <1>1, DisplayLemma DEF IsFind
  <2>4. f.open \/ (f.term = None /\ v = Everything(shown.rows))
    BY <1>1 DEF FindHolds, Matching
  <2> HIDE DEF f, v
  <2> QED
    BY <2>2, <2>3, <2>4, FindLemma
<1> QED
  BY <1>2, <1>3, <1>4, <1>5

\* A double-click presses the cell, and opens an editor on the row it shows.
LEMMA OpenCellInv ==
    ASSUME Inv, NEW p \in Positions, NEW value, OpenCell(p, value)
    PROVE  Inv'
<1> DEFINE e == [row |-> visible[p], seen |-> shown.rows[visible[p]],
                 popover |-> (value = "json"), saving |-> FALSE, failed |-> FALSE]
           q == [cells |-> <<p, p>>, rows |-> {}, drag |-> None]
<1>1. /\ asked = None
      /\ picked' = picked \/ picked' = q
      /\ editing' = editing \/ editing' = e
      /\ UNCHANGED <<result, remote, shown, visible, find, asked>>
  BY DEF OpenCell, Free, NoPick, Opened
<1>2. IsPick(q) /\ PickHolds(q, visible)
  BY DEF IsPick, IsPicked, IsDrag, PickHolds, Positions
<1>3. IsEdit(e) /\ e.seen = shown.rows[e.row] /\ ~e.saving
  BY DEF IsEdit
<1> HIDE DEF e, q
<1>4. Types'
  BY <1>1, <1>2, <1>3 DEF Inv, Types, remote
<1>5. PickHolds(picked, visible)'
  BY <1>1, <1>2 DEF Inv, PickHolds
<1>6. EditHolds' /\ AskHolds' /\ FindHolds'
  BY <1>1, <1>3 DEF Inv, EditHolds, AskHolds, FindHolds, HiddenRowsHaveBar, Everything
<1>7. WritesHitTheirRows' /\ SavingIsAwaited'
  BY <1>1, <1>3 DEF Inv, remote, WritesHitTheirRows, UpdateHitsOpenedRow,
     DeleteHitsAskedRows, SavingIsAwaited, Awaits
<1> QED
  BY <1>4, <1>5, <1>6, <1>7 DEF Inv

\* Escape takes down the dialog, the editors, the pane or the search.
LEMMA EscapeInv ==
    ASSUME Inv, Escape
    PROVE  Inv'
<1> DEFINE f == [open |-> FALSE, term |-> None, due |-> find.due]
           v == Everything(shown.rows)
<1>1. Closed = f /\ Matching(shown.rows, None) = v
  <2>1. IsFind(find)
    BY DEF Inv, Types
  <2>2. Closed = f
    BY <2>1, ClosedLemma
  <2> QED
    BY <2>2 DEF Matching
<1>2. IsFind(f) /\ IsList(v) /\ f.term = None
  BY DisplayLemma DEF Inv, Types, IsNode, IsFind
<1>3. /\ asked' = None
      /\ editing' = editing \/ editing' = None
      /\ UNCHANGED <<result, remote, shown>>
      /\ \/ UNCHANGED <<visible, find, picked>>
         \/ picked' = NoPick /\ find' = f /\ visible' = v
         \/ picked' = NoPick /\ find' = find /\ visible' = visible
  BY <1>1 DEF Escape
<1>4. IsPick(NoPick) /\ PickHolds(NoPick, visible) /\ PickHolds(NoPick, v)
  BY NoPickLemma
<1> HIDE DEF f
<1>5. Types'
  BY <1>2, <1>3, <1>4 DEF Inv, Types, remote
<1>6. PickHolds(picked, visible)'
  BY <1>3, <1>4 DEF Inv, PickHolds
<1>7. EditHolds' /\ AskHolds'
  BY <1>3 DEF Inv, EditHolds, AskHolds
<1>8. FindHolds'
  BY <1>2, <1>3 DEF Inv, FindHolds, HiddenRowsHaveBar, Everything
<1>9. WritesHitTheirRows' /\ SavingIsAwaited'
  BY <1>3 DEF Inv, remote, WritesHitTheirRows, UpdateHitsOpenedRow, DeleteHitsAskedRows,
     SavingIsAwaited, Awaits
<1> QED
  BY <1>5, <1>6, <1>7, <1>8, <1>9 DEF Inv

-----------------------------------------------------------------------------
(* Statements.  *)

\* A statement that is sent, and hits its rows.
LEMMA SentLemma ==
    ASSUME IsQueue(work), WritesHitTheirRows, NEW job, job.kind \in Kinds,
           UpdateHitsOpenedRow(job), DeleteHitsAskedRows(job),
           work' = work \cup {job}
    PROVE  IsQueue(work') /\ WritesHitTheirRows'
BY DEF IsQueue, WritesHitTheirRows, UpdateHitsOpenedRow, DeleteHitsAskedRows

\* A run that is asked for sends a select, or nothing.
LEMMA RunLemma ==
    ASSUME IsQueue(work), WritesHitTheirRows, Start \/ work' = work
    PROVE  IsQueue(work') /\ WritesHitTheirRows' /\ work \subseteq work'
<1>1. CASE work' = work
  BY <1>1 DEF WritesHitTheirRows, UpdateHitsOpenedRow, DeleteHitsAskedRows
<1>2. CASE Start
  <2>1. work' = work \cup {Select}
    BY <1>2 DEF Start
  <2>2. UpdateHitsOpenedRow(Select) /\ DeleteHitsAskedRows(Select) /\ Select.kind \in Kinds
    BY DEF UpdateHitsOpenedRow, DeleteHitsAskedRows, Kinds, Select
  <2> QED
    BY <2>1, <2>2, SentLemma
<1> QED
  BY <1>1, <1>2

\* The statement of the cell that is being saved is not lost between the
\* session and the window.
LEMMA AwaitedLemma ==
    ASSUME SavingIsAwaited, editing' = editing \/ editing' = None \/ ~editing'.saving,
           \A job \in work : job.kind = "update" => job \in work' \/ \E a \in answers' : a.job = job,
           \A a \in answers : a.job.kind = "update" => a \in answers'
    PROVE  SavingIsAwaited'
BY DEF SavingIsAwaited, Awaits

\* A pivot leaves the screen to the next frame.
LEMMA PivotInv ==
    ASSUME Inv, Pivot
    PROVE  Inv'
<1>1. IsNode(result')
  <2> DEFINE x == ~result.pivoted
             q == [shape |-> result.shape, rows |-> result.rows, pivoted |-> x]
             S == {result.shape}
             T == {result.rows}
             U == {result.pivoted}
  <2>1. result \in [shape : S, rows : T, pivoted : U] /\ IsList(result.rows)
    BY DEF Inv, Types, IsNode
  <2>2. result' = [result EXCEPT !.pivoted = x]
    BY DEF Pivot
  <2> HIDE DEF S, T, U, x
  <2>3. result' = q
    BY <2>1, <2>2
  <2> QED
    BY <2>1, <2>3 DEF IsNode
<1>2. UNCHANGED <<remote, screen>>
  BY DEF Pivot
<1> QED
  BY <1>1, <1>2, NoScreenLemma DEF remote, screen, Inv, Types, WritesHitTheirRows,
     UpdateHitsOpenedRow, DeleteHitsAskedRows, SavingIsAwaited, Awaits

\* A run adds a select.
LEMMA RunInv ==
    ASSUME Inv, Run
    PROVE  Inv'
<1>1. (Start \/ work' = work) /\ UNCHANGED <<db, result, answers, screen>>
  BY DEF Run, Declined
<1>2. IsQueue(work') /\ WritesHitTheirRows' /\ work \subseteq work'
  BY <1>1, RunLemma DEF Inv, Types
<1>3. SavingIsAwaited'
  BY <1>1, <1>2, AwaitedLemma DEF Inv, screen
<1> QED
  BY <1>1, <1>2, <1>3, NoScreenLemma DEF screen, Inv, Types

\* What the query is good for shows nowhere.
LEMMA RewireInv ==
    ASSUME Inv, NEW s, Rewire(s)
    PROVE  Inv'
<1>1. UNCHANGED <<db, result, work, answers, screen>>
  BY DEF Rewire
<1>2. WritesHitTheirRows' /\ SavingIsAwaited'
  BY <1>1 DEF Inv, screen, WritesHitTheirRows, UpdateHitsOpenedRow, DeleteHitsAskedRows,
         SavingIsAwaited, Awaits
<1> QED
  BY <1>1, <1>2, NoScreenLemma DEF screen, Inv, Types

\* What an EXCEPT makes of an open cell.
LEMMA EditRecord ==
    ASSUME NEW r, IsEdit(r), NEW x, NEW y
    PROVE  /\ [r EXCEPT !.saving = x, !.failed = y]
                = [row |-> r.row, seen |-> r.seen, popover |-> r.popover, saving |-> x, failed |-> y]
           /\ [r EXCEPT !.failed = y]
                = [row |-> r.row, seen |-> r.seen, popover |-> r.popover,
                   saving |-> r.saving, failed |-> y]
<1> DEFINE A == {r.row}
           B == {r.seen}
           C == {r.popover}
           D == {r.saving, x}
           E == {r.failed, y}
           q == [r EXCEPT !.saving = x, !.failed = y]
           w == [r EXCEPT !.failed = y]
<1>1. r \in [row : A, seen : B, popover : C, saving : D, failed : E] /\ x \in D /\ y \in E
  BY DEF IsEdit
<1> HIDE DEF A, B, C, D, E
<1>2. q \in [row : A, seen : B, popover : C, saving : D, failed : E]
  BY <1>1
<1>3. q.row = r.row /\ q.seen = r.seen /\ q.popover = r.popover /\ q.saving = x /\ q.failed = y
  BY <1>1
<1>4. w \in [row : A, seen : B, popover : C, saving : D, failed : E]
  BY <1>1
<1>5. w.row = r.row /\ w.seen = r.seen /\ w.popover = r.popover /\ w.saving = r.saving /\ w.failed = y
  BY <1>1
<1> HIDE DEF q, w
<1>6. q = [row |-> r.row, seen |-> r.seen, popover |-> r.popover, saving |-> x, failed |-> y]
  BY <1>2, <1>3
<1>7. w = [row |-> r.row, seen |-> r.seen, popover |-> r.popover, saving |-> r.saving, failed |-> y]
  BY <1>4, <1>5
<1> QED
  BY <1>6, <1>7 DEF q, w

\* The update is pinned to the row of the cell, which is the row it was
\* opened on.
LEMMA CommitInv ==
    ASSUME Inv, NEW value, Commit(value)
    PROVE  Inv'
<1> DEFINE job == [kind |-> "update", key |-> shown.rows[editing.row][1], value |-> value,
                   meant |-> editing.seen[1], number |-> budget.sent]
<1>1. /\ asked = None /\ editing # None
      /\ work' = work \cup {job}
      /\ editing' = [editing EXCEPT !.saving = TRUE, !.failed = FALSE]
      /\ UNCHANGED <<db, result, answers, shown, visible, find, picked, asked>>
  BY DEF Commit
<1>2. /\ job.kind \in Kinds /\ job.kind = "update" /\ job.meant = editing.seen[1]
      /\ UpdateHitsOpenedRow(job) /\ DeleteHitsAskedRows(job)
  BY <1>1 DEF Inv, EditHolds, UpdateHitsOpenedRow, DeleteHitsAskedRows, Kinds
<1> HIDE DEF job
<1>3. IsQueue(work') /\ WritesHitTheirRows' /\ job \in work'
  BY <1>1, <1>2, SentLemma DEF Inv, Types
<1>4. IsEdit(editing') /\ editing'.row = editing.row /\ editing'.seen = editing.seen
  <2>1. IsEdit(editing)
    BY <1>1 DEF Inv, Types
  <2>2. editing' = [row |-> editing.row, seen |-> editing.seen, popover |-> editing.popover,
                    saving |-> TRUE, failed |-> FALSE]
    BY <1>1, <2>1, EditRecord
  <2> QED
    BY <2>2 DEF IsEdit
<1>5. Types'
  BY <1>1, <1>3, <1>4 DEF Inv, Types
<1>6. PickHolds(picked, visible)' /\ AskHolds' /\ FindHolds'
  BY <1>1 DEF Inv, PickHolds, AskHolds, Chosen, FindHolds, HiddenRowsHaveBar, Everything
<1>7. EditHolds'
  BY <1>1, <1>4 DEF Inv, EditHolds
<1>8. SavingIsAwaited'
  BY <1>2, <1>3, <1>4 DEF SavingIsAwaited, Awaits
<1> QED
  BY <1>3, <1>5, <1>6, <1>7, <1>8 DEF Inv

\* A refused edit stays open.
LEMMA RefusedInv ==
    ASSUME Inv, Refused
    PROVE  Inv'
<1>1. /\ asked = None /\ editing # None /\ ~editing.saving
      /\ editing' = [editing EXCEPT !.failed = TRUE]
      /\ UNCHANGED <<result, remote, shown, visible, find, picked, asked>>
  BY DEF Refused
<1>2. /\ IsEdit(editing') /\ editing'.row = editing.row /\ editing'.seen = editing.seen
      /\ editing'.saving = editing.saving
  <2>1. IsEdit(editing)
    BY <1>1 DEF Inv, Types
  <2>2. editing' = [row |-> editing.row, seen |-> editing.seen, popover |-> editing.popover,
                    saving |-> editing.saving, failed |-> TRUE]
    BY <1>1, <2>1, EditRecord
  <2> QED
    BY <2>2 DEF IsEdit
<1>3. Types'
  BY <1>1, <1>2 DEF Inv, Types, remote
<1>4. PickHolds(picked, visible)' /\ AskHolds' /\ FindHolds' /\ EditHolds'
  BY <1>1, <1>2 DEF Inv, PickHolds, AskHolds, FindHolds, HiddenRowsHaveBar, Everything, EditHolds
<1>5. WritesHitTheirRows' /\ SavingIsAwaited'
  BY <1>1, <1>2 DEF Inv, remote, WritesHitTheirRows, UpdateHitsOpenedRow, DeleteHitsAskedRows,
     SavingIsAwaited, Awaits
<1> QED
  BY <1>3, <1>4, <1>5 DEF Inv

\* The dialog counts the rows on screen, which are those of the selection.
LEMMA AskInv ==
    ASSUME Inv, Ask
    PROVE  Inv'
<1>1. asked' = OnScreen /\ UNCHANGED <<result, remote, shown, visible, find, picked, editing>>
  BY DEF Ask
<1>2. picked.rows \cap DOMAIN visible = picked.rows
  BY DEF Inv, PickHolds
<1>3. Chosen = OnScreen
  BY <1>2 DEF Chosen, OnScreen
<1>4. Chosen' = Chosen
  BY <1>1 DEF Chosen
<1>5. AskHolds'
  BY <1>1, <1>3, <1>4 DEF AskHolds
<1>6. Types'
  BY <1>1 DEF Inv, Types, remote
<1>7. PickHolds(picked, visible)' /\ FindHolds' /\ EditHolds'
  BY <1>1 DEF Inv, PickHolds, FindHolds, HiddenRowsHaveBar, Everything, EditHolds
<1>8. WritesHitTheirRows' /\ SavingIsAwaited'
  BY <1>1 DEF Inv, remote, WritesHitTheirRows, UpdateHitsOpenedRow, DeleteHitsAskedRows,
     SavingIsAwaited, Awaits
<1> QED
  BY <1>5, <1>6, <1>7, <1>8 DEF Inv

\* What is deleted is what the dialog counted.
LEMMA ConfirmInv ==
    ASSUME Inv, Confirm
    PROVE  Inv'
<1> DEFINE job == [kind |-> "delete", keys |-> Chosen, meant |-> asked, number |-> budget.sent]
<1>1. /\ asked # None /\ asked' = None
      /\ UNCHANGED <<db, result, answers, shown, visible, find, picked, editing>>
      /\ work' = work \/ (Chosen # {} /\ work' = work \cup {job})
  BY DEF Confirm
<1>2. IsQueue(work') /\ WritesHitTheirRows' /\ work \subseteq work'
  <2>1. CASE work' = work
    BY <2>1 DEF Inv, Types, WritesHitTheirRows, UpdateHitsOpenedRow, DeleteHitsAskedRows
  <2>2. CASE Chosen # {} /\ work' = work \cup {job}
    <3>1. UpdateHitsOpenedRow(job) /\ DeleteHitsAskedRows(job) /\ job.kind \in Kinds
      BY <1>1, <2>2 DEF Inv, AskHolds, UpdateHitsOpenedRow, DeleteHitsAskedRows, Kinds
    <3> HIDE DEF job
    <3> QED
      BY <2>2, <3>1, SentLemma DEF Inv, Types
  <2> QED
    BY <1>1, <2>1, <2>2
<1>3. Types'
  BY <1>1, <1>2 DEF Inv, Types
<1>4. PickHolds(picked, visible)' /\ AskHolds' /\ FindHolds' /\ EditHolds'
  BY <1>1 DEF Inv, PickHolds, AskHolds, FindHolds, HiddenRowsHaveBar, Everything, EditHolds
<1>5. SavingIsAwaited'
  BY <1>1, <1>2, AwaitedLemma DEF Inv
<1> QED
  BY <1>2, <1>3, <1>4, <1>5 DEF Inv

-----------------------------------------------------------------------------
(* The session, and what is heard of it.  *)

\* A statement never makes up a key.
LEMMA DoneLemma ==
    ASSUME DOMAIN db \subseteq Keys, NEW job, job.kind \in Kinds
    PROVE  DOMAIN Done(job) \subseteq Keys
<1>1. CASE job.kind = "select"
  BY <1>1 DEF Done
<1>2. CASE job.kind = "update"
  BY <1>2 DEF Done
<1>3. CASE job.kind = "delete"
  BY <1>3 DEF Done
<1> QED
  BY <1>1, <1>2, <1>3 DEF Kinds

\* The session takes a statement and answers it.
LEMMA ExecuteInv ==
    ASSUME Inv, NEW job, Execute(job)
    PROVE  Inv'
<1> DEFINE a(ok) == [job |-> job, ok |-> ok,
                     rows |-> IF ok /\ job.kind = "select" THEN Fetched(db) ELSE <<>>]
<1>1. PICK ok \in BOOLEAN :
        /\ job \in work /\ work' = work \ {job}
        /\ db' = IF ok THEN Done(job) ELSE db
        /\ answers' = answers \cup {a(ok)}
        /\ UNCHANGED <<result, screen>>
  BY DEF Execute
<1>2. a(ok).job = job /\ IsList(a(ok).rows)
  <2>1. IsList(<<>>) /\ IsList(Fetched(db))
    BY FetchedLemma DEF Inv, Types, IsList
  <2> QED
    BY <2>1
<1> HIDE DEF a
<1>3. DOMAIN db' \subseteq Keys
  BY <1>1, DoneLemma DEF Inv, Types, IsQueue
<1>4. IsQueue(work') /\ WritesHitTheirRows'
  BY <1>1 DEF Inv, Types, IsQueue, WritesHitTheirRows, UpdateHitsOpenedRow, DeleteHitsAskedRows
<1>5. IsHeard(answers')
  BY <1>1, <1>2 DEF Inv, Types, IsHeard
<1>6. SavingIsAwaited'
  BY <1>1, <1>2, AwaitedLemma DEF Inv, screen
<1> QED
  BY <1>1, <1>3, <1>4, <1>5, <1>6, NoScreenLemma DEF screen, Inv, Types

\* Rows land in the document, not in the table.
LEMMA LandSelectInv ==
    ASSUME Inv, NEW a, LandSelect(a)
    PROVE  Inv'
<1>1. /\ a \in answers /\ a.job.kind = "select" /\ answers' = answers \ {a} /\ db' = db
      /\ UNCHANGED <<work, screen>>
      /\ \/ \E s \in Shapes : result' = [result EXCEPT !.rows = a.rows, !.shape = s]
         \/ result' = result
  BY DEF LandSelect, Hear
<1>2. IsList(a.rows) /\ IsHeard(answers')
  BY <1>1 DEF Inv, Types, IsHeard
<1>3. IsNode(result')
  <2>1. CASE result' = result
    BY <2>1 DEF Inv, Types
  <2>2. CASE \E s \in Shapes : result' = [result EXCEPT !.rows = a.rows, !.shape = s]
    <3>1. PICK s \in Shapes : result' = [result EXCEPT !.rows = a.rows, !.shape = s]
      BY <2>2
    <3> DEFINE S == {result.shape, s}
               T == {result.rows, a.rows}
               U == {result.pivoted}
    <3>2. result \in [shape : S, rows : T, pivoted : U] /\ s \in S /\ a.rows \in T
      BY DEF Inv, Types, IsNode
    <3> HIDE DEF S, T, U
    <3>3. result' \in [shape : S, rows : T, pivoted : U] /\ result'.rows = a.rows
      BY <3>1, <3>2
    <3> QED
      BY <1>2, <3>3 DEF IsNode
  <2> QED
    BY <1>1, <2>1, <2>2
<1>4. SavingIsAwaited'
  BY <1>1, AwaitedLemma DEF Inv, screen
<1>5. WritesHitTheirRows'
  BY <1>1 DEF Inv, WritesHitTheirRows, UpdateHitsOpenedRow, DeleteHitsAskedRows
<1> QED
  BY <1>1, <1>2, <1>3, <1>4, <1>5, NoScreenLemma DEF screen, Inv, Types

\* The answer frees whichever cell is open.
LEMMA LandUpdateInv ==
    ASSUME Inv, NEW a, LandUpdate(a)
    PROVE  Inv'
<1>1. /\ answers' = answers \ {a} /\ db' = db
      /\ Told(a.ok) /\ (Start \/ work' = work)
      /\ UNCHANGED <<result, shown, visible, find, picked, asked>>
  BY DEF LandUpdate, UpdateLanding, Hear, Refresh, Declined
<1>2. IsHeard(answers')
  BY <1>1 DEF Inv, Types, IsHeard
<1>3. IsQueue(work') /\ WritesHitTheirRows'
  BY <1>1, RunLemma DEF Inv, Types
<1>4. \/ editing' = None
      \/ /\ editing # None /\ IsEdit(editing')
         /\ editing'.row = editing.row /\ editing'.seen = editing.seen /\ ~editing'.saving
  <2>1. CASE editing' = None
    BY <2>1
  <2>2. CASE editing' # None
    <3>1. editing # None /\ editing' = [editing EXCEPT !.saving = FALSE, !.failed = TRUE]
      BY <1>1, <2>2 DEF Told
    <3>2. IsEdit(editing)
      BY <3>1 DEF Inv, Types
    <3>3. editing' = [row |-> editing.row, seen |-> editing.seen, popover |-> editing.popover,
                      saving |-> FALSE, failed |-> TRUE]
      BY <3>1, <3>2, EditRecord
    <3> QED
      BY <3>1, <3>3 DEF IsEdit
  <2> QED
    BY <2>1, <2>2
<1>5. Types'
  BY <1>1, <1>2, <1>3, <1>4 DEF Inv, Types
<1>6. PickHolds(picked, visible)' /\ AskHolds' /\ FindHolds'
  <2>1. Chosen' = Chosen
    BY <1>1 DEF Chosen
  <2>2. AskHolds'
    BY <1>1, <2>1 DEF Inv, AskHolds
  <2>3. PickHolds(picked, visible)' /\ FindHolds'
    BY <1>1 DEF Inv, PickHolds, FindHolds, HiddenRowsHaveBar, Everything
  <2> QED
    BY <2>2, <2>3
<1>7. EditHolds' /\ SavingIsAwaited'
  BY <1>1, <1>4 DEF Inv, EditHolds, SavingIsAwaited, Awaits
<1> QED
  BY <1>3, <1>5, <1>6, <1>7 DEF Inv

\* A deletion that came back runs the query again.
LEMMA LandDeleteInv ==
    ASSUME Inv, NEW a, LandDelete(a)
    PROVE  Inv'
<1>1. /\ a.job.kind = "delete" /\ answers' = answers \ {a} /\ db' = db
      /\ Start \/ work' = work
      /\ UNCHANGED <<result, screen>>
  BY DEF LandDelete, Hear, Refresh, Declined
<1>2. IsHeard(answers')
  BY <1>1 DEF Inv, Types, IsHeard
<1>3. IsQueue(work') /\ WritesHitTheirRows' /\ work \subseteq work'
  BY <1>1, RunLemma DEF Inv, Types
<1>4. SavingIsAwaited'
  BY <1>1, <1>3, AwaitedLemma DEF Inv, screen
<1> QED
  BY <1>1, <1>2, <1>3, <1>4, NoScreenLemma DEF screen, Inv, Types

-----------------------------------------------------------------------------
(* Every step.  *)

\* What a person does keeps the invariant.
LEMMA GestureInv ==
    ASSUME Inv, Gesture
    PROVE  Inv'
<1>1. CASE (\E p \in Positions : PressCell(p) \/ PressRow(p)) \/ PressHeader
  BY <1>1, PressInv
<1>2. CASE \E p \in Positions : DragTo(p)
  BY <1>2, DragInv
<1>3. CASE \E p \in Positions, v \in {"short", "json", "long"} : OpenCell(p, v)
  BY <1>3, OpenCellInv
<1>4. CASE OpenFind \/ (\E t \in Terms \cup {None} : TypeFind(t)) \/ CloseFind
  BY <1>4, FindInv
<1>5. CASE Release \/ Escape \/ Pivot \/ Run \/ \E s \in Sources : Rewire(s)
  BY <1>5, ReleaseInv, EscapeInv, PivotInv, RunInv, RewireInv
<1>6. CASE (\E v \in Versions : Commit(v)) \/ Refused \/ Ask \/ Confirm
  BY <1>6, CommitInv, RefusedInv, AskInv, ConfirmInv
<1> QED
  BY <1>1, <1>2, <1>3, <1>4, <1>5, <1>6 DEF Gesture

\* Every step does.
LEMMA StepInv ==
    ASSUME Inv, [Next]_vars
    PROVE  Inv'
<1>1. CASE Gesture
  BY <1>1, GestureInv
<1>2. CASE Frame
  BY <1>2, FrameInv
<1>3. CASE Search
  BY <1>3, FindInv
<1>4. CASE Works
  BY <1>4, ExecuteInv DEF Works
<1>5. CASE Lands
  BY <1>5, LandSelectInv, LandUpdateInv, LandDeleteInv DEF Lands
<1>6. CASE UNCHANGED vars
  <2>1. UNCHANGED <<db, result, shown, visible, find, picked, editing, asked, work, answers>>
    BY <1>6 DEF vars, screen, remote
  <2>2. WritesHitTheirRows' /\ SavingIsAwaited'
    BY <2>1 DEF Inv, WritesHitTheirRows, UpdateHitsOpenedRow, DeleteHitsAskedRows, SavingIsAwaited, Awaits
  <2> QED
    BY <2>1, <2>2, NoScreenLemma DEF Inv, Types
<1> QED
  BY <1>1, <1>2, <1>3, <1>4, <1>5, <1>6 DEF Next

-----------------------------------------------------------------------------
(* The rows that are shown are there: ranks, keys and searches.  *)

\* Of the members of a finite set, each with a number of its own, there is
\* one with any given number of others before it.
LEMMA RanksAreTaken ==
    ASSUME NEW S, IsFiniteSet(S), NEW r \in [S -> Nat],
           \A x, y \in S : r[x] = r[y] => x = y,
           NEW p \in 1..Cardinality(S)
    PROVE  \E x \in S : Cardinality({y \in S : r[y] < r[x]}) = p - 1
<1> DEFINE n == Cardinality(S)
           less(x) == {y \in S : r[y] < r[x]}
           f == [x \in S |-> Cardinality(less(x))]
           T == 0..n - 1
<1>1. n \in Nat \ {0}
  BY FS_CardinalityType
<1>2. \A x \in S : IsFiniteSet(less(x)) /\ Cardinality(less(x)) \in Nat
  BY FS_Subset, FS_CardinalityType
<1>3. ASSUME NEW x \in S, NEW y \in S, r[x] < r[y]
      PROVE  Cardinality(less(x)) < Cardinality(less(y))
  <2>1. less(x) \cup {x} \subseteq less(y) /\ x \notin less(x)
    BY <1>3
  <2>2. IsFiniteSet(less(x)) /\ IsFiniteSet(less(y))
    BY <1>2
  <2> HIDE DEF less
  <2>3. Cardinality(less(x) \cup {x}) = Cardinality(less(x)) + 1
    BY <2>1, <2>2, FS_AddElement
  <2>4. Cardinality(less(x) \cup {x}) =< Cardinality(less(y))
    BY <2>1, <2>2, FS_Subset
  <2> QED
    BY <1>2, <2>3, <2>4
<1>4. ASSUME NEW x \in S
      PROVE  Cardinality(less(x)) \in T
  <2>1. less(x) \in SUBSET (S \ {x})
    OBVIOUS
  <2>2. IsFiniteSet(S \ {x}) /\ Cardinality(S \ {x}) = n - 1
    BY FS_RemoveElement
  <2> HIDE DEF less
  <2>3. Cardinality(less(x)) =< n - 1
    BY <2>1, <2>2, FS_Subset
  <2> QED
    BY <1>1, <1>2, <2>3
<1>5. IsFiniteSet(T) /\ Cardinality(T) = n
  <2> HIDE DEF n
  <2>1. 0 \in Int /\ n - 1 \in Int /\ ~ (0 > n - 1) /\ n - 1 - 0 + 1 = n
    BY <1>1
  <2> QED
    BY <2>1, FS_Interval
<1> HIDE DEF T, n
<1>6. f \in [S -> T]
  BY <1>4
<1>7. \A x, y \in S : f[x] = f[y] => x = y
  <2> SUFFICES ASSUME NEW x \in S, NEW y \in S, f[x] = f[y]
               PROVE  x = y
    OBVIOUS
  <2>1. Cardinality(less(x)) = Cardinality(less(y))
    OBVIOUS
  <2>2. ~ (r[x] < r[y]) /\ ~ (r[y] < r[x])
    BY <1>2, <1>3, <2>1
  <2> QED
    BY <2>2
<1>8. f \in Injection(S, T)
  BY <1>6, <1>7 DEF Injection, IsInjective
<1>9. f \in Surjection(S, T)
  BY <1>5, <1>8, FS_Injection DEF n
<1>10. p - 1 \in T
  BY <1>1 DEF T, n
<1>11. PICK x \in S : f[x] = p - 1
  BY <1>9, <1>10 DEF Surjection
<1> QED
  BY <1>11

\* No two rows have the same key.
Distinct(rows) == IsList(rows) /\ \A i, j \in DOMAIN rows : rows[i][1] = rows[j][1] => i = j

\* A search shows rows there are.
LEMMA MatchingShows ==
    ASSUME NEW rows, Distinct(rows), NEW term \in Terms \cup {None}
    PROVE  \A p \in DOMAIN Matching(rows, term) : Matching(rows, term)[p] \in DOMAIN rows
<1>1. DOMAIN rows = 1..Len(rows) /\ Len(rows) \in Nat
  BY ListProperties DEF Distinct
<1>2. CASE term = None
  BY <1>2 DEF Matching, Everything
<1>3. CASE term # None
  <2> DEFINE found == {i \in DOMAIN rows : rows[i][1] \in DOMAIN term}
             better(i) == {j \in found : term[rows[j][1]] < term[rows[i][1]]}
             r == [i \in found |-> term[rows[i][1]]]
             m == Matching(rows, term)
  <2>1. IsFiniteSet(found)
    <3>1. IsFiniteSet(DOMAIN rows)
      BY <1>1, FS_Interval
    <3> QED
      BY <3>1, FS_Subset
  <2>2. r \in [found -> Nat] /\ \A i, j \in found : r[i] = r[j] => i = j
    BY <1>3, TermsAssumption DEF Distinct
  <2>3. \A i \in found : {j \in found : r[j] < r[i]} = better(i)
    OBVIOUS
  <2>4. m = [p \in 1..Cardinality(found) |-> CHOOSE i \in found : Cardinality(better(i)) = p - 1]
    BY <1>3 DEF Matching
  <2>5. ASSUME NEW p \in 1..Cardinality(found)
        PROVE  \E i \in found : Cardinality(better(i)) = p - 1
    <3> HIDE DEF found, r, better, m
    <3>1. PICK x \in found : Cardinality({y \in found : r[y] < r[x]}) = p - 1
      BY <2>1, <2>2, RanksAreTaken
    <3> QED
      BY <2>3, <3>1
  <2>6. found \subseteq DOMAIN rows
    OBVIOUS
  <2> HIDE DEF found, better, r, m
  <2>7. \A p \in DOMAIN m : m[p] \in found
    BY <2>4, <2>5
  <2> QED
    BY <2>6, <2>7 DEF m
<1> QED
  BY <1>2, <1>3

\* Fetched rows have different keys.
LEMMA FetchedDistinct ==
    ASSUME NEW d, DOMAIN d \subseteq Keys
    PROVE  Distinct(Fetched(d))
<1> DEFINE S == DOMAIN d
           n == Cardinality(S)
           less(k) == {j \in S : j < k}
           key(i) == CHOOSE k \in S : Cardinality(less(k)) = i - 1
           r == [k \in S |-> k]
           f == Fetched(d)
<1>1. IsFiniteSet(S) /\ S \subseteq Nat /\ n \in Nat
  BY KeysAssumption, FS_Subset, FS_CardinalityType
<1>2. f = [i \in 1..n |-> <<key(i), d[key(i)]>>]
  BY DEF Fetched
<1>3. r \in [S -> Nat] /\ \A x, y \in S : r[x] = r[y] => x = y
  BY <1>1
<1>4. \A k \in S : {j \in S : r[j] < r[k]} = less(k)
  OBVIOUS
<1>5. \A i \in 1..Cardinality(S) : \E k \in S : Cardinality({j \in S : r[j] < r[k]}) = i - 1
  <2> HIDE DEF S, r
  <2>1. IsFiniteSet(S) /\ r \in [S -> Nat] /\ \A x, y \in S : r[x] = r[y] => x = y
    BY <1>1, <1>3
  <2> QED
    BY <2>1, RanksAreTaken
<1>6. ASSUME NEW i \in 1..n
       PROVE  key(i) \in S /\ Cardinality(less(key(i))) = i - 1
  <2>1. \E k \in S : Cardinality(less(k)) = i - 1
    BY <1>4, <1>5
  <2> HIDE DEF S, less
  <2> QED
    BY <2>1
<1> HIDE DEF S, n, less, key, f
<1>7. DOMAIN f = 1..n /\ \A i \in 1..n : f[i][1] = key(i)
  BY <1>2
<1>8. \A i, j \in 1..n : key(i) = key(j) => i = j
  BY <1>1, <1>6
<1>9. IsList(f)
  BY FetchedLemma DEF f
<1>10. \A i, j \in DOMAIN f : f[i][1] = f[j][1] => i = j
  BY <1>7, <1>8
<1> QED
  BY <1>9, <1>10 DEF Distinct, f

\* What the screen shows is there: every row has a key of its own, in the
\* document, in the table and in the answers on their way.
ShowsRows ==
  /\ Distinct(result.rows) /\ Distinct(shown.rows)
  /\ \A a \in answers : a.job.kind = "select" => Distinct(a.rows)

Shows == Inv /\ ShowsRows /\ TypeOK

\* It holds at first.
LEMMA InitShows == Init => Shows
<1> SUFFICES ASSUME Init PROVE Shows
  OBVIOUS
<1>1. DOMAIN db \subseteq Keys
  BY DEF Init
<1>2. Distinct(result.rows) /\ shown = result
  <2>1. result.rows = Fetched(db) /\ shown = result
    BY DEF Init
  <2> QED
    BY <1>1, <2>1, FetchedDistinct
<1>3. answers = {} /\ work = {}
  BY DEF Init
<1>4. ShowsRows
  BY <1>2, <1>3 DEF ShowsRows
<1>5. \A i \in DOMAIN visible : visible[i] \in DOMAIN shown.rows
  BY <1>2 DEF Init, Everything
<1>6. TypeOK
  BY <1>1, <1>3, <1>5 DEF Init, TypeOK, Sources
<1> QED
  BY <1>4, <1>6, InitInv DEF Shows

\* The rows of an answer go into the document, others stay.
LEMMA RowsStep ==
    ASSUME Shows, Inv', \/ shown' = shown \/ shown' = result,
           \/ result'.rows = result.rows
           \/ \E a \in answers : a.job.kind = "select" /\ result'.rows = a.rows,
           \/ answers' \subseteq answers
           \/ \E a : answers' = answers \cup {a} /\ (a.job.kind = "select" => a.rows \in {<<>>, Fetched(db)})
    PROVE  ShowsRows'
<1>1. Distinct(result'.rows) /\ Distinct(shown'.rows)
  BY DEF Shows, ShowsRows
<1>2. \A a \in answers' : a.job.kind = "select" => Distinct(a.rows)
  <2>1. CASE answers' \subseteq answers
    BY <2>1 DEF Shows, ShowsRows
  <2>2. ASSUME NEW a, answers' = answers \cup {a}, a.job.kind = "select" => a.rows \in {<<>>, Fetched(db)}
        PROVE  \A b \in answers' : b.job.kind = "select" => Distinct(b.rows)
    <3>1. Distinct(Fetched(db)) /\ Distinct(<<>>)
      BY FetchedDistinct DEF Shows, Inv, Types, Distinct, IsList
    <3> QED
      BY <2>2, <3>1 DEF Shows, ShowsRows
  <2> QED
    BY <2>1, <2>2
<1> QED
  BY <1>1, <1>2 DEF ShowsRows, Distinct, IsList

\* What may change of the screen while the table shows the same node.
LEMMA ShownStep ==
    ASSUME Shows, Inv', shown' = shown,
           visible' = visible \/ \E t \in Terms \cup {None} : visible' = Matching(shown.rows, t),
           find' \in [open : BOOLEAN, term : Terms \cup {None}, due : BOOLEAN],
           pane' \in {pane, None} \/ \E p \in DOMAIN visible : pane' = visible[p],
           panel' \in BOOLEAN, running' \in BOOLEAN, erred' \in BOOLEAN, missed' \in BOOLEAN,
           source' \in Sources
    PROVE  TypeOK'
<1>1. \A i \in DOMAIN visible' : visible'[i] \in DOMAIN shown.rows
  BY MatchingShows DEF Shows, ShowsRows, TypeOK
<1>2. pane' = None \/ pane' \in DOMAIN shown.rows
  BY DEF Shows, TypeOK
<1>3. DOMAIN db' \subseteq Keys /\ \A job \in work' : job.kind \in {"select", "update", "delete"}
  BY DEF Inv, Types, IsQueue, Kinds
<1> QED
  BY <1>1, <1>2, <1>3 DEF TypeOK

\* What a person does leaves the screen showing what is there.
LEMMA GestureShows ==
    ASSUME Shows, Gesture
    PROVE  Shows'
<1> USE DEF remote, screen
<1>1. Inv'
  BY GestureInv DEF Shows
<1>2. find \in [open : BOOLEAN, term : Terms \cup {None}, due : BOOLEAN]
      /\ panel \in BOOLEAN /\ running \in BOOLEAN /\ erred \in BOOLEAN /\ missed \in BOOLEAN
      /\ source \in Sources
  BY DEF Shows, TypeOK
<1>3. ASSUME result'.rows = result.rows, answers' = answers, shown' = shown
      PROVE  ShowsRows'
  BY <1>1, <1>3, RowsStep
<1>4. \A f : f \in [open : BOOLEAN, term : Terms \cup {None}, due : BOOLEAN] => IsFind(f)
  BY DEF IsFind
<1>5. ASSUME NEW q, Pick(q)
      PROVE  Shows'
  BY <1>1, <1>2, <1>3, <1>5, ShownStep DEF Shows, Pick
<1>6. ASSUME NEW f, NEW v, Find(f, v), v = visible \/ v = Matching(shown.rows, None),
             f \in [open : BOOLEAN, term : Terms \cup {None}, due : BOOLEAN]
      PROVE  Shows'
  BY <1>1, <1>2, <1>3, <1>6, ShownStep DEF Shows, Find
<1>7. CASE (\E p \in Positions : PressCell(p) \/ PressRow(p) \/ DragTo(p)) \/ PressHeader \/ Release
  BY <1>5, <1>7 DEF PressCell, PressRow, DragTo, PressHeader, Release
<1>8. CASE OpenFind \/ (\E t \in Terms \cup {None} : TypeFind(t)) \/ CloseFind
  <2>1. CASE OpenFind
    BY <1>2, <1>6, <2>1 DEF OpenFind
  <2>2. ASSUME NEW t \in Terms \cup {None}, TypeFind(t)
        PROVE  Shows'
    BY <1>2, <1>6, <2>2 DEF TypeFind
  <2>3. CASE CloseFind
    <3>1. Closed \in [open : BOOLEAN, term : Terms \cup {None}, due : BOOLEAN]
      BY <1>2 DEF Closed
    <3> QED
      BY <1>6, <2>3, <3>1 DEF CloseFind
  <2> QED
    BY <1>8, <2>1, <2>2, <2>3
<1>9. ASSUME NEW p \in Positions, NEW v \in {"short", "json", "long"}, OpenCell(p, v)
      PROVE  Shows'
  <2>1. /\ result' = result /\ answers' = answers /\ UNCHANGED <<shown, visible, find, running, erred, missed, source>>
        /\ panel' \in {panel, v = "json"}
        /\ pane' \in {pane, visible[p]}
    BY <1>9 DEF OpenCell
  <2>2. panel' \in BOOLEAN
    BY <1>2, <2>1
  <2> QED
    BY <1>1, <1>2, <1>3, <2>1, <2>2, ShownStep DEF Shows, Positions
<1>10. CASE Escape
  <2>1. /\ result' = result /\ answers' = answers /\ UNCHANGED <<shown, running, erred, missed, source>>
        /\ panel' \in {panel, FALSE} /\ pane' \in {pane, None}
        /\ find' = find \/ find' = Closed
        /\ visible' = visible \/ visible' = Matching(shown.rows, None)
    BY <1>10 DEF Escape
  <2>2. find' \in [open : BOOLEAN, term : Terms \cup {None}, due : BOOLEAN]
    BY <1>2, <2>1 DEF Closed
  <2> QED
    BY <1>1, <1>2, <1>3, <2>1, <2>2, ShownStep DEF Shows
<1>11. CASE Pivot
  <2>1. UNCHANGED <<shown, visible, find, panel, pane, running, erred, missed, source, answers>>
        /\ result' = [result EXCEPT !.pivoted = ~@]
    BY <1>11 DEF Pivot
  <2>2. result'.rows = result.rows
    BY <2>1 DEF Shows, Inv, Types, IsNode
  <2> QED
    BY <1>1, <1>2, <1>3, <2>1, <2>2, ShownStep DEF Shows
<1>12. CASE Run \/ \E s \in Sources : Rewire(s)
  <2>1. /\ result' = result /\ answers' = answers /\ UNCHANGED <<shown, visible, find, panel, pane>>
        /\ running' \in {running, TRUE} /\ missed' \in {missed, FALSE} /\ source' \in Sources
    BY <1>2, <1>12 DEF Run, Start, Declined, Rewire
  <2>2. erred' = erred \/ erred' = (erred \/ (source = "undefined" /\ ~running))
    BY <1>12 DEF Run, Start, Declined, Rewire
  <2>3. running' \in BOOLEAN /\ missed' \in BOOLEAN /\ erred' \in BOOLEAN
    BY <1>2, <2>1, <2>2
  <2> QED
    BY <1>1, <1>2, <1>3, <2>1, <2>3, ShownStep DEF Shows
<1>13. CASE (\E v \in Versions : Commit(v)) \/ Refused \/ Ask \/ Confirm
  <2>1. UNCHANGED <<result, answers, shown, visible, find, panel, pane, running, erred, missed, source>>
    BY <1>13 DEF Commit, Refused, Ask, Confirm
  <2> QED
    BY <1>1, <1>2, <1>3, <2>1, ShownStep DEF Shows
<1> QED
  BY <1>7, <1>8, <1>9, <1>10, <1>11, <1>12, <1>13 DEF Gesture

\* So does every other step.
LEMMA StepShows ==
    ASSUME Shows, [Next]_vars
    PROVE  Shows'
<1> USE DEF remote, screen
<1>1. Inv'
  BY StepInv DEF Shows
<1>2. find \in [open : BOOLEAN, term : Terms \cup {None}, due : BOOLEAN]
      /\ panel \in BOOLEAN /\ running \in BOOLEAN /\ erred \in BOOLEAN /\ missed \in BOOLEAN
      /\ source \in Sources
  BY DEF Shows, TypeOK
<1>4. CASE Frame
  <2>1. /\ result' = result /\ answers' = answers /\ shown' = result
        /\ UNCHANGED <<find, panel, running, erred, missed, source, work, db>>
        /\ visible' = IF result.rows # shown.rows THEN Everything(result.rows) ELSE visible
        /\ pane' = None \/ (pane' = pane /\ result.rows = shown.rows)
    BY <1>4 DEF Frame, Adopt
  <2>2. ShowsRows'
    BY <1>1, <2>1, RowsStep
  <2>3. \A i \in DOMAIN visible' : visible'[i] \in DOMAIN shown'.rows
    <3>1. CASE result.rows = shown.rows
      BY <2>1, <3>1 DEF Shows, TypeOK
    <3>2. CASE result.rows # shown.rows
      BY <2>1, <3>2 DEF Everything
    <3> QED
      BY <3>1, <3>2
  <2>4. pane' = None \/ pane' \in DOMAIN shown'.rows
    BY <2>1 DEF Shows, TypeOK
  <2>5. TypeOK'
    BY <1>2, <2>1, <2>3, <2>4 DEF Shows, TypeOK
  <2> QED
    BY <1>1, <2>2, <2>5 DEF Shows
<1>5. CASE Search
  <2>1. /\ result' = result /\ answers' = answers
        /\ UNCHANGED <<shown, panel, pane, running, erred, missed, source>>
        /\ find' = [find EXCEPT !.due = FALSE]
        /\ visible' = Matching(shown.rows, find.term)
    BY <1>5 DEF Search, Find
  <2>2. find' \in [open : BOOLEAN, term : Terms \cup {None}, due : BOOLEAN] /\ find.term \in Terms \cup {None}
    BY <1>2, <2>1
  <2>3. ShowsRows'
    BY <1>1, <2>1, RowsStep
  <2>4. TypeOK'
    BY <1>1, <1>2, <2>1, <2>2, ShownStep
  <2> QED
    BY <1>1, <2>3, <2>4 DEF Shows
<1>6. ASSUME NEW job, Execute(job)
      PROVE  Shows'
  <2> DEFINE a(ok) == [job |-> job, ok |-> ok,
                       rows |-> IF ok /\ job.kind = "select" THEN Fetched(db) ELSE <<>>]
  <2>1. /\ UNCHANGED <<result, running, erred, missed, source, shown, visible, find, panel, pane>>
        /\ \E ok \in BOOLEAN : answers' = answers \cup {a(ok)}
    BY <1>6 DEF Execute
  <2>2. \A ok \in BOOLEAN : a(ok).rows \in {<<>>, Fetched(db)}
    OBVIOUS
  <2> HIDE DEF a
  <2>3. ShowsRows'
    BY <1>1, <2>1, <2>2, RowsStep
  <2>4. TypeOK'
    BY <1>1, <1>2, <2>1, ShownStep
  <2> QED
    BY <1>1, <2>3, <2>4 DEF Shows
<1>7. ASSUME NEW a, LandSelect(a)
      PROVE  Shows'
  <2>1. /\ a \in answers /\ answers' = answers \ {a} /\ a.job.kind = "select"
        /\ running' = FALSE /\ erred' = ~a.ok
        /\ UNCHANGED <<missed, source, shown, visible, find, panel, pane>>
    BY <1>7 DEF LandSelect, Hear
  <2>2. result'.rows = result.rows \/ result'.rows = a.rows
    <3>1. CASE result' = result
      BY <3>1
    <3>2. ASSUME NEW s \in Shapes, result' = [result EXCEPT !.rows = a.rows, !.shape = s]
          PROVE  result'.rows = a.rows
      BY <3>2 DEF Shows, Inv, Types, IsNode
    <3> QED
      BY <1>7, <3>1, <3>2 DEF LandSelect
  <2>3. ShowsRows'
    BY <1>1, <2>1, <2>2, RowsStep
  <2>4. erred' \in BOOLEAN
    BY <2>1
  <2>5. TypeOK'
    BY <1>1, <1>2, <2>1, <2>4, ShownStep
  <2> QED
    BY <1>1, <2>3, <2>5 DEF Shows
<1>8. ASSUME NEW a, LandUpdate(a) \/ LandDelete(a)
      PROVE  Shows'
  <2>1. /\ answers' \subseteq answers /\ UNCHANGED <<result, source, shown, visible, find, pane>>
        /\ panel' \in {panel, FALSE}
    BY <1>8 DEF LandUpdate, LandDelete, UpdateLanding, Hear, Told
  <2>2. Refresh \/ UNCHANGED <<running, erred, missed>>
    BY <1>8 DEF LandUpdate, LandDelete, UpdateLanding
  <2>3. running' \in BOOLEAN /\ erred' \in BOOLEAN /\ missed' \in BOOLEAN
    <3>1. running' \in {running, TRUE}
      BY <2>2 DEF Refresh, Start, Declined
    <3>2. erred' = erred \/ erred' = (erred \/ (source = "undefined" /\ ~running))
      BY <2>2 DEF Refresh, Start, Declined
    <3>3. missed' \in {missed, FALSE} \/ missed' = (missed \/ Select \notin work)
      BY <2>2 DEF Refresh, Start, Declined
    <3> QED
      BY <1>2, <3>1, <3>2, <3>3
  <2>4. ShowsRows'
    BY <1>1, <2>1, RowsStep
  <2>5. panel' \in BOOLEAN
    BY <1>2, <2>1
  <2>6. TypeOK'
    BY <1>1, <1>2, <2>1, <2>3, <2>5, ShownStep
  <2> QED
    BY <1>1, <2>4, <2>6 DEF Shows
<1>9. CASE UNCHANGED vars
  <2>1. UNCHANGED <<db, result, running, erred, missed, source, shown, visible, find, panel, pane, work, answers>>
    BY <1>9 DEF vars
  <2>2. ShowsRows'
    BY <1>1, <2>1, RowsStep
  <2>3. TypeOK'
    BY <1>1, <1>2, <2>1, ShownStep
  <2> QED
    BY <1>1, <2>2, <2>3 DEF Shows
<1> QED
  BY <1>4, <1>5, <1>6, <1>7, <1>8, <1>9, GestureShows DEF Next, Works, Lands

\* The screen shows what is there, in every state.
LEMMA AlwaysShows == Spec => []Shows
BY InitShows, StepShows, PTL DEF Spec

-----------------------------------------------------------------------------
(* The theorems.  *)

\* The invariant holds of every state.
LEMMA Invariant == Spec => []Inv
BY InitInv, StepInv, PTL DEF Spec

\* A statement hits the rows it was meant for: an update the row its cell was
\* opened on, a deletion the rows its dialog counted (begin_edit, adopt,
\* build_update, run_delete).
THEOREM RowsMeant == Spec => []WritesHitTheirRows
<1>1. Inv => WritesHitTheirRows
  BY DEF Inv
<1> QED
  BY <1>1, Invariant, PTL

\* What the screen shows is there: a displayed row and the row of the pane are
\* rows of the table, what is picked is displayed, a cell that is being saved
\* will be answered, and only a find bar hides rows (Selection, set_matches,
\* commit_edit, close_search, adopt).
THEOREM Screen == Spec => []ScreenHolds
<1>1. Inv => PickIsOnScreen
  <2> SUFFICES ASSUME Inv PROVE PickIsOnScreen
    OBVIOUS
  <2>1. picked.cells # None => ToSet(picked.cells) \subseteq Positions
    <3> SUFFICES ASSUME picked.cells # None PROVE ToSet(picked.cells) \subseteq Positions
      OBVIOUS
    <3> DEFINE A == {picked.cells[1]}
               B == {picked.cells[2]}
    <3>1. picked.cells \in A \X B /\ A \subseteq Positions /\ B \subseteq Positions
      BY DEF Inv, Types, IsPick, PickHolds, Positions
    <3> HIDE DEF A, B
    <3>2. DOMAIN picked.cells = {1, 2} /\ picked.cells[1] \in Positions /\ picked.cells[2] \in Positions
      BY <3>1
    <3> QED
      BY <3>2 DEF ToSet
  <2> QED
    BY <2>1 DEF Inv, PickHolds, PickIsOnScreen, Positions
<1>2. Inv => SavingIsAwaited /\ HiddenRowsHaveBar
  BY DEF Inv, FindHolds
<1>3. Shows => ScreenHolds
  BY <1>1, <1>2 DEF Shows, ScreenHolds
<1> QED
  BY <1>3, AlwaysShows, PTL
=============================================================================
