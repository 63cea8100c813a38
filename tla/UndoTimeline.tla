----------------------------- MODULE UndoTimeline -----------------------------
(***************************************************************************)
(* What undo promises, one timeline per page of the document.              *)
(*                                                                         *)
(* A timeline is a line of states of the page, a position on it, and the   *)
(* draft: the page as the user sees it.  The draft equals the state at the *)
(* position unless an edit is under way.  Settling an edit cuts the line   *)
(* behind the position and puts the draft at its end; undo and redo only   *)
(* move the position; and what happens on one page leaves every other page *)
(* as it is, but for settling the edit it had under way.                   *)
(***************************************************************************)
EXTENDS Integers, Sequences

CONSTANTS Pages, Contents, Blank, FirstPage, UndoLimit

VARIABLE timeline   \* a function on the pages of the document

NewTimeline == [line |-> <<Blank>>, at |-> 1, draft |-> Blank]

Settled(t) == t.draft = t.line[t.at]

\* The line never holds more than UndoLimit states behind its position: the
\* oldest one is forgotten.
Settle(t) ==
    IF Settled(t) THEN t
    ELSE LET line == Append(SubSeq(t.line, 1, t.at), t.draft)
             kept == IF Len(line) > UndoLimit + 1 THEN Tail(line) ELSE line
         IN  [line |-> kept, at |-> Len(kept), draft |-> t.draft]

Write(t, c) == [t EXCEPT !.draft = c]

Move(t, i)  == [line |-> t.line, at |-> i, draft |-> t.line[i]]

\* A change nobody asked for, such as a text node growing: it is folded into
\* the state it happens to.
Amend(t, c) ==
    [line |-> [t.line EXCEPT ![t.at] = c], at |-> t.at, draft |-> c]

Abandon(t) == Move(t, t.at)

Back(t)  == LET s == Settle(t) IN IF s.at = 1 THEN s ELSE Move(s, s.at - 1)
Forth(t) == Move(t, t.at + 1)

PageStep(p) ==
    LET t  == timeline[p]
        t2 == timeline'[p]
    IN  \/ t2 = Settle(t)
        \/ \E c \in Contents : \/ t2 = Write(t, c)
                               \/ t2 = Write(Settle(t), c)
                               \/ t2 = Settle(Write(Settle(t), c))
                               \/ Settled(t) /\ t2 = Amend(t, c)
        \/ t2 = Abandon(t)
        \/ t2 = Back(t)
        \/ Settled(t) /\ t.at < Len(t.line) /\ t2 = Forth(t)

\* A page nothing is done to.
Rests(p) == timeline'[p] \in {timeline[p], Settle(timeline[p])}

Step ==
    /\ DOMAIN timeline' = DOMAIN timeline
    /\ \E p \in DOMAIN timeline :
          PageStep(p) /\ \A q \in DOMAIN timeline \ {p} : Rests(q)

OpenPage ==
    \E p \in Pages \ DOMAIN timeline :
        /\ DOMAIN timeline' = DOMAIN timeline \cup {p}
        /\ timeline'[p] = NewTimeline
        /\ \A q \in DOMAIN timeline : Rests(q)

ClosePage ==
    \E p \in DOMAIN timeline :
        /\ DOMAIN timeline' = DOMAIN timeline \ {p}
        /\ DOMAIN timeline' # {}
        /\ \A q \in DOMAIN timeline' : timeline'[q] = timeline[q]

Init == timeline = [p \in {FirstPage} |-> NewTimeline]
Next == Step \/ OpenPage \/ ClosePage
Spec == Init /\ [][Next]_timeline
=============================================================================
