------------------------------ MODULE HistoryOps ------------------------------
(***************************************************************************)
(* The undo history of peek-canvas (history.rs) as operators on a value.   *)
(*                                                                         *)
(* A history is a record h of                                              *)
(*   past, future : one stack of page snapshots per page (top is last),    *)
(*   pending      : the open transaction, or NoTx.                         *)
(*                                                                         *)
(* A snapshot is whatever the caller takes a page's content to be; the     *)
(* operators only compare snapshots.  The clock is left out: whether an    *)
(* edit falls inside the 300 ms coalescing window of the open transaction  *)
(* is the argument `within`, which the caller leaves to chance.            *)
(***************************************************************************)
EXTENDS Integers, Sequences

CONSTANTS UndoLimit,    \* UNDO_LIMIT, 50 in the code
          NoTx          \* pending: None

ASSUME UndoLimitAssumption == UndoLimit \in Nat \ {0}

\* EditKind.  A kind is a tuple: its name, then the node it is about, if any.
Structure == <<"Structure">>
Move      == <<"Move">>
Resize(n) == <<"Resize", n>>
Data(n)   == <<"Data", n>>

\* Slip: the top of a stack as a stack of one.
LastOfAsStack(s) == SubSeq(s, Len(s), Len(s))

LastOf(s)  == s[Len(s)]
FrontOf(s) == SubSeq(s, 1, Len(s) - 1)

EmptyHistory(pages) ==
    [past    |-> [p \in pages |-> <<>>],
     future  |-> [p \in pages |-> <<>>],
     pending |-> NoTx]

IsOpenOn(h, p) == h.pending # NoTx /\ h.pending.page = p

\* Slip: a stack that is never trimmed.
PushUncapped(s, x) == Append(s, x)

\* push_back, then pop_front when the stack outgrew the limit.
PushCapped(s, x) ==
    LET pushed == Append(s, x)
    IN  IF Len(pushed) > UndoLimit THEN Tail(pushed) ELSE pushed

\* A transaction that changed nothing is dropped, but only when the page it is
\* sealed with is the page it was opened on.
ChangedNothing(h, p, now) == h.pending.page = p /\ h.pending.before = now

\* seal / checkpoint: closes the open transaction, if any.  `now` is the
\* content of page p, which need not be the page the transaction is about.
Seal(h, p, now) ==
    IF h.pending = NoTx THEN h
    ELSE IF ChangedNothing(h, p, now) THEN [h EXCEPT !.pending = NoTx]
    ELSE LET q == h.pending.page
         IN  [past    |-> [h.past EXCEPT ![q] = PushCapped(@, h.pending.before)],
              future  |-> [h.future EXCEPT ![q] = <<>>],
              pending |-> NoTx]

\* An edit that joins the open transaction instead of opening its own.
Continues(h, p, kind, within) ==
    /\ IsOpenOn(h, p)
    /\ h.pending.kind = kind
    /\ kind # Structure
    /\ within

\* record: called immediately before a mutation of page p.
Record(h, p, now, kind, within) ==
    IF Continues(h, p, kind, within) THEN h
    ELSE [Seal(h, p, now) EXCEPT
             !.pending = [page |-> p, kind |-> kind, before |-> now]]

Discard(h) == [h EXCEPT !.pending = NoTx]

\* undo: the checkpoint it starts with happens even when nothing is left to undo.
CanStepBack(h, p, now) == Seal(h, p, now).past[p] # <<>>

StepBack(h, p, now) ==
    LET s == Seal(h, p, now)
    IN  IF s.past[p] = <<>> THEN s
        ELSE [past    |-> [s.past EXCEPT ![p] = FrontOf(@)],
              future  |-> [s.future EXCEPT ![p] = Append(@, now)],
              pending |-> NoTx]

Undone(h, p, now) == LastOf(Seal(h, p, now).past[p])

\* redo: no checkpoint, and the stack it pushes to is not capped.
CanStepForward(h, p) == h.future[p] # <<>>

StepForward(h, p, now) ==
    [past    |-> [h.past EXCEPT ![p] = Append(@, now)],
     future  |-> [h.future EXCEPT ![p] = FrontOf(@)],
     pending |-> h.pending]

\* Slip: what was undone first comes back first.
RedoneOldest(h, p) == h.future[p][1]

Redone(h, p) == LastOf(h.future[p])
=============================================================================
