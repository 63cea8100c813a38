----------------------------- MODULE DocumentProofs -----------------------------
(***************************************************************************)
(* The document of a canvas: its undo history (UndoHistory), for every     *)
(* number of pages, every set of nodes and every undo limit, and its file  *)
(* (Connections), for any names and any edits of the two programs.         *)
(*                                                                         *)
(* Of the history, its safety invariants and DeletionIsUndoable, and that  *)
(* it implements UndoTimeline.  First what each operator of HistoryOps     *)
(* does to a well-typed history within its bound, then one step of the     *)
(* specification at a time.  Then the two stacks of a page and its open    *)
(* transaction, read as a line of states: the lines alone, what each       *)
(* operator does to the timeline of a page, and one handler at a time.     *)
(*                                                                         *)
(* Of the file, its types, OtherIsNotOverwritten and EntriesKeepCanvases,  *)
(* and that no two entries share a name (NamesAreOwn).                     *)
(* What a save replaces is looked at two steps before, and what was seen   *)
(* of it is older still.  The invariant carries it from the load or the    *)
(* last save on: a file whose time is the one seen holds nothing but what  *)
(* the document has, or is not backed up yet, or is in the backup, or is   *)
(* unreadable and its copy has failed.                                     *)
(***************************************************************************)
EXTENDS UndoHistory, Connections, SequenceTheorems, TLAPS

Histories == [past    : [Pages -> Seq(Contents)],
              future  : [Pages -> Seq(Contents)],
              pending : Txs \cup {NoTx}]

Bounded(g) == \A p \in Pages : Len(g.past[p]) + Len(g.future[p]) <= UndoLimit

\* A history in order.
Good(g) == g \in Histories /\ Bounded(g)

-----------------------------------------------------------------------------
(* Stacks.  *)

\* A push keeps a capped stack capped: the oldest snapshot makes room.
LEMMA PushCappedLemma ==
    ASSUME NEW s \in Seq(Contents), NEW x \in Contents, Len(s) <= UndoLimit
    PROVE  /\ PushCapped(s, x) \in Seq(Contents)
           /\ Len(PushCapped(s, x)) <= UndoLimit
<1>1. Append(s, x) \in Seq(Contents) /\ Len(Append(s, x)) = Len(s) + 1
  OBVIOUS
<1>2. Len(s) \in Nat
  BY LenProperties
<1>3. CASE Len(Append(s, x)) > UndoLimit
  <2>1. Append(s, x) # <<>>
    BY <1>1, <1>2
  <2>2. /\ Tail(Append(s, x)) \in Seq(Contents)
        /\ Len(Tail(Append(s, x))) = Len(s)
    BY <1>1, <1>2, <2>1, HeadTailProperties
  <2> QED
    BY <1>3, <2>2 DEF PushCapped
<1>4. CASE ~(Len(Append(s, x)) > UndoLimit)
  BY <1>1, <1>2, <1>4, UndoLimitAssumption DEF PushCapped
<1> QED
  BY <1>3, <1>4

\* Popping a stack that is not empty.
LEMMA PopLemma ==
    ASSUME NEW s \in Seq(Contents), s # <<>>
    PROVE  /\ FrontOf(s) \in Seq(Contents)
           /\ Len(FrontOf(s)) = Len(s) - 1
           /\ LastOf(s) \in Contents
<1>1. Len(s) \in Nat \ {0}
  BY EmptySeq
<1>2. \A i \in 1 .. Len(s) : s[i] \in Contents
  BY ElementOfSeq
<1>3. /\ SubSeq(s, 1, Len(s) - 1) \in Seq(Contents)
      /\ Len(SubSeq(s, 1, Len(s) - 1)) =
           IF 1 <= Len(s) - 1 THEN Len(s) - 1 - 1 + 1 ELSE 0
  <2>1. \A i \in 1 .. Len(s) - 1 : s[i] \in Contents
    BY <1>1, <1>2
  <2> QED
    BY <1>1, <2>1, SubSeqProperties
<1>4. Len(SubSeq(s, 1, Len(s) - 1)) = Len(s) - 1
  <2> DEFINE m == Len(s)
             k == Len(SubSeq(s, 1, Len(s) - 1))
  <2>1. m \in Nat \ {0} /\ k = IF 1 <= m - 1 THEN m - 1 - 1 + 1 ELSE 0
    BY <1>1, <1>3
  <2> HIDE DEF m, k
  <2>2. k = m - 1
    BY <2>1
  <2> QED
    BY <2>2 DEF m, k
<1>5. s[Len(s)] \in Contents
  BY <1>1, <1>2
<1> QED
  BY <1>3, <1>4, <1>5 DEF FrontOf, LastOf

\* What is left of the budget of a page when a snapshot changes stacks.
LEMMA BudgetLemma ==
    ASSUME NEW s \in Seq(Contents), NEW t \in Seq(Contents),
           Len(s) + Len(t) <= UndoLimit
    PROVE  /\ Len(s) <= UndoLimit
           /\ \A u, w \in Seq(Contents) :
                 /\ Len(u) = Len(s) - 1 /\ Len(w) = Len(t) + 1
                       => Len(u) + Len(w) <= UndoLimit
                 /\ Len(u) = Len(s) + 1 /\ Len(w) = Len(t) - 1
                       => Len(u) + Len(w) <= UndoLimit
                 /\ Len(u) <= UndoLimit /\ w = <<>>
                       => Len(u) + Len(w) <= UndoLimit
BY UndoLimitAssumption

-----------------------------------------------------------------------------
(* The operators of the history.  *)

\* Sealing keeps a history in order and leaves no transaction open.
LEMMA SealLemma ==
    ASSUME NEW g, Good(g), NEW p \in Pages, NEW now \in Contents
    PROVE  /\ Good(Seal(g, p, now))
           /\ Seal(g, p, now).pending = NoTx
<1>1. CASE g.pending = NoTx
  BY <1>1 DEF Seal
<1>2. CASE g.pending # NoTx /\ ChangedNothing(g, p, now)
  BY <1>2 DEF Seal, Good, Histories, Bounded
<1>3. CASE g.pending # NoTx /\ ~ChangedNothing(g, p, now)
  <2> DEFINE q == g.pending.page
             b == g.pending.before
             s == Seal(g, p, now)
  <2>1. g \in Histories /\ q \in Pages /\ b \in Contents
    BY <1>3 DEF Good, Histories, Txs
  <2>2. s = [past    |-> [g.past EXCEPT ![q] = PushCapped(g.past[q], b)],
             future  |-> [g.future EXCEPT ![q] = <<>>],
             pending |-> NoTx]
    BY <1>3 DEF Seal
  <2>3. /\ g.past \in [Pages -> Seq(Contents)]
        /\ g.future \in [Pages -> Seq(Contents)]
    BY <2>1 DEF Histories
  <2>5. Len(g.past[q]) <= UndoLimit
    <3>1. \A r \in Pages : Len(g.past[r]) + Len(g.future[r]) <= UndoLimit
      BY DEF Good, Bounded
    <3> QED
      BY <2>1, <2>3, <3>1, BudgetLemma
  <2>6. /\ PushCapped(g.past[q], b) \in Seq(Contents)
        /\ Len(PushCapped(g.past[q], b)) <= UndoLimit
    BY <2>1, <2>3, <2>5, PushCappedLemma
  <2>7. s \in Histories
    BY <2>1, <2>2, <2>3, <2>6, EmptySeq DEF Histories
  <2>8. Bounded(s)
    <3> SUFFICES ASSUME NEW r \in Pages
                 PROVE  Len(s.past[r]) + Len(s.future[r]) <= UndoLimit
      BY DEF Bounded
    <3>1. CASE r = q
      <4>1. s.past[r] = PushCapped(g.past[q], b) /\ s.future[r] = <<>>
        BY <2>1, <2>2, <2>3, <3>1
      <4>2. Len(g.past[q]) + Len(g.future[q]) <= UndoLimit
        BY <2>1 DEF Good, Bounded
      <4>3. <<>> \in Seq(Contents)
        BY EmptySeq
      <4> QED
        BY <2>1, <2>3, <2>6, <4>1, <4>2, <4>3, BudgetLemma
    <3>2. CASE r # q
      <4>1. s.past[r] = g.past[r] /\ s.future[r] = g.future[r]
        BY <2>1, <2>2, <2>3, <3>2
      <4>2. Len(g.past[r]) + Len(g.future[r]) <= UndoLimit
        BY DEF Good, Bounded
      <4> HIDE DEF s
      <4> QED
        BY <4>1, <4>2
    <3> QED
      BY <3>1, <3>2
  <2> QED
    BY <2>2, <2>7, <2>8 DEF Good
<1> QED
  BY <1>1, <1>2, <1>3

\* Recording an edit keeps a history in order; afterwards the transaction of
\* the edited page is open.
LEMMA RecordLemma ==
    ASSUME NEW g, Good(g), NEW p \in Pages, NEW now \in Contents,
           NEW kind \in Kinds, NEW within
    PROVE  /\ Good(Record(g, p, now, kind, within))
           /\ Record(g, p, now, kind, within).pending.page = p
<1>1. CASE Continues(g, p, kind, within)
  BY <1>1 DEF Record, Continues, IsOpenOn
<1>2. CASE ~Continues(g, p, kind, within)
  <2> DEFINE tx == [page |-> p, kind |-> kind, before |-> now]
             s  == Seal(g, p, now)
  <2>1. Good(s)
    BY SealLemma
  <2>2. tx \in Txs
    BY DEF Txs
  <2>3. Record(g, p, now, kind, within) = [s EXCEPT !.pending = tx]
    BY <1>2 DEF Record
  <2>4. /\ [s EXCEPT !.pending = tx] \in Histories
        /\ [s EXCEPT !.pending = tx].past = s.past
        /\ [s EXCEPT !.pending = tx].future = s.future
        /\ [s EXCEPT !.pending = tx].pending = tx
    BY <2>1, <2>2 DEF Good, Histories
  <2>5. Bounded([s EXCEPT !.pending = tx])
    BY <2>1, <2>4 DEF Good, Bounded
  <2>6. tx.page = p
    OBVIOUS
  <2> HIDE DEF tx, s
  <2> QED
    BY <2>3, <2>4, <2>5, <2>6 DEF Good
<1> QED
  BY <1>1, <1>2

\* An edit outside the coalescing window opens a transaction of its own.
LEMMA OpenedLemma ==
    ASSUME NEW g, Good(g), NEW p \in Pages, NEW now \in Contents,
           NEW kind \in Kinds
    PROVE  Record(g, p, now, kind, FALSE).pending.page = p
<1> DEFINE tx == [page |-> p, kind |-> kind, before |-> now]
           s  == Seal(g, p, now)
<1>1. ~Continues(g, p, kind, FALSE)
  BY DEF Continues
<1>2. Record(g, p, now, kind, FALSE) = [s EXCEPT !.pending = tx]
  BY <1>1 DEF Record
<1>3. s \in Histories
  BY SealLemma DEF Good
<1>4. [s EXCEPT !.pending = tx].pending = tx
  BY <1>3 DEF Histories
<1>5. tx.page = p
  OBVIOUS
<1> HIDE DEF tx, s
<1> QED
  BY <1>2, <1>4, <1>5

\* Undo moves one snapshot from the past to the future.
LEMMA StepBackLemma ==
    ASSUME NEW g, Good(g), NEW p \in Pages, NEW now \in Contents
    PROVE  /\ Good(StepBack(g, p, now))
           /\ StepBack(g, p, now).pending = NoTx
           /\ CanStepBack(g, p, now) => Undone(g, p, now) \in Contents
<1> DEFINE s == Seal(g, p, now)
           t == StepBack(g, p, now)
<1>1. Good(s) /\ s.pending = NoTx
  BY SealLemma
<1>2. CASE s.past[p] = <<>>
  BY <1>1, <1>2 DEF StepBack, CanStepBack
<1>3. CASE s.past[p] # <<>>
  <2>1. /\ s \in Histories
        /\ s.past \in [Pages -> Seq(Contents)]
        /\ s.future \in [Pages -> Seq(Contents)]
    BY <1>1 DEF Good, Histories
  <2>2. /\ FrontOf(s.past[p]) \in Seq(Contents)
        /\ Len(FrontOf(s.past[p])) = Len(s.past[p]) - 1
        /\ LastOf(s.past[p]) \in Contents
    BY <1>3, <2>1, PopLemma
  <2>3. t = [past    |-> [s.past EXCEPT ![p] = FrontOf(s.past[p])],
             future  |-> [s.future EXCEPT ![p] = Append(s.future[p], now)],
             pending |-> NoTx]
    BY <1>3 DEF StepBack
  <2>4. /\ Append(s.future[p], now) \in Seq(Contents)
        /\ Len(Append(s.future[p], now)) = Len(s.future[p]) + 1
    BY <2>1
  <2>5. t \in Histories /\ t.pending = NoTx
    BY <1>1, <2>1, <2>2, <2>3, <2>4 DEF Histories
  <2>6. Bounded(t)
    <3> SUFFICES ASSUME NEW r \in Pages
                 PROVE  Len(t.past[r]) + Len(t.future[r]) <= UndoLimit
      BY DEF Bounded
    <3>1. Len(s.past[r]) + Len(s.future[r]) <= UndoLimit
      BY <1>1 DEF Good, Bounded
    <3>2. CASE r = p
      <4>1. /\ t.past[r] = FrontOf(s.past[p])
            /\ t.future[r] = Append(s.future[p], now)
        BY <2>1, <2>3, <3>2
      <4> QED
        BY <2>1, <2>2, <2>4, <3>1, <3>2, <4>1, BudgetLemma
    <3>3. CASE r # p
      <4>1. t.past[r] = s.past[r] /\ t.future[r] = s.future[r]
        BY <2>1, <2>3, <3>3
      <4> QED
        BY <3>1, <4>1
    <3> QED
      BY <3>2, <3>3
  <2> QED
    BY <2>2, <2>5, <2>6 DEF Good, Undone
<1> QED
  BY <1>2, <1>3

\* Redo moves one snapshot from the future to the past, and does not need to
\* cap the stack it pushes to.
LEMMA StepForwardLemma ==
    ASSUME NEW g, Good(g), NEW p \in Pages, NEW now \in Contents,
           CanStepForward(g, p)
    PROVE  /\ Good(StepForward(g, p, now))
           /\ StepForward(g, p, now).pending = g.pending
           /\ Redone(g, p) \in Contents
<1> DEFINE t == StepForward(g, p, now)
<1>1. /\ g \in Histories
      /\ g.past \in [Pages -> Seq(Contents)]
      /\ g.future \in [Pages -> Seq(Contents)]
  BY DEF Good, Histories
<1>2. /\ FrontOf(g.future[p]) \in Seq(Contents)
      /\ Len(FrontOf(g.future[p])) = Len(g.future[p]) - 1
      /\ LastOf(g.future[p]) \in Contents
  BY <1>1, PopLemma DEF CanStepForward
<1>3. t = [past    |-> [g.past EXCEPT ![p] = Append(g.past[p], now)],
           future  |-> [g.future EXCEPT ![p] = FrontOf(g.future[p])],
           pending |-> g.pending]
  BY DEF StepForward
<1>4. /\ Append(g.past[p], now) \in Seq(Contents)
      /\ Len(Append(g.past[p], now)) = Len(g.past[p]) + 1
  BY <1>1
<1>5. t \in Histories /\ t.pending = g.pending
  BY <1>1, <1>2, <1>3, <1>4 DEF Histories
<1>6. Bounded(t)
  <2> SUFFICES ASSUME NEW r \in Pages
               PROVE  Len(t.past[r]) + Len(t.future[r]) <= UndoLimit
    BY DEF Bounded
  <2>1. Len(g.past[r]) + Len(g.future[r]) <= UndoLimit
    BY DEF Good, Bounded
  <2>2. CASE r = p
    <3>1. /\ t.past[r] = Append(g.past[p], now)
          /\ t.future[r] = FrontOf(g.future[p])
      BY <1>1, <1>3, <2>2
    <3> QED
      BY <1>1, <1>2, <1>4, <2>1, <2>2, <3>1, BudgetLemma
  <2>3. CASE r # p
    <3>1. t.past[r] = g.past[r] /\ t.future[r] = g.future[r]
      BY <1>1, <1>3, <2>3
    <3> QED
      BY <2>1, <3>1
  <2> QED
    BY <2>2, <2>3
<1> QED
  BY <1>2, <1>5, <1>6 DEF Good, Redone

-----------------------------------------------------------------------------
(* Page contents.  *)

LEMMA ContentsLemma ==
    /\ Blank \in Contents
    /\ \A c \in Contents, n \in Nodes, v \in Versions : Put(c, n, v) \in Contents
    /\ \A c \in Contents : \A S : Without(c, S) \in Contents
    /\ \A c \in Contents : c # Gone
<1>1. Blank \in Contents
  <2>1. Blank \in [{} -> Versions]
    BY DEF Blank
  <2> QED
    BY <2>1 DEF Contents
<1>2. ASSUME NEW c \in Contents, NEW n \in Nodes, NEW v \in Versions
      PROVE  Put(c, n, v) \in Contents
  <2>1. PICK D \in SUBSET Nodes : c \in [D -> Versions]
    BY DEF Contents
  <2>2. Put(c, n, v) \in [D \cup {n} -> Versions]
    BY <2>1 DEF Put
  <2>3. D \cup {n} \in SUBSET Nodes
    BY <2>1
  <2> QED
    BY <2>2, <2>3 DEF Contents
<1>3. ASSUME NEW c \in Contents, NEW S
      PROVE  Without(c, S) \in Contents
  <2>1. PICK D \in SUBSET Nodes : c \in [D -> Versions]
    BY DEF Contents
  <2>2. Without(c, S) \in [D \ S -> Versions]
    BY <2>1 DEF Without
  <2>3. D \ S \in SUBSET Nodes
    BY <2>1
  <2> QED
    BY <2>2, <2>3 DEF Contents
<1> QED
  BY <1>1, <1>2, <1>3, PagesAssumption

-----------------------------------------------------------------------------
(* The inductive invariant: the three invariants lean on each other.  An      *)
(* operator keeps the history in order only if it is handed the content of a  *)
(* page that lives, and the active page lives only because the pages are      *)
(* what TypeOK says.                                                          *)

IInv == TypeOK /\ ActivePageLives /\ HistoryBounded /\ PendingIsHere

LEMMA IInvGood ==
    ASSUME IInv
    PROVE  Good(h) /\ Here \in Contents /\ active \in Pages
BY DEF IInv, TypeOK, ActivePageLives, HistoryBounded, Good, Histories, Bounded,
       Lives, Here

LEMMA InitIInv == Init => IInv
<1> SUFFICES ASSUME Init PROVE IInv
  OBVIOUS
<1>1. FirstPage \in Pages /\ Gone \notin Contents
  BY PagesAssumption
<1>2. content \in [Pages -> Contents \cup {Gone}] /\ content[active] # Gone
  BY <1>1, ContentsLemma DEF Init
<1>3. /\ h.past = [p \in Pages |-> <<>>]
      /\ h.future = [p \in Pages |-> <<>>]
      /\ h.pending = NoTx
      /\ h \in Histories
  <2>1. <<>> \in Seq(Contents)
    BY EmptySeq
  <2> QED
    BY <2>1 DEF Init, EmptyHistory, Histories
<1>4. HistoryBounded
  <2> SUFFICES ASSUME NEW p \in Pages
               PROVE  Len(h.past[p]) + Len(h.future[p]) <= UndoLimit
    BY DEF HistoryBounded
  <2>1. h.past[p] = <<>> /\ h.future[p] = <<>>
    BY <1>3
  <2> QED
    BY <2>1, UndoLimitAssumption
<1> QED
  BY <1>1, <1>2, <1>3, <1>4
     DEF Init, IInv, TypeOK, ActivePageLives, PendingIsHere, Lives, Histories

\* A step that gives the active page a new content and leaves either no
\* transaction open, or the one that was open, or one on the active page.
LEMMA PageStepLemma ==
    ASSUME IInv, NEW c \in Contents, SetPage(active, c), active' = active,
           Good(h'),
           \/ h'.pending = NoTx
           \/ h'.pending = h.pending
           \/ h'.pending.page = active,
           placement' \in Nodes \cup {NoNode}, dragging' \in BOOLEAN
    PROVE  IInv'
<1>1. /\ content \in [Pages -> Contents \cup {Gone}]
      /\ active \in Pages
      /\ content' = [content EXCEPT ![active] = c]
  BY DEF IInv, TypeOK, SetPage
<1>2. content' \in [Pages -> Contents \cup {Gone}]
  BY <1>1
<1>3. content'[active] # Gone
  BY <1>1, ContentsLemma
<1>4. PendingIsHere'
  <2>1. CASE h'.pending = NoTx
    BY <2>1 DEF PendingIsHere
  <2>2. CASE h'.pending.page = active
    BY <2>2 DEF PendingIsHere
  <2>3. CASE h'.pending = h.pending /\ h'.pending.page # active
    <3>1. CASE h.pending # NoTx
      <4>1. content[h.pending.page] = Gone /\ h.pending.page \in Pages
        BY <2>3, <3>1 DEF IInv, PendingIsHere, Lives, TypeOK, Txs
      <4> QED
        BY <1>1, <2>3, <4>1 DEF PendingIsHere, Lives
    <3>2. CASE h.pending = NoTx
      BY <2>3, <3>2 DEF PendingIsHere
    <3> QED
      BY <3>1, <3>2
  <2> QED
    BY <2>1, <2>2, <2>3
<1> QED
  BY <1>1, <1>2, <1>3, <1>4
     DEF IInv, TypeOK, ActivePageLives, HistoryBounded, Good, Histories,
         Bounded, Lives

\* A page step that opens no transaction of its own but seals what it did.
LEMMA SealedEditLemma ==
    ASSUME IInv, NEW c \in Contents, SetPage(active, c), active' = active,
           h' = Seal(Record(h, active, Here, Structure, FALSE), active, c),
           placement' = placement, dragging' = dragging
    PROVE  IInv'
<1>1. Good(h) /\ Here \in Contents /\ active \in Pages
  BY IInvGood
<1>2. Structure \in Kinds
  BY DEF Kinds
<1>3. Good(Record(h, active, Here, Structure, FALSE))
  BY <1>1, <1>2, RecordLemma
<1>4. Good(h') /\ h'.pending = NoTx
  BY <1>1, <1>3, SealLemma
<1> QED
  BY <1>4, PageStepLemma DEF IInv, TypeOK

\* A step that changes no page seals the open transaction before it leaves the
\* active page for a page that lives.
LEMMA SwitchLemma ==
    ASSUME IInv, NEW p \in Pages, Lives(p), active' = p,
           h' = Seal(h, active, Here), content' = content,
           placement' = placement, dragging' \in BOOLEAN
    PROVE  IInv'
<1>1. Good(h) /\ Here \in Contents /\ active \in Pages
  BY IInvGood
<1>2. Good(h') /\ h'.pending = NoTx
  BY <1>1, SealLemma
<1> QED
  BY <1>2 DEF IInv, TypeOK, ActivePageLives, HistoryBounded, PendingIsHere,
              Good, Histories, Bounded, Lives

LEMMA NextIInv == IInv /\ [Next]_vars => IInv'
<1> SUFFICES ASSUME IInv, [Next]_vars PROVE IInv'
  OBVIOUS
<1>0. /\ Good(h) /\ Here \in Contents /\ active \in Pages
      /\ placement \in Nodes \cup {NoNode} /\ dragging \in BOOLEAN
  BY IInvGood DEF IInv, TypeOK
<1>1. ASSUME NEW n \in Nodes, NEW v \in Versions, NEW kind \in Kinds,
             NEW within \in BOOLEAN, Edit(n, v, kind, within)
      PROVE  IInv'
  <2>1. Put(Here, n, v) \in Contents
    BY <1>0, ContentsLemma
  <2>2. Good(h') /\ h'.pending.page = active
    BY <1>0, <1>1, RecordLemma DEF Edit
  <2> QED
    BY <1>0, <1>1, <2>1, <2>2, PageStepLemma DEF Edit
<1>2. ASSUME NEW n \in Nodes, NEW v \in Versions, Grow(n, v)
      PROVE  IInv'
  <2>1. Put(Here, n, v) \in Contents
    BY <1>0, ContentsLemma
  <2>2. Good(h') /\ h'.pending = h.pending
    BY <1>0, <1>2 DEF Grow
  <2> QED
    BY <1>0, <1>2, <2>1, <2>2, PageStepLemma DEF Grow
<1>3. ASSUME NEW n \in Nodes, NEW v \in Versions, AddNode(n, v)
      PROVE  IInv'
  <2>1. Put(Here, n, v) \in Contents
    BY <1>0, ContentsLemma
  <2> QED
    BY <1>3, <2>1, SealedEditLemma DEF AddNode
<1>4. ASSUME NEW n \in Nodes, NEW v \in Versions, PlaceNode(n, v)
      PROVE  IInv'
  <2>1. Put(Here, n, v) \in Contents /\ Structure \in Kinds
    BY <1>0, ContentsLemma DEF Kinds
  <2>2. h' = Record(h, active, Here, Structure, FALSE)
    BY <1>4 DEF PlaceNode
  <2>3. Good(h')
    BY <1>0, <2>1, <2>2, RecordLemma
  <2>4. h'.pending.page = active
    BY <1>0, <2>1, <2>2, OpenedLemma
  <2> QED
    BY <1>0, <1>4, <2>1, <2>3, <2>4, PageStepLemma DEF PlaceNode
<1>5. ASSUME NEW v \in Versions, ResizePlacement(v)
      PROVE  IInv'
  <2>1. placement \in Nodes
    <3>1. PICK D \in SUBSET Nodes : Here \in [D -> Versions]
      BY <1>0 DEF Contents
    <3> QED
      BY <1>5, <3>1 DEF ResizePlacement
  <2>2. Put(Here, placement, v) \in Contents
    BY <1>0, <2>1, ContentsLemma
  <2>3. Good(h') /\ h'.pending = h.pending
    BY <1>0, <1>5 DEF ResizePlacement
  <2> QED
    BY <1>0, <1>5, <2>2, <2>3, PageStepLemma DEF ResizePlacement
<1>6. ASSUME NEW S \in SUBSET Nodes, DeleteSelection(S)
      PROVE  IInv'
  <2> DEFINE after  == Without(Here, S)
             opened == Record(h, active, Here, Structure, FALSE)
  <2>1. after \in Contents /\ Structure \in Kinds
    BY <1>0, ContentsLemma DEF Kinds
  <2>2. CASE S = {}
    <3>1. h' = opened
      BY <1>6, <2>2 DEF DeleteSelection
    <3>2. Good(h')
      BY <1>0, <2>1, <3>1, RecordLemma
    <3>3. h'.pending.page = active
      BY <1>0, <2>1, <3>1, OpenedLemma
    <3> QED
      BY <1>0, <1>6, <2>1, <3>2, <3>3, PageStepLemma DEF DeleteSelection
  <2>3. CASE S # {}
    BY <1>6, <2>1, <2>3, SealedEditLemma DEF DeleteSelection
  <2> QED
    BY <2>2, <2>3
<1>7. ASSUME NEW c \in Contents, RestorePage(c)
      PROVE  IInv'
  BY <1>7, SealedEditLemma DEF RestorePage
<1>8. CASE Checkpoint
  <2>1. Lives(active)
    BY DEF IInv, ActivePageLives
  <2> QED
    BY <1>0, <1>8, <2>1, SwitchLemma DEF Checkpoint
<1>9. CASE Undo
  <2>1. Good(h') /\ h'.pending = NoTx
    BY <1>0, <1>9, StepBackLemma DEF Undo
  <2>2. CASE CanStepBack(h, active, Here)
    <3>1. Undone(h, active, Here) \in Contents
      BY <1>0, <2>2, StepBackLemma
    <3> QED
      BY <1>0, <1>9, <2>1, <2>2, <3>1, PageStepLemma DEF Undo
  <2>3. CASE ~CanStepBack(h, active, Here)
    <3>1. SetPage(active, Here)
      BY <1>9, <2>3 DEF Undo, SetPage, Here, IInv, TypeOK
    <3> QED
      BY <1>0, <1>9, <2>1, <3>1, PageStepLemma DEF Undo
  <2> QED
    BY <2>2, <2>3
<1>10. CASE Redo
  <2>1. /\ Good(h') /\ h'.pending = h.pending
        /\ Redone(h, active) \in Contents
    BY <1>0, <1>10, StepForwardLemma DEF Redo
  <2> QED
    BY <1>0, <1>10, <2>1, PageStepLemma DEF Redo
<1>11. CASE CommitPlacement
  <2>1. SetPage(active, Here)
    BY <1>11 DEF CommitPlacement, SetPage, Here, IInv, TypeOK
  <2>2. Good(h') /\ (h'.pending = NoTx \/ h'.pending = h.pending)
    BY <1>0, <1>11, SealLemma DEF CommitPlacement
  <2> QED
    BY <1>0, <1>11, <2>1, <2>2, PageStepLemma DEF CommitPlacement
<1>12. CASE CancelPlacement
  <2>1. Without(Here, {placement}) \in Contents
    BY <1>0, ContentsLemma
  <2>2. Good(h') /\ h'.pending = NoTx
    BY <1>0, <1>12 DEF CancelPlacement, Discard, Good, Histories, Bounded
  <2> QED
    BY <1>0, <1>12, <2>1, <2>2, PageStepLemma DEF CancelPlacement
<1>13. ASSUME NEW p \in Pages, SwitchPage(p)
       PROVE  IInv'
  BY <1>0, <1>13, SwitchLemma DEF SwitchPage
<1>14. ASSUME NEW p \in Pages, AddPage(p)
       PROVE  IInv'
  <2>1. Good(h') /\ h'.pending = NoTx
    BY <1>0, <1>14, SealLemma DEF AddPage
  <2>2. /\ content' \in [Pages -> Contents \cup {Gone}]
        /\ content'[active'] # Gone
    BY <1>14, ContentsLemma DEF AddPage, SetPage, IInv, TypeOK
  <2> QED
    BY <1>14, <2>1, <2>2
       DEF AddPage, IInv, TypeOK, ActivePageLives, HistoryBounded,
           PendingIsHere, Good, Histories, Bounded, Lives
<1>15. ASSUME NEW p \in Pages, NEW q \in Pages, DeletePage(p, q)
       PROVE  IInv'
  <2>1. /\ content' \in [Pages -> Contents \cup {Gone}]
        /\ content'[q] = content[q]
        /\ content'[p] = Gone
        /\ \A r \in Pages : content[r] = Gone => content'[r] = Gone
    BY <1>15 DEF DeletePage, SetPage, IInv, TypeOK
  <2>2. h' = h /\ active' = q /\ content[q] # Gone
    BY <1>15 DEF DeletePage, Lives
  <2>3. PendingIsHere'
    <3> SUFFICES ASSUME h'.pending # NoTx
                 PROVE  h'.pending.page = active' \/ content'[h'.pending.page] = Gone
      BY DEF PendingIsHere, Lives
    <3>1. h.pending.page \in Pages
      BY <2>2 DEF IInv, TypeOK, Txs
    <3>2. h.pending.page = active \/ content[h.pending.page] = Gone
      BY <2>2 DEF IInv, PendingIsHere, Lives
    <3>3. p = active \/ q = active
      BY <1>15 DEF DeletePage
    <3> QED
      BY <2>1, <2>2, <3>1, <3>2, <3>3
  <2> QED
    BY <1>15, <2>1, <2>2, <2>3
       DEF DeletePage, IInv, TypeOK, ActivePageLives, HistoryBounded, Lives
<1>16. ASSUME NEW p \in Pages, NEW c \in Contents, ToolEdit(p, c)
       PROVE  IInv'
  <2>1. content[p] \in Contents /\ Structure \in Kinds
    BY <1>16 DEF ToolEdit, Lives, IInv, TypeOK, Kinds
  <2>2. Good(Record(h, p, content[p], Structure, FALSE))
    BY <1>0, <2>1, RecordLemma
  <2>3. Good(h') /\ h'.pending = NoTx
    BY <1>16, <2>2, SealLemma DEF ToolEdit
  <2>4. /\ content' \in [Pages -> Contents \cup {Gone}]
        /\ content'[active] # Gone
    BY <1>0, <1>16, ContentsLemma
       DEF ToolEdit, SetPage, IInv, TypeOK, ActivePageLives, Lives
  <2> QED
    BY <1>16, <2>3, <2>4
       DEF ToolEdit, IInv, TypeOK, ActivePageLives, HistoryBounded,
           PendingIsHere, Good, Histories, Bounded, Lives
<1>17. CASE UNCHANGED vars
  BY <1>17 DEF vars, IInv, TypeOK, ActivePageLives, HistoryBounded,
               PendingIsHere, Lives
<1>18. CASE CommonNext
  BY <1>1, <1>2, <1>3, <1>4, <1>5, <1>6, <1>7, <1>8, <1>9, <1>11, <1>13,
     <1>14, <1>15, <1>18 DEF CommonNext
<1> QED
  BY <1>10, <1>12, <1>16, <1>17, <1>18 DEF Next

-----------------------------------------------------------------------------
(* The theorems.  *)

\* IInv is an invariant of every history, the calm one included.
THEOREM Invariance == Spec => []IInv
<1>1. Init => IInv
  BY InitIInv
<1>2. IInv /\ [Next]_vars => IInv'
  BY NextIInv
<1> QED
  BY <1>1, <1>2, PTL DEF Spec

\* Every state the handlers reach is well typed.
THEOREM Typing == Spec => []TypeOK
<1>1. IInv => TypeOK
  BY DEF IInv
<1> QED
  BY <1>1, Invariance, PTL

\* The two stacks of a page never hold more than UNDO_LIMIT snapshots together,
\* however undo, redo, typing, tool calls and page changes are interleaved.
THEOREM Bound == Spec => []HistoryBounded
<1>1. IInv => HistoryBounded
  BY DEF IInv
<1> QED
  BY <1>1, Invariance, PTL

\* Document::active_page never panics.
THEOREM ActivePage == Spec => []ActivePageLives
<1>1. IInv => ActivePageLives
  BY DEF IInv
<1> QED
  BY <1>1, Invariance, PTL

\* No transaction is left open on a page the user has left.
THEOREM Pending == Spec => []PendingIsHere
<1>1. IInv => PendingIsHere
  BY DEF IInv
<1> QED
  BY <1>1, Invariance, PTL

\* The calm history is a history, so all of the above holds of it.
THEOREM CalmIsSpec == CalmSpec => Spec
<1>1. [CalmNext]_vars => [Next]_vars
  BY DEF CalmNext, Next
<1> QED
  BY <1>1, PTL DEF CalmSpec, Spec

-----------------------------------------------------------------------------
(* What is taken off a page.  Each step that replaces the content of a page   *)
(* by one without some of its nodes leaves the old content on a stack of the  *)
(* page - but for the cancelled placement, which takes back what the open     *)
(* transaction created.                                                       *)

\* Snapshots, of any history.
Holds(g, p, c) ==
    \/ \E i \in DOMAIN g.past[p] : g.past[p][i] = c
    \/ \E i \in DOMAIN g.future[p] : g.future[p][i] = c

\* What is pushed is on the stack, whatever falls off its other end.
LEMMA PushedLemma ==
    ASSUME NEW s \in Seq(Contents), NEW x \in Contents
    PROVE  \E i \in DOMAIN PushCapped(s, x) : PushCapped(s, x)[i] = x
<1> DEFINE t == Append(s, x)
<1>1. /\ t \in Seq(Contents) /\ t # <<>> /\ Len(t) = Len(s) + 1
      /\ t[Len(s) + 1] = x /\ Len(s) \in Nat
  BY AppendProperties, LenProperties
<1>2. CASE Len(t) > UndoLimit
  <2>1. /\ Tail(t) \in Seq(Contents) /\ Len(Tail(t)) = Len(t) - 1
        /\ \A i \in 1 .. Len(Tail(t)) : Tail(t)[i] = t[i + 1]
    BY <1>1, HeadTailProperties
  <2>2. Len(Tail(t)) = Len(s) /\ Len(s) >= 1
    BY <1>1, <1>2, <2>1, UndoLimitAssumption
  <2>3. Tail(t)[Len(s)] = x
    BY <1>1, <2>1, <2>2
  <2>4. Len(s) \in DOMAIN Tail(t)
    BY <1>1, <2>1, <2>2
  <2> QED
    BY <1>2, <2>3, <2>4 DEF PushCapped
<1>3. CASE ~(Len(t) > UndoLimit)
  <2>1. Len(s) + 1 \in DOMAIN t
    BY <1>1
  <2> QED
    BY <1>1, <1>3, <2>1 DEF PushCapped
<1> QED
  BY <1>2, <1>3

\* A structural edit that is sealed at once leaves what it replaced behind.
LEMMA ReplacedLemma ==
    ASSUME NEW g, Good(g), NEW p \in Pages, NEW now \in Contents,
           NEW c \in Contents, c # now
    PROVE  Holds(Seal(Record(g, p, now, Structure, FALSE), p, c), p, now)
<1> DEFINE tx == [page |-> p, kind |-> Structure, before |-> now]
           s  == Seal(g, p, now)
           o  == Record(g, p, now, Structure, FALSE)
           t  == Seal(o, p, c)
<1>1. Good(s)
  BY SealLemma
<1>2. o = [s EXCEPT !.pending = tx]
  BY DEF Record, Continues
<1>3. /\ s.past \in [Pages -> Seq(Contents)]
      /\ o.past = s.past /\ o.future = s.future /\ o.pending = tx
  BY <1>1, <1>2 DEF Good, Histories
<1>4. tx # NoTx
  <2>1. tx \in Txs
    BY DEF Txs, Kinds
  <2> QED
    BY <2>1, NoTxAssumption
<1>5. tx.page = p /\ tx.before = now
  OBVIOUS
<1>6. t.past = [o.past EXCEPT ![p] = PushCapped(o.past[p], now)]
  <2> HIDE DEF tx, s, o
  <2>1. o.pending # NoTx /\ o.pending.page = p /\ o.pending.before = now
    BY <1>3, <1>4, <1>5
  <2> QED
    BY <2>1 DEF Seal, ChangedNothing
<1> HIDE DEF tx, s, o, t
<1>7. t.past[p] = PushCapped(s.past[p], now) /\ s.past[p] \in Seq(Contents)
  BY <1>3, <1>6
<1>8. \E i \in DOMAIN t.past[p] : t.past[p][i] = now
  BY <1>7, PushedLemma
<1> QED
  BY <1>8 DEF Holds, t, o

\* Undo keeps what it goes back from, and redo what it goes on from.
LEMMA SteppedLemma ==
    ASSUME NEW g, Good(g), NEW p \in Pages, NEW now \in Contents
    PROVE  /\ CanStepBack(g, p, now) => Holds(StepBack(g, p, now), p, now)
           /\ CanStepForward(g, p) => Holds(StepForward(g, p, now), p, now)
<1>1. ASSUME CanStepBack(g, p, now)
      PROVE  Holds(StepBack(g, p, now), p, now)
  <2> DEFINE s == Seal(g, p, now)
  <2>1. s.future \in [Pages -> Seq(Contents)]
    BY SealLemma DEF Good, Histories
  <2>2. StepBack(g, p, now).future = [s.future EXCEPT ![p] = Append(s.future[p], now)]
    BY <1>1 DEF StepBack, CanStepBack
  <2> HIDE DEF s
  <2>3. s.future[p] \in Seq(Contents)
    BY <2>1
  <2>4. StepBack(g, p, now).future[p] = Append(s.future[p], now)
    BY <2>1, <2>2
  <2>5. /\ Len(s.future[p]) + 1 \in DOMAIN Append(s.future[p], now)
        /\ Append(s.future[p], now)[Len(s.future[p]) + 1] = now
    BY <2>3, AppendProperties, LenProperties
  <2> QED
    BY <2>4, <2>5 DEF Holds
<1>2. ASSUME CanStepForward(g, p)
      PROVE  Holds(StepForward(g, p, now), p, now)
  <2>1. g.past \in [Pages -> Seq(Contents)]
    BY DEF Good, Histories
  <2>2. StepForward(g, p, now).past[p] = Append(g.past[p], now)
    BY <2>1 DEF StepForward
  <2>3. g.past[p] \in Seq(Contents)
    BY <2>1
  <2>4. /\ Len(g.past[p]) + 1 \in DOMAIN Append(g.past[p], now)
        /\ Append(g.past[p], now)[Len(g.past[p]) + 1] = now
    BY <2>3, AppendProperties, LenProperties
  <2> QED
    BY <2>2, <2>4 DEF Holds
<1> QED
  BY <1>1, <1>2

\* Node n, taken off page p, can be had again.
Undoable(p, n) ==
    \/ IsOpenOn(h, p) /\ n \notin DOMAIN h.pending.before
    \/ \E s \in Snapshots(p)' : n \in DOMAIN s

\* A node of a content the new history holds is undoable.
LEMMA HeldLemma ==
    ASSUME NEW p \in Pages, NEW n \in DOMAIN content[p], Holds(h', p, content[p])
    PROVE  Undoable(p, n)
BY DEF Holds, Undoable, Snapshots

\* A step that leaves the nodes of the page on screen and of every other page
\* where they are takes nothing off.
LEMMA GrownLemma ==
    ASSUME IInv, NEW c, DOMAIN Here \subseteq DOMAIN c, SetPage(active, c)
    PROVE  \A p \in Pages : DOMAIN content[p] \subseteq DOMAIN content'[p]
BY DEF IInv, TypeOK, SetPage, Here

\* A step that writes c over page p, and keeps what was there.
LEMMA WroteLemma ==
    ASSUME IInv, NEW q \in Pages, NEW c \in Contents, SetPage(q, c),
           content[q] # c => Holds(h', q, content[q]),
           NEW p \in Pages, NEW n \in DOMAIN content[p] \ DOMAIN content'[p]
    PROVE  Undoable(p, n)
<1>1. p = q /\ content'[q] = c
  BY DEF IInv, TypeOK, SetPage
<1>2. content[q] # c
  BY <1>1
<1> QED
  BY <1>1, <1>2, HeldLemma

\* One case for each action of the calm history.
LEMMA DeletionLemma ==
    ASSUME IInv, [CalmNext]_vars, NEW p \in Pages, Lives(p), content'[p] # Gone,
           NEW n \in DOMAIN content[p] \ DOMAIN content'[p]
    PROVE  Undoable(p, n)
<1>0. /\ Good(h) /\ Here \in Contents /\ active \in Pages
      /\ content \in [Pages -> Contents \cup {Gone}]
      /\ Here = content[active]
  BY IInvGood DEF IInv, TypeOK, Here
<1>1. \A m \in Nodes, v \in Versions : DOMAIN Here \subseteq DOMAIN Put(Here, m, v)
  BY DEF Put
<1>2. CASE \E m \in Nodes, v \in Versions :
              \/ \E kind \in Kinds, within \in BOOLEAN : Edit(m, v, kind, within)
              \/ Grow(m, v) \/ AddNode(m, v) \/ PlaceNode(m, v)
  BY <1>1, <1>2, GrownLemma DEF Edit, Grow, AddNode, PlaceNode
<1>3. CASE \E v \in Versions : ResizePlacement(v)
  BY <1>1, <1>3, GrownLemma DEF ResizePlacement, IInv, TypeOK, Put
<1>4. CASE \E S \in SUBSET Nodes : DeleteSelection(S)
  <2>1. PICK S \in SUBSET Nodes : DeleteSelection(S)
    BY <1>4
  <2>2. Without(Here, S) \in Contents /\ SetPage(active, Without(Here, S))
    BY <1>0, <2>1, ContentsLemma DEF DeleteSelection
  <2>3. CASE S = {}
    BY <2>2, <2>3, GrownLemma DEF Without
  <2>4. CASE S # {}
    <3>1. h' = Seal(Record(h, active, Here, Structure, FALSE), active, Without(Here, S))
      BY <2>1, <2>4 DEF DeleteSelection
    <3> QED
      BY <1>0, <2>2, <3>1, ReplacedLemma, WroteLemma
  <2> QED
    BY <2>3, <2>4
<1>5. CASE \E c \in Contents : RestorePage(c)
  <2>1. PICK c \in Contents : RestorePage(c)
    BY <1>5
  <2> QED
    BY <1>0, <2>1, ReplacedLemma, WroteLemma DEF RestorePage
<1>6. CASE Undo
  <2>1. CASE CanStepBack(h, active, Here)
    <3>1. /\ Undone(h, active, Here) \in Contents
          /\ SetPage(active, Undone(h, active, Here))
          /\ h' = StepBack(h, active, Here)
      BY <1>0, <1>6, <2>1, StepBackLemma DEF Undo
    <3> QED
      BY <1>0, <2>1, <3>1, SteppedLemma, WroteLemma
  <2>2. CASE ~CanStepBack(h, active, Here)
    BY <1>6, <2>2 DEF Undo
  <2> QED
    BY <2>1, <2>2
<1>7. CASE Redo
  <2>1. /\ CanStepForward(h, active) /\ Redone(h, active) \in Contents
        /\ SetPage(active, Redone(h, active))
        /\ h' = StepForward(h, active, Here)
    BY <1>0, <1>7, StepForwardLemma DEF Redo
  <2> QED
    BY <1>0, <2>1, SteppedLemma, WroteLemma
<1>8. CASE CancelIsCalm /\ CancelPlacement
  <2>1. content' = [content EXCEPT ![active] = Without(Here, {placement})]
    BY <1>8 DEF CancelPlacement, SetPage
  <2>2. p = active /\ n = placement /\ n \in DOMAIN Here
    BY <1>0, <2>1 DEF Without
  <2>3. IsOpenOn(h, active) /\ h.pending.before = Without(Here, {placement})
    BY <1>8, <2>2 DEF CancelIsCalm
  <2>4. placement \notin DOMAIN Without(Here, {placement})
    BY DEF Without
  <2> QED
    BY <2>2, <2>3, <2>4 DEF Undoable
<1>9. CASE \E q \in Pages, c \in Contents : ToolIsCalm(q) /\ ToolEdit(q, c)
  <2>1. PICK q \in Pages, c \in Contents : ToolEdit(q, c)
    BY <1>9
  <2>2. /\ content[q] \in Contents /\ SetPage(q, c)
        /\ h' = Seal(Record(h, q, content[q], Structure, FALSE), q, c)
    BY <1>0, <2>1 DEF ToolEdit, Lives
  <2> QED
    BY <1>0, <2>2, ReplacedLemma, WroteLemma
<1>10. CASE \E q \in Pages : AddPage(q)
  BY <1>0, <1>10 DEF AddPage, FreshPage, SetPage, Lives
<1>11. CASE \E q, r \in Pages : DeletePage(q, r)
  BY <1>0, <1>11 DEF DeletePage, SetPage
<1>12. CASE content' = content
  BY <1>12
<1> QED
  BY <1>2, <1>3, <1>4, <1>5, <1>6, <1>7, <1>8, <1>9, <1>10, <1>11, <1>12
  DEF CalmNext, CommonNext, Checkpoint, CommitPlacement, SwitchPage, vars

\* Whatever takes a node off a page in the calm history, undo or redo can bring
\* it back, for any number of nodes and pages and any undo limit.
THEOREM Deletion == CalmSpec => DeletionIsUndoable
<1>1. CalmSpec => []IInv
  BY Invariance, CalmIsSpec
<1>2. IInv /\ [CalmNext]_vars =>
        [\A p \in Pages :
           (Lives(p) /\ content'[p] # Gone) =>
             \A n \in DOMAIN content[p] \ DOMAIN content'[p] :
                \/ IsOpenOn(h, p) /\ n \notin DOMAIN h.pending.before
                \/ \E s \in Snapshots(p)' : n \in DOMAIN s]_vars
  BY DeletionLemma DEF Undoable
<1> QED
  BY <1>1, <1>2, PTL DEF CalmSpec, DeletionIsUndoable

-----------------------------------------------------------------------------
(* Lines.  *)

\* A past, a base and a future, read as one line.
LineFrom(s, b, u) ==
    [i \in 1 .. Len(s) + 1 + Len(u) |->
        IF i <= Len(s) THEN s[i]
        ELSE IF i = Len(s) + 1 THEN b
        ELSE u[Len(s) + 1 + Len(u) + 1 - i]]

\* What there is to know of a line.
IsLine(l, s, b, u) ==
    /\ l \in Seq(Contents)
    /\ Len(l) = Len(s) + 1 + Len(u)
    /\ \A i \in 1 .. Len(s) : l[i] = s[i]
    /\ l[Len(s) + 1] = b
    /\ \A i \in Len(s) + 2 .. Len(s) + 1 + Len(u) :
          l[i] = u[Len(s) + 1 + Len(u) + 1 - i]

\* The values of a line, by where they come from: past, base or future.
LEMMA LineLemma ==
    ASSUME NEW s \in Seq(Contents), NEW b \in Contents, NEW u \in Seq(Contents)
    PROVE  IsLine(LineFrom(s, b, u), s, b, u)
<1> DEFINE m == Len(s)
           n == Len(u)
           L == LineFrom(s, b, u)
<1>1. /\ m \in Nat /\ n \in Nat
      /\ \A i \in 1 .. m : s[i] \in Contents
      /\ \A i \in 1 .. n : u[i] \in Contents
  BY ElementOfSeq, LenProperties
<1>2. L = [i \in 1 .. m + 1 + n |->
             IF i <= m THEN s[i] ELSE IF i = m + 1 THEN b ELSE u[m + 1 + n + 1 - i]]
  BY DEF LineFrom
<1> HIDE DEF m, n, L
<1>3. \A i \in 1 .. m + 1 + n :
         /\ L[i] = IF i <= m THEN s[i] ELSE IF i = m + 1 THEN b ELSE u[m + 1 + n + 1 - i]
         /\ L[i] \in Contents
  <2> SUFFICES ASSUME NEW i \in 1 .. m + 1 + n
               PROVE  (IF i <= m THEN s[i] ELSE IF i = m + 1 THEN b
                       ELSE u[m + 1 + n + 1 - i]) \in Contents
    BY <1>2
  <2>1. CASE i <= m
    BY <1>1, <2>1
  <2>2. CASE i > m + 1
    <3>1. m + 1 + n + 1 - i \in 1 .. n
      BY <1>1, <2>2
    <3> QED
      BY <1>1, <2>2, <3>1
  <2> QED
    BY <1>1, <2>1, <2>2
<1>4. L \in [1 .. m + 1 + n -> Contents] /\ m + 1 + n \in Nat
  BY <1>1, <1>2, <1>3
<1>5. L \in Seq(Contents) /\ Len(L) = m + 1 + n
  BY <1>4, SeqDef
<1> QED
  BY <1>1, <1>3, <1>5 DEF m, n, L, IsLine

\* A line at its end: nothing to redo.
LEMMA EndLine ==
    ASSUME NEW s \in Seq(Contents), NEW c \in Contents
    PROVE  /\ LineFrom(s, c, <<>>) \in Seq(Contents)
           /\ Len(LineFrom(s, c, <<>>)) = Len(s) + 1
           /\ \A i \in 1 .. Len(s) : LineFrom(s, c, <<>>)[i] = s[i]
           /\ LineFrom(s, c, <<>>)[Len(s) + 1] = c
<1>1. PICK e \in Seq(Contents) : e = <<>>
  BY EmptySeq
<1>2. Len(e) = 0 /\ Len(s) \in Nat
  BY <1>1, EmptySeq, LenProperties
<1>3. /\ LineFrom(s, c, e) \in Seq(Contents)
      /\ Len(LineFrom(s, c, e)) = Len(s) + 1 + Len(e)
      /\ \A i \in 1 .. Len(s) : LineFrom(s, c, e)[i] = s[i]
      /\ LineFrom(s, c, e)[Len(s) + 1] = c
  BY LineLemma DEF IsLine
<1>4. Len(LineFrom(s, c, e)) = Len(s) + 1
  BY <1>2, <1>3
<1> QED
  BY <1>1, <1>3, <1>4, Zenon

\* The line of a new page.
LEMMA NewLine ==
    /\ LineFrom(<<>>, Blank, <<>>) = <<Blank>>
    /\ Len(<<>>) + 1 = 1
<1>1. Blank \in Contents
  BY ContentsLemma
<1>2. PICK e \in Seq(Contents) : e = <<>>
  BY EmptySeq
<1>3. Len(e) = 0
  BY <1>2, EmptySeq
<1>4. PICK l : l = LineFrom(e, Blank, <<>>)
  OBVIOUS
<1>5. PICK k : k = <<Blank>>
  OBVIOUS
<1>6. l \in Seq(Contents) /\ Len(l) = Len(e) + 1 /\ l[Len(e) + 1] = Blank
  BY <1>1, <1>4, EndLine
<1>7. k \in Seq(Contents) /\ Len(k) = 1 /\ k[1] = Blank
  BY <1>1, <1>5
<1>8. l = k
  <2>1. Len(l) = 1 /\ l[1] = Blank
    BY <1>3, <1>6
  <2>2. \A i \in 1 .. Len(l) : l[i] = k[i]
    BY <1>7, <2>1
  <2> QED
    BY <1>6, <1>7, <2>1, <2>2, SeqEqual
<1> QED
  BY <1>2, <1>3, <1>4, <1>5, <1>8

\* Settling pushes the base behind the position and forgets the future.
LEMMA SettledLine ==
    ASSUME NEW s \in Seq(Contents), NEW b \in Contents, NEW u \in Seq(Contents),
           NEW c \in Contents
    PROVE  Append(SubSeq(LineFrom(s, b, u), 1, Len(s) + 1), c)
             = LineFrom(Append(s, b), c, <<>>)
<1> DEFINE L == LineFrom(s, b, u)
           k == SubSeq(L, 1, Len(s) + 1)
           R == LineFrom(Append(s, b), c, <<>>)
           m == Len(s)
<1>1. /\ L \in Seq(Contents) /\ Len(L) = m + 1 + Len(u)
      /\ \A i \in 1 .. m : L[i] = s[i]
      /\ L[m + 1] = b
      /\ m \in Nat /\ Len(u) \in Nat
  BY LineLemma, LenProperties DEF IsLine
<1>2. /\ Append(s, b) \in Seq(Contents) /\ Len(Append(s, b)) = m + 1
      /\ \A i \in 1 .. m : Append(s, b)[i] = s[i]
      /\ Append(s, b)[m + 1] = b
  BY AppendProperties
<1> HIDE DEF L, m
<1>4. /\ R \in Seq(Contents) /\ Len(R) = m + 2
      /\ \A i \in 1 .. m + 1 : R[i] = Append(s, b)[i]
      /\ R[m + 2] = c
  <2>1. /\ R \in Seq(Contents) /\ Len(R) = Len(Append(s, b)) + 1
        /\ \A i \in 1 .. Len(Append(s, b)) : R[i] = Append(s, b)[i]
        /\ R[Len(Append(s, b)) + 1] = c
    BY <1>2, EndLine
  <2> HIDE DEF R
  <2> QED
    BY <1>1, <1>2, <2>1
<1>5. /\ k \in Seq(Contents) /\ Len(k) = m + 1
      /\ \A i \in 1 .. m + 1 : k[i] = L[i]
  <2>1. \A i \in 1 .. m + 1 : L[i] \in Contents
    BY <1>1, ElementOfSeq
  <2>2. /\ k \in Seq(Contents)
        /\ Len(k) = IF 1 <= m + 1 THEN m + 1 - 1 + 1 ELSE 0
        /\ \A i \in 1 .. m + 1 - 1 + 1 : k[i] = L[1 + i - 1]
    BY <1>1, <2>1, SubSeqProperties DEF m
  <2> HIDE DEF k
  <2> QED
    BY <1>1, <2>2
<1> HIDE DEF k, R
<1>6. /\ Append(k, c) \in Seq(Contents) /\ Len(Append(k, c)) = m + 2
      /\ \A i \in 1 .. m + 1 : Append(k, c)[i] = k[i]
      /\ Append(k, c)[m + 2] = c
  <2>1. /\ Append(k, c) \in Seq(Contents)
        /\ Len(Append(k, c)) = Len(k) + 1
        /\ \A i \in 1 .. Len(k) : Append(k, c)[i] = k[i]
        /\ Append(k, c)[Len(k) + 1] = c
    BY <1>5, AppendProperties
  <2> QED
    BY <1>1, <1>5, <2>1
<1>7. \A i \in 1 .. m + 2 : Append(k, c)[i] = R[i]
  BY <1>1, <1>2, <1>4, <1>5, <1>6
<1>8. Append(k, c) = R
  BY <1>4, <1>6, <1>7, SeqEqual
<1> QED
  BY <1>8 DEF k, L, R, m

\* The oldest state of a line is the oldest of its past.
LEMMA TailLine ==
    ASSUME NEW s \in Seq(Contents), s # <<>>, NEW c \in Contents
    PROVE  Tail(LineFrom(s, c, <<>>)) = LineFrom(Tail(s), c, <<>>)
<1> DEFINE L == LineFrom(s, c, <<>>)
           R == LineFrom(Tail(s), c, <<>>)
           m == Len(s)
<1>1. m \in Nat \ {0}
  BY EmptySeq
<1>2. /\ Tail(s) \in Seq(Contents) /\ Len(Tail(s)) = m - 1
      /\ \A i \in 1 .. m - 1 : Tail(s)[i] = s[i + 1]
  BY HeadTailProperties
<1>3. /\ L \in Seq(Contents) /\ Len(L) = m + 1
      /\ \A i \in 1 .. m : L[i] = s[i]
      /\ L[m + 1] = c
  BY EndLine
<1>4. /\ R \in Seq(Contents) /\ Len(R) = Len(Tail(s)) + 1
      /\ \A i \in 1 .. Len(Tail(s)) : R[i] = Tail(s)[i]
      /\ R[Len(Tail(s)) + 1] = c
  BY <1>2, EndLine
<1> HIDE DEF L, R, m
<1>5. L # <<>>
  BY <1>1, <1>3
<1>6. /\ Tail(L) \in Seq(Contents) /\ Len(Tail(L)) = Len(L) - 1
      /\ \A i \in 1 .. Len(Tail(L)) : Tail(L)[i] = L[i + 1]
  BY <1>3, <1>5, HeadTailProperties
<1>7. Len(Tail(L)) = m /\ Len(R) = m
  BY <1>1, <1>2, <1>3, <1>4, <1>6
<1>8. \A i \in 1 .. m : Tail(L)[i] = R[i]
  <2> SUFFICES ASSUME NEW i \in 1 .. m PROVE Tail(L)[i] = R[i]
    OBVIOUS
  <2>1. Tail(L)[i] = L[i + 1]
    BY <1>6, <1>7
  <2>2. CASE i = m
    BY <1>1, <1>2, <1>3, <1>4, <2>1, <2>2
  <2>3. CASE i # m
    <3>1. i \in 1 .. m - 1 /\ i + 1 \in 1 .. m
      BY <1>1, <2>3
    <3> QED
      BY <1>2, <1>3, <1>4, <2>1, <3>1
  <2> QED
    BY <2>2, <2>3
<1>9. Tail(L) = R
  BY <1>4, <1>6, <1>7, <1>8, SeqEqual
<1> QED
  BY <1>9 DEF L, R

\* Undo moves the position one back on the line, and leaves the line alone.
LEMMA BackLine ==
    ASSUME NEW s \in Seq(Contents), s # <<>>, NEW b \in Contents,
           NEW u \in Seq(Contents)
    PROVE  /\ LineFrom(FrontOf(s), LastOf(s), Append(u, b)) = LineFrom(s, b, u)
           /\ LineFrom(s, b, u)[Len(s)] = LastOf(s)
<1> DEFINE L == LineFrom(s, b, u)
           R == LineFrom(FrontOf(s), LastOf(s), Append(u, b))
           m == Len(s)
           n == Len(u)
           f == FrontOf(s)
           w == Append(u, b)
<1>1. /\ f \in Seq(Contents) /\ Len(f) = m - 1 /\ LastOf(s) \in Contents
      /\ m \in Nat \ {0} /\ n \in Nat
  BY PopLemma, EmptySeq, LenProperties
<1>2. \A i \in 1 .. m - 1 : f[i] = s[i]
  <2>1. \A i \in 1 .. m - 1 : s[i] \in Contents
    BY <1>1, ElementOfSeq
  <2>2. \A i \in 1 .. m - 1 - 1 + 1 : SubSeq(s, 1, m - 1)[i] = s[1 + i - 1]
    BY <1>1, <2>1, SubSeqProperties
  <2>3. \A i \in 1 .. m - 1 : i \in 1 .. m - 1 - 1 + 1 /\ 1 + i - 1 = i
    BY <1>1
  <2> QED
    BY <2>2, <2>3 DEF FrontOf
<1>3. /\ w \in Seq(Contents) /\ Len(w) = n + 1
      /\ \A i \in 1 .. n : w[i] = u[i]
      /\ w[n + 1] = b
  BY AppendProperties
<1>4. IsLine(L, s, b, u)
  BY LineLemma
<1>5. IsLine(R, f, LastOf(s), w)
  BY <1>1, <1>3, LineLemma
<1>6. LastOf(s) = s[m]
  BY DEF LastOf
<1> HIDE DEF L, R, f, w
<1>a. /\ L \in Seq(Contents) /\ Len(L) = m + 1 + n
      /\ \A i \in 1 .. m : L[i] = s[i]
      /\ L[m + 1] = b
      /\ \A i \in m + 2 .. m + 1 + n : L[i] = u[m + 1 + n + 1 - i]
  BY <1>4 DEF IsLine
<1>b. /\ R \in Seq(Contents) /\ Len(R) = Len(f) + 1 + Len(w)
      /\ \A i \in 1 .. Len(f) : R[i] = f[i]
      /\ R[Len(f) + 1] = LastOf(s)
      /\ \A i \in Len(f) + 2 .. Len(f) + 1 + Len(w) :
            R[i] = w[Len(f) + 1 + Len(w) + 1 - i]
  BY <1>5 DEF IsLine
<1> HIDE DEF m, n
<1>7. /\ Len(R) = m + 1 + n
      /\ \A i \in 1 .. m - 1 : R[i] = s[i]
      /\ R[m] = s[m]
      /\ \A i \in m + 1 .. m + 1 + n : R[i] = w[m + 1 + n + 1 - i]
  BY <1>1, <1>2, <1>3, <1>b, <1>6
<1>8. \A i \in 1 .. m + 1 + n : R[i] = L[i]
  <2> SUFFICES ASSUME NEW i \in 1 .. m + 1 + n PROVE R[i] = L[i]
    OBVIOUS
  <2>1. CASE i <= m
    BY <1>1, <1>a, <1>7, <2>1
  <2>2. CASE i = m + 1
    <3>1. i \in m + 1 .. m + 1 + n /\ m + 1 + n + 1 - i = n + 1
      BY <1>1, <2>2
    <3>2. R[i] = w[n + 1]
      BY <1>7, <3>1
    <3> QED
      BY <1>3, <1>a, <2>2, <3>2
  <2>3. CASE i > m + 1
    <3>1. m + 1 + n + 1 - i \in 1 .. n
      BY <1>1, <2>3
    <3> QED
      BY <1>1, <1>3, <1>a, <1>7, <2>3, <3>1
  <2> QED
    BY <1>1, <2>1, <2>2, <2>3
<1>9. R = L
  BY <1>a, <1>b, <1>7, <1>8, SeqEqual
<1>10. L[m] = LastOf(s)
  BY <1>1, <1>a, <1>6
<1> QED
  BY <1>9, <1>10 DEF L, R, m, f, w

\* Redo moves it one forth.
LEMMA ForthLine ==
    ASSUME NEW s \in Seq(Contents), NEW b \in Contents,
           NEW u \in Seq(Contents), u # <<>>
    PROVE  /\ LineFrom(Append(s, b), LastOf(u), FrontOf(u)) = LineFrom(s, b, u)
           /\ LineFrom(s, b, u)[Len(s) + 2] = LastOf(u)
           /\ Len(s) + 1 < Len(LineFrom(s, b, u))
<1> DEFINE t == Append(s, b)
           v == FrontOf(u)
           e == LastOf(u)
<1>1. /\ t \in Seq(Contents) /\ t # <<>> /\ Len(t) = Len(s) + 1
      /\ t[Len(s) + 1] = b
      /\ v \in Seq(Contents) /\ e \in Contents
      /\ Len(s) \in Nat /\ Len(u) \in Nat \ {0}
  <2>1. v \in Seq(Contents) /\ e \in Contents
    BY PopLemma
  <2>2. t \in Seq(Contents) /\ Len(t) = Len(s) + 1 /\ t[Len(s) + 1] = b
    BY AppendProperties
  <2>3. Len(s) \in Nat /\ Len(u) \in Nat \ {0}
    BY LenProperties, EmptySeq
  <2> HIDE DEF t, v, e
  <2>4. t # <<>>
    BY <2>2, <2>3, EmptySeq
  <2> QED
    BY <2>1, <2>2, <2>3, <2>4
<1>2. FrontOf(t) = s /\ LastOf(t) = b
  <2>1. SubSeq(t, 1, Len(s)) = s
    <3>1. \A i \in 1 .. Len(s) : t[i] = s[i]
      BY AppendProperties
    <3>2. \A i \in 1 .. Len(s) : t[i] \in Contents
      BY <3>1, ElementOfSeq
    <3>3. /\ SubSeq(t, 1, Len(s)) \in Seq(Contents)
          /\ Len(SubSeq(t, 1, Len(s))) = IF 1 <= Len(s) THEN Len(s) - 1 + 1 ELSE 0
          /\ \A i \in 1 .. Len(s) - 1 + 1 : SubSeq(t, 1, Len(s))[i] = t[1 + i - 1]
      BY <1>1, <3>2, SubSeqProperties
    <3> DEFINE k == SubSeq(t, 1, Len(s))
    <3> HIDE DEF k, t
    <3>4. Len(k) = Len(s) /\ \A i \in 1 .. Len(s) : k[i] = s[i]
      BY <1>1, <3>1, <3>3 DEF k
    <3>5. k = s
      BY <3>3, <3>4, SeqEqual DEF k
    <3> QED
      BY <3>5 DEF k
  <2>2. Len(t) - 1 = Len(s)
    BY <1>1
  <2> QED
    BY <1>1, <2>1, <2>2 DEF FrontOf, LastOf
<1>3. Append(v, e) = u
  <2> DEFINE n == Len(u)
  <2>1. /\ Len(v) = n - 1
        /\ n \in Nat \ {0}
    BY <1>1, PopLemma
  <2>2. \A i \in 1 .. n - 1 : v[i] = u[i]
    <3>1. \A i \in 1 .. n - 1 : u[i] \in Contents
      BY <2>1, ElementOfSeq
    <3>2. \A i \in 1 .. n - 1 - 1 + 1 : SubSeq(u, 1, n - 1)[i] = u[1 + i - 1]
      BY <2>1, <3>1, SubSeqProperties
    <3>3. \A i \in 1 .. n - 1 : i \in 1 .. n - 1 - 1 + 1 /\ 1 + i - 1 = i
      BY <2>1
    <3> QED
      BY <3>2, <3>3 DEF FrontOf
  <2>3. e = u[n]
    BY DEF LastOf
  <2>4. /\ Append(v, e) \in Seq(Contents) /\ Len(Append(v, e)) = Len(v) + 1
        /\ \A i \in 1 .. Len(v) : Append(v, e)[i] = v[i]
        /\ Append(v, e)[Len(v) + 1] = e
    BY <1>1, AppendProperties
  <2> HIDE DEF n, v, e
  <2>5. Len(Append(v, e)) = n /\ \A i \in 1 .. n : Append(v, e)[i] = u[i]
    BY <2>1, <2>2, <2>3, <2>4
  <2> QED
    BY <2>4, <2>5, SeqEqual DEF n
<1>4. LineFrom(FrontOf(t), LastOf(t), Append(v, e)) = LineFrom(t, e, v)
  BY <1>1, BackLine
<1>5. LineFrom(t, e, v)[Len(t) + 1] = e
  <2>1. IsLine(LineFrom(t, e, v), t, e, v)
    BY <1>1, LineLemma
  <2> HIDE DEF t, e, v
  <2> QED
    BY <2>1 DEF IsLine
<1>6. Len(LineFrom(s, b, u)) = Len(s) + 1 + Len(u)
  BY LineLemma DEF IsLine
<1>7. Len(t) + 1 = Len(s) + 2 /\ Len(s) + 1 < Len(s) + 1 + Len(u)
  BY <1>1
<1> QED
  BY <1>2, <1>3, <1>4, <1>5, <1>6, <1>7

\* A change outside any transaction changes the base alone.
LEMMA AmendedLine ==
    ASSUME NEW s \in Seq(Contents), NEW b \in Contents, NEW u \in Seq(Contents),
           NEW c \in Contents
    PROVE  [LineFrom(s, b, u) EXCEPT ![Len(s) + 1] = c] = LineFrom(s, c, u)
<1> DEFINE m == Len(s)
           n == Len(u)
           A == [LineFrom(s, b, u) EXCEPT ![m + 1] = c]
           B == LineFrom(s, c, u)
           I == 1 .. m + 1 + n
<1>1. m \in Nat /\ n \in Nat /\ m + 1 \in I
  BY LenProperties
<1>2. LineFrom(s, b, u) =
        [i \in I |-> IF i <= m THEN s[i] ELSE IF i = m + 1 THEN b
                     ELSE u[m + 1 + n + 1 - i]]
  BY DEF LineFrom
<1>3. B = [i \in I |-> IF i <= m THEN s[i] ELSE IF i = m + 1 THEN c
                       ELSE u[m + 1 + n + 1 - i]]
  BY DEF LineFrom
<1>4. A = [i \in I |-> IF i = m + 1 THEN c
                       ELSE IF i <= m THEN s[i] ELSE IF i = m + 1 THEN b
                       ELSE u[m + 1 + n + 1 - i]]
  BY <1>2
<1>5. \A i \in I : (i = m + 1) => ~(i <= m)
  BY <1>1
<1> HIDE DEF m, n, I, B, A
<1>6. A = B
  BY <1>3, <1>4, <1>5
<1> QED
  BY <1>6 DEF A, B, m

\* What moving and amending make of a timeline.
LEMMA MoveLemma ==
    ASSUME NEW l, NEW a, NEW d, NEW i
    PROVE  Abstract!Move([line |-> l, at |-> a, draft |-> d], i)
             = [line |-> l, at |-> i, draft |-> l[i]]
BY DEF Abstract!Move

\* The state at the position is replaced, and all others stay.
LEMMA AmendLemma ==
    ASSUME NEW l, NEW a, NEW d, NEW c
    PROVE  Abstract!Amend([line |-> l, at |-> a, draft |-> d], c)
             = [line |-> [l EXCEPT ![a] = c], at |-> a, draft |-> c]
BY DEF Abstract!Amend

-----------------------------------------------------------------------------
(* The timeline of a page whose content is c, in history g.  *)

BaseIn(g, p, c) == IF IsOpenOn(g, p) THEN g.pending.before ELSE c

In(g, p, c) ==
    [line  |-> LineFrom(g.past[p], BaseIn(g, p, c), g.future[p]),
     at    |-> Len(g.past[p]) + 1,
     draft |-> c]

\* It is what the refinement reads a page as.
LEMMA TimelineIn == \A p \in Pages : TimelineOf(p) = In(h, p, content[p])
BY DEF TimelineOf, In, BaseOf, BaseIn, LineOf, LineFrom

\* The state at the position is the base, and the page is settled where it is
\* the content.
LEMMA InLemma ==
    ASSUME NEW g, Good(g), NEW p \in Pages, NEW c \in Contents
    PROVE  /\ g.past[p] \in Seq(Contents) /\ g.future[p] \in Seq(Contents)
           /\ Len(g.past[p]) \in Nat /\ Len(g.past[p]) <= UndoLimit
           /\ BaseIn(g, p, c) \in Contents
           /\ In(g, p, c).at = Len(g.past[p]) + 1
           /\ In(g, p, c).draft = c
           /\ In(g, p, c).line = LineFrom(g.past[p], BaseIn(g, p, c), g.future[p])
           /\ In(g, p, c).line[In(g, p, c).at] = BaseIn(g, p, c)
           /\ Abstract!Settled(In(g, p, c)) <=> (BaseIn(g, p, c) = c)
<1>1. /\ g.past[p] \in Seq(Contents) /\ g.future[p] \in Seq(Contents)
      /\ Len(g.past[p]) + Len(g.future[p]) <= UndoLimit
  BY DEF Good, Histories, Bounded
<1>2. Len(g.past[p]) \in Nat /\ Len(g.past[p]) <= UndoLimit
  BY <1>1, BudgetLemma, LenProperties
<1>3. BaseIn(g, p, c) \in Contents
  BY DEF Good, Histories, Txs, IsOpenOn, BaseIn
<1>4. /\ In(g, p, c).at = Len(g.past[p]) + 1
      /\ In(g, p, c).draft = c
      /\ In(g, p, c).line = LineFrom(g.past[p], BaseIn(g, p, c), g.future[p])
  BY DEF In
<1>5. In(g, p, c).line[In(g, p, c).at] = BaseIn(g, p, c)
  <2> DEFINE l == LineFrom(g.past[p], BaseIn(g, p, c), g.future[p])
  <2>1. IsLine(l, g.past[p], BaseIn(g, p, c), g.future[p])
    BY <1>1, <1>3, LineLemma
  <2>2. l[Len(g.past[p]) + 1] = BaseIn(g, p, c)
    BY <2>1 DEF IsLine
  <2> QED
    BY <1>4, <2>2
<1> QED
  BY <1>1, <1>2, <1>3, <1>4, <1>5 DEF Abstract!Settled

\* A page no transaction is about is settled.
LEMMA RestLemma ==
    ASSUME NEW g, Good(g), NEW p \in Pages, NEW c \in Contents, ~IsOpenOn(g, p)
    PROVE  /\ Abstract!Settled(In(g, p, c))
           /\ Abstract!Settle(In(g, p, c)) = In(g, p, c)
BY InLemma DEF BaseIn, Abstract!Settle

\* Settling an edit that changed something pushes the base on the past.
LEMMA SettleLemma ==
    ASSUME NEW g, Good(g), NEW p \in Pages, NEW c \in Contents,
           IsOpenOn(g, p), g.pending.before # c
    PROVE  Abstract!Settle(In(g, p, c)) =
             [line  |-> LineFrom(PushCapped(g.past[p], g.pending.before), c, <<>>),
              at    |-> Len(PushCapped(g.past[p], g.pending.before)) + 1,
              draft |-> c]
<1> DEFINE b == g.pending.before
           s == g.past[p]
           t == In(g, p, c)
           a == Append(s, b)
           line == Append(SubSeq(t.line, 1, t.at), t.draft)
<1>1. /\ s \in Seq(Contents) /\ g.future[p] \in Seq(Contents)
      /\ Len(s) \in Nat /\ Len(s) <= UndoLimit
      /\ b \in Contents /\ BaseIn(g, p, c) = b
      /\ t.at = Len(s) + 1 /\ t.draft = c
      /\ t.line = LineFrom(s, b, g.future[p])
      /\ ~Abstract!Settled(t)
  BY InLemma DEF BaseIn
<1>2. line = LineFrom(a, c, <<>>)
  <2>1. line = Append(SubSeq(LineFrom(s, b, g.future[p]), 1, Len(s) + 1), c)
    BY <1>1
  <2> HIDE DEF line, s, b, t
  <2> QED
    BY <1>1, <2>1, SettledLine DEF a
<1>3. a \in Seq(Contents) /\ Len(a) = Len(s) + 1
  BY <1>1, AppendProperties
<1>4. Len(line) = Len(s) + 2
  <2>1. Len(LineFrom(a, c, <<>>)) = Len(a) + 1
    BY <1>3, EndLine
  <2> HIDE DEF line, a, s
  <2> QED
    BY <1>1, <1>2, <1>3, <2>1
<1>5. Abstract!Settle(t) =
        LET kept == IF Len(line) > UndoLimit + 1 THEN Tail(line) ELSE line
        IN  [line |-> kept, at |-> Len(kept), draft |-> c]
  BY <1>1 DEF Abstract!Settle
<1>6. PushCapped(s, b) = IF Len(a) > UndoLimit THEN Tail(a) ELSE a
  BY DEF PushCapped
<1> HIDE DEF line, a, s, b, t
<1>7. CASE Len(s) = UndoLimit
  <2>1. a # <<>>
    BY <1>1, <1>3, EmptySeq
  <2>2. /\ Tail(line) = LineFrom(Tail(a), c, <<>>)
        /\ Tail(a) \in Seq(Contents)
    BY <1>1, <1>2, <1>3, <2>1, TailLine, HeadTailProperties
  <2>3. Len(LineFrom(Tail(a), c, <<>>)) = Len(Tail(a)) + 1
    BY <2>2, EndLine
  <2>4. Len(line) > UndoLimit + 1 /\ Len(a) > UndoLimit
    BY <1>1, <1>3, <1>4, <1>7
  <2> QED
    BY <1>5, <1>6, <2>2, <2>3, <2>4 DEF t, s, b
<1>8. CASE Len(s) # UndoLimit
  <2>1. ~(Len(line) > UndoLimit + 1) /\ ~(Len(a) > UndoLimit)
    BY <1>1, <1>3, <1>4, <1>8, UndoLimitAssumption
  <2>2. Len(line) = Len(a) + 1
    BY <1>1, <1>3, <1>4
  <2> QED
    BY <1>2, <1>5, <1>6, <2>1, <2>2 DEF t, s, b
<1> QED
  BY <1>7, <1>8

\* Sealing settles: the page it is called with always, and any other page if
\* the transaction changed it.
LEMMA SealIn ==
    ASSUME NEW g, Good(g), NEW p \in Pages, NEW now \in Contents,
           NEW r \in Pages, NEW c \in Contents,
           r = p => c = now,
           IsOpenOn(g, r) /\ r # p => g.pending.before # c
    PROVE  In(Seal(g, p, now), r, c) = Abstract!Settle(In(g, r, c))
<1> DEFINE s == Seal(g, p, now)
           q == g.pending.page
           b == g.pending.before
<1>1. /\ g \in Histories
      /\ g.past \in [Pages -> Seq(Contents)]
      /\ g.future \in [Pages -> Seq(Contents)]
  BY DEF Good, Histories
<1>2. CASE ~IsOpenOn(g, r)
  <2>1. Abstract!Settle(In(g, r, c)) = In(g, r, c)
    BY <1>2, RestLemma
  <2>2. s.past[r] = g.past[r] /\ s.future[r] = g.future[r]
    <3>1. CASE g.pending = NoTx
      BY <3>1 DEF Seal
    <3>2. CASE g.pending # NoTx
      <4>1. q # r
        BY <1>2, <3>2 DEF IsOpenOn
      <4> QED
        BY <1>1, <3>2, <4>1 DEF Seal, Histories
    <3> QED
      BY <3>1, <3>2
  <2>3. s.pending = NoTx
    BY SealLemma
  <2> QED
    BY <1>2, <2>1, <2>2, <2>3 DEF In, BaseIn, IsOpenOn
<1>3. CASE IsOpenOn(g, r) /\ b = c
  <2>1. r = p /\ c = now /\ q = r /\ g.pending # NoTx
    BY <1>3 DEF IsOpenOn
  <2>2. s = [g EXCEPT !.pending = NoTx]
    BY <1>3, <2>1 DEF Seal, ChangedNothing
  <2>3. s.past = g.past /\ s.future = g.future /\ s.pending = NoTx
    BY <1>1, <2>2 DEF Histories
  <2>4. Abstract!Settle(In(g, r, c)) = In(g, r, c)
    BY <1>3, InLemma DEF BaseIn, Abstract!Settle
  <2> QED
    BY <1>3, <2>3, <2>4 DEF In, BaseIn, IsOpenOn
<1>4. CASE IsOpenOn(g, r) /\ b # c
  <2>1. q = r /\ g.pending # NoTx /\ ~ChangedNothing(g, p, now)
    BY <1>4 DEF IsOpenOn, ChangedNothing
  <2>2. s = [past    |-> [g.past EXCEPT ![r] = PushCapped(g.past[r], b)],
             future  |-> [g.future EXCEPT ![r] = <<>>],
             pending |-> NoTx]
    BY <2>1 DEF Seal
  <2>3. /\ s.past[r] = PushCapped(g.past[r], b)
        /\ s.future[r] = <<>>
        /\ s.pending = NoTx
    BY <1>1, <2>2
  <2>4. Abstract!Settle(In(g, r, c)) =
          [line  |-> LineFrom(PushCapped(g.past[r], b), c, <<>>),
           at    |-> Len(PushCapped(g.past[r], b)) + 1,
           draft |-> c]
    BY <1>4, SettleLemma
  <2>5. BaseIn(s, r, c) = c
    BY <2>3 DEF BaseIn, IsOpenOn
  <2> QED
    BY <2>3, <2>4, <2>5 DEF In
<1> QED
  BY <1>2, <1>3, <1>4

\* A new transaction on page p settles what was under way, and starts to write.
\* Every other page is settled then.
LEMMA OpenIn ==
    ASSUME NEW g, Good(g), NEW p \in Pages, NEW now \in Contents,
           NEW kind \in Kinds, NEW o,
           o = [Seal(g, p, now) EXCEPT
                   !.pending = [page |-> p, kind |-> kind, before |-> now]]
    PROVE  /\ \A c \in Contents :
                 In(o, p, c) = Abstract!Write(Abstract!Settle(In(g, p, now)), c)
           /\ \A r \in Pages \ {p}, c \in Contents :
                 (IsOpenOn(g, r) => g.pending.before # c) =>
                    /\ ~IsOpenOn(o, r)
                    /\ In(o, r, c) = Abstract!Settle(In(g, r, c))
<1> DEFINE s  == Seal(g, p, now)
           tx == [page |-> p, kind |-> kind, before |-> now]
<1>1. Good(s) /\ s.pending = NoTx
  BY SealLemma
<1>2. o.past = s.past /\ o.future = s.future /\ o.pending = tx
  BY <1>1 DEF Good, Histories
<1>3. IsOpenOn(o, p) /\ o.pending.before = now /\ o.pending.page = p
  <2>1. tx \in Txs
    BY DEF Txs
  <2> QED
    BY <1>2, <2>1, NoTxAssumption DEF IsOpenOn
<1>4. ASSUME NEW c \in Contents
      PROVE  In(o, p, c) = Abstract!Write(Abstract!Settle(In(g, p, now)), c)
  <2>1. In(s, p, now) = Abstract!Settle(In(g, p, now))
    BY SealIn
  <2>2. In(s, p, now) = [line  |-> LineFrom(s.past[p], now, s.future[p]),
                         at    |-> Len(s.past[p]) + 1,
                         draft |-> now]
    BY <1>1 DEF In, BaseIn, IsOpenOn
  <2>3. In(o, p, c) = [line  |-> LineFrom(s.past[p], now, s.future[p]),
                       at    |-> Len(s.past[p]) + 1,
                       draft |-> c]
    BY <1>2, <1>3 DEF In, BaseIn
  <2> QED
    BY <2>1, <2>2, <2>3 DEF Abstract!Write
<1>5. ASSUME NEW r \in Pages \ {p}, NEW c \in Contents,
             IsOpenOn(g, r) => g.pending.before # c
      PROVE  ~IsOpenOn(o, r) /\ In(o, r, c) = Abstract!Settle(In(g, r, c))
  <2>1. ~IsOpenOn(o, r)
    BY <1>3 DEF IsOpenOn
  <2>2. In(s, r, c) = Abstract!Settle(In(g, r, c))
    BY <1>5, SealIn
  <2>3. ~IsOpenOn(s, r)
    BY <1>1 DEF IsOpenOn
  <2> QED
    BY <1>2, <2>1, <2>2, <2>3 DEF In, BaseIn
<1> QED
  BY <1>4, <1>5

\* Recording an edit of page p goes on with the edit under way, or opens one.
LEMMA RecordIn ==
    ASSUME NEW g, Good(g), NEW p \in Pages, NEW now \in Contents,
           NEW kind \in Kinds, NEW within, NEW c \in Contents
    PROVE  LET o == Record(g, p, now, kind, within)
           IN  /\ \/ In(o, p, c) = Abstract!Write(In(g, p, now), c)
                  \/ In(o, p, c) = Abstract!Write(Abstract!Settle(In(g, p, now)), c)
               /\ \A r \in Pages \ {p}, d \in Contents :
                     ~IsOpenOn(g, r) => In(o, r, d) = In(g, r, d)
<1> DEFINE o == Record(g, p, now, kind, within)
<1>1. CASE Continues(g, p, kind, within)
  BY <1>1 DEF Record, Continues, In, BaseIn, Abstract!Write
<1>2. CASE ~Continues(g, p, kind, within)
  <2>1. o = [Seal(g, p, now) EXCEPT
                !.pending = [page |-> p, kind |-> kind, before |-> now]]
    BY <1>2 DEF Record
  <2> HIDE DEF o
  <2>2. In(o, p, c) = Abstract!Write(Abstract!Settle(In(g, p, now)), c)
    BY <2>1, OpenIn
  <2>3. ASSUME NEW r \in Pages \ {p}, NEW d \in Contents, ~IsOpenOn(g, r)
        PROVE  In(o, r, d) = In(g, r, d)
    BY <2>1, <2>3, OpenIn, RestLemma
  <2> QED
    BY <2>2, <2>3 DEF o
<1> QED
  BY <1>1, <1>2

\* Undo settles, then moves back if there is a state to move to.
LEMMA BackIn ==
    ASSUME NEW g, Good(g), NEW p \in Pages, NEW now \in Contents
    PROVE  /\ CanStepBack(g, p, now) =>
                In(StepBack(g, p, now), p, Undone(g, p, now))
                  = Abstract!Back(In(g, p, now))
           /\ ~CanStepBack(g, p, now) =>
                In(StepBack(g, p, now), p, now) = Abstract!Back(In(g, p, now))
<1> DEFINE s == Seal(g, p, now)
           k == StepBack(g, p, now)
           t == In(s, p, now)
<1>1. t = Abstract!Settle(In(g, p, now))
  BY SealIn
<1>2. Good(s) /\ s.pending = NoTx
  BY SealLemma
<1>3. /\ s.past[p] \in Seq(Contents) /\ s.future[p] \in Seq(Contents)
      /\ t.at = Len(s.past[p]) + 1 /\ Len(s.past[p]) \in Nat
      /\ t.draft = now
      /\ t.line = LineFrom(s.past[p], now, s.future[p])
  BY <1>2, InLemma DEF BaseIn, IsOpenOn
<1>4. CASE s.past[p] = <<>>
  <2>1. k = s /\ ~CanStepBack(g, p, now)
    BY <1>4 DEF StepBack, CanStepBack
  <2>2. t.at = 1
    BY <1>3, <1>4
  <2>3. Abstract!Back(In(g, p, now)) = t
    BY <1>1, <2>2 DEF Abstract!Back
  <2> QED
    BY <2>1, <2>3
<1>5. CASE s.past[p] # <<>>
  <2> DEFINE c == LastOf(s.past[p])
  <2>1. /\ s.past \in [Pages -> Seq(Contents)]
        /\ s.future \in [Pages -> Seq(Contents)]
    BY <1>2 DEF Good, Histories
  <2>2. k = [past    |-> [s.past EXCEPT ![p] = FrontOf(s.past[p])],
             future  |-> [s.future EXCEPT ![p] = Append(s.future[p], now)],
             pending |-> NoTx]
    BY <1>5 DEF StepBack
  <2>3. /\ k.past[p] = FrontOf(s.past[p])
        /\ k.future[p] = Append(s.future[p], now)
        /\ ~IsOpenOn(k, p)
    BY <2>1, <2>2 DEF IsOpenOn
  <2>4. /\ CanStepBack(g, p, now) /\ Undone(g, p, now) = c
    BY <1>5 DEF CanStepBack, Undone
  <2>5. /\ LineFrom(FrontOf(s.past[p]), c, Append(s.future[p], now)) = t.line
        /\ t.line[Len(s.past[p])] = c
    BY <1>3, <1>5, BackLine
  <2>6. Len(FrontOf(s.past[p])) = Len(s.past[p]) - 1
    BY <1>3, <1>5, PopLemma
  <2>7. Len(s.past[p]) # 0
    BY <1>3, <1>5, EmptySeq
  <2>8. In(k, p, c) = [line |-> t.line, at |-> Len(s.past[p]), draft |-> c]
    <3>1. In(k, p, c) = [line  |-> t.line,
                         at    |-> Len(FrontOf(s.past[p])) + 1,
                         draft |-> c]
      BY <2>3, <2>5 DEF In, BaseIn
    <3>2. Len(FrontOf(s.past[p])) + 1 = Len(s.past[p])
      BY <1>3, <2>6
    <3> QED
      BY <3>1, <3>2
  <2>9. Abstract!Back(In(g, p, now)) =
          [line |-> t.line, at |-> Len(s.past[p]), draft |-> c]
    <3>1. t.at # 1 /\ t.at - 1 = Len(s.past[p])
      BY <1>3, <2>7
    <3>2. Abstract!Back(In(g, p, now)) = Abstract!Move(t, t.at - 1)
      BY <1>1, <3>1 DEF Abstract!Back
    <3>3. t = [line |-> t.line, at |-> t.at, draft |-> t.draft]
      BY DEF In
    <3>4. Abstract!Move(t, t.at - 1)
            = [line |-> t.line, at |-> t.at - 1, draft |-> t.line[t.at - 1]]
      BY <3>3, MoveLemma
    <3> QED
      BY <2>5, <3>1, <3>2, <3>4
  <2> QED
    BY <2>4, <2>8, <2>9
<1> QED
  BY <1>4, <1>5

\* The other pages do not notice.
LEMMA BackElsewhere ==
    ASSUME NEW g, Good(g), NEW p \in Pages, NEW now \in Contents,
           NEW r \in Pages, r # p, NEW c \in Contents, ~IsOpenOn(g, r)
    PROVE  In(StepBack(g, p, now), r, c) = In(g, r, c)
<1> DEFINE s == Seal(g, p, now)
           k == StepBack(g, p, now)
<1>1. In(s, r, c) = In(g, r, c)
  BY SealIn, RestLemma
<1>2. Good(s) /\ s.pending = NoTx
  BY SealLemma
<1>3. k.past[r] = s.past[r] /\ k.future[r] = s.future[r] /\ k.pending = NoTx
  BY <1>2 DEF StepBack, Good, Histories
<1> QED
  BY <1>1, <1>2, <1>3 DEF In, BaseIn, IsOpenOn

\* With nothing under way redo moves forth.
LEMMA ForthIn ==
    ASSUME NEW g, Good(g), NEW p \in Pages, NEW now \in Contents,
           CanStepForward(g, p), ~IsOpenOn(g, p)
    PROVE  /\ In(StepForward(g, p, now), p, Redone(g, p))
                = Abstract!Forth(In(g, p, now))
           /\ In(g, p, now).at < Len(In(g, p, now).line)
           /\ \A r \in Pages \ {p}, c \in Contents :
                 In(StepForward(g, p, now), r, c) = In(g, r, c)
<1> DEFINE k == StepForward(g, p, now)
           t == In(g, p, now)
           c == Redone(g, p)
<1>1. /\ g.past \in [Pages -> Seq(Contents)]
      /\ g.future \in [Pages -> Seq(Contents)]
      /\ g.future[p] # <<>>
  BY DEF Good, Histories, CanStepForward
<1>2. k = [past    |-> [g.past EXCEPT ![p] = Append(g.past[p], now)],
           future  |-> [g.future EXCEPT ![p] = FrontOf(g.future[p])],
           pending |-> g.pending]
  BY DEF StepForward
<1>3. /\ k.past[p] = Append(g.past[p], now)
      /\ k.future[p] = FrontOf(g.future[p])
      /\ ~IsOpenOn(k, p)
  BY <1>1, <1>2 DEF IsOpenOn
<1>4. /\ g.past[p] \in Seq(Contents) /\ g.future[p] \in Seq(Contents)
      /\ t.at = Len(g.past[p]) + 1 /\ Len(g.past[p]) \in Nat
      /\ t.draft = now
      /\ t.line = LineFrom(g.past[p], now, g.future[p])
  BY InLemma DEF BaseIn
<1>5. /\ LineFrom(Append(g.past[p], now), c, FrontOf(g.future[p])) = t.line
      /\ t.line[Len(g.past[p]) + 2] = c
      /\ Len(g.past[p]) + 1 < Len(t.line)
  <2> DEFINE a == g.past[p]
             f == g.future[p]
  <2>1. a \in Seq(Contents) /\ f \in Seq(Contents) /\ f # <<>>
    BY <1>1, <1>4
  <2>2. c = LastOf(f) /\ t.line = LineFrom(a, now, f)
    BY <1>4 DEF Redone
  <2> HIDE DEF a, f, c, t
  <2>3. /\ LineFrom(Append(a, now), LastOf(f), FrontOf(f)) = LineFrom(a, now, f)
        /\ LineFrom(a, now, f)[Len(a) + 2] = LastOf(f)
        /\ Len(a) + 1 < Len(LineFrom(a, now, f))
    BY <2>1, ForthLine
  <2> QED
    BY <2>2, <2>3 DEF a, f
<1>6. Len(Append(g.past[p], now)) = Len(g.past[p]) + 1
  BY <1>4, AppendProperties
<1>7. In(k, p, c) = [line |-> t.line, at |-> Len(g.past[p]) + 2, draft |-> c]
  <2>1. In(k, p, c) = [line  |-> t.line,
                       at    |-> Len(Append(g.past[p], now)) + 1,
                       draft |-> c]
    BY <1>3, <1>5 DEF In, BaseIn
  <2>2. Len(Append(g.past[p], now)) + 1 = Len(g.past[p]) + 2
    BY <1>4, <1>6
  <2> QED
    BY <2>1, <2>2
<1>8. Abstract!Forth(t) = [line |-> t.line, at |-> Len(g.past[p]) + 2, draft |-> c]
  <2>1. t.at + 1 = Len(g.past[p]) + 2
    BY <1>4
  <2>2. t = [line |-> t.line, at |-> t.at, draft |-> t.draft]
    BY DEF In
  <2>3. Abstract!Move(t, t.at + 1)
          = [line |-> t.line, at |-> t.at + 1, draft |-> t.line[t.at + 1]]
    BY <2>2, MoveLemma
  <2> QED
    BY <1>5, <2>1, <2>3 DEF Abstract!Forth
<1>9. ASSUME NEW r \in Pages \ {p}, NEW d \in Contents
      PROVE  In(k, r, d) = In(g, r, d)
  <2>1. k.past[r] = g.past[r] /\ k.future[r] = g.future[r]
        /\ k.pending = g.pending
    BY <1>1, <1>2
  <2> QED
    BY <2>1 DEF In, BaseIn, IsOpenOn
<1> QED
  BY <1>4, <1>5, <1>7, <1>8, <1>9

\* A change no transaction was opened for.
LEMMA GrowIn ==
    ASSUME NEW g, Good(g), NEW p \in Pages, NEW now \in Contents,
           NEW c \in Contents
    PROVE  \/ In(g, p, c) = Abstract!Write(In(g, p, now), c)
           \/ /\ Abstract!Settled(In(g, p, now))
              /\ In(g, p, c) = Abstract!Amend(In(g, p, now), c)
<1>1. CASE IsOpenOn(g, p)
  BY <1>1 DEF In, BaseIn, Abstract!Write
<1>2. CASE ~IsOpenOn(g, p)
  <2>1. Abstract!Settled(In(g, p, now))
    BY <1>2, RestLemma
  <2>2. /\ In(g, p, now) = [line  |-> LineFrom(g.past[p], now, g.future[p]),
                            at    |-> Len(g.past[p]) + 1,
                            draft |-> now]
        /\ In(g, p, c) = [line  |-> LineFrom(g.past[p], c, g.future[p]),
                          at    |-> Len(g.past[p]) + 1,
                          draft |-> c]
    BY <1>2 DEF In, BaseIn
  <2>3. g.past[p] \in Seq(Contents) /\ g.future[p] \in Seq(Contents)
    BY InLemma
  <2>4. [LineFrom(g.past[p], now, g.future[p]) EXCEPT ![Len(g.past[p]) + 1] = c]
           = LineFrom(g.past[p], c, g.future[p])
    BY <2>3, AmendedLine
  <2> QED
    BY <2>1, <2>2, <2>4, AmendLemma
<1> QED
  BY <1>1, <1>2

\* Discarding the transaction with the page put back as it was before it.
LEMMA DiscardIn ==
    ASSUME NEW g, Good(g), NEW p \in Pages, NEW now \in Contents,
           IsOpenOn(g, p)
    PROVE  In(Discard(g), p, g.pending.before) = Abstract!Abandon(In(g, p, now))
<1> DEFINE b == g.pending.before
           t == In(g, p, now)
<1>1. /\ Discard(g).past = g.past /\ Discard(g).future = g.future
      /\ Discard(g).pending = NoTx
  BY DEF Discard, Good, Histories
<1>2. t = [line  |-> LineFrom(g.past[p], b, g.future[p]),
           at    |-> Len(g.past[p]) + 1,
           draft |-> now]
  BY DEF In, BaseIn
<1>3. t.line[t.at] = b
  BY InLemma DEF BaseIn
<1>4. In(Discard(g), p, b) = [line  |-> LineFrom(g.past[p], b, g.future[p]),
                              at    |-> Len(g.past[p]) + 1,
                              draft |-> b]
  BY <1>1 DEF In, BaseIn, IsOpenOn
<1> HIDE DEF t, b
<1> QED
  BY <1>2, <1>3, <1>4, MoveLemma DEF Abstract!Abandon, t, b

\* An edit outside the coalescing window opens its own transaction.
LEMMA OpenedIn ==
    ASSUME NEW g, Good(g), NEW p \in Pages, NEW now \in Contents
    PROVE  LET o == Record(g, p, now, Structure, FALSE)
           IN  /\ Good(o)
               /\ \A c \in Contents :
                     In(o, p, c) = Abstract!Write(Abstract!Settle(In(g, p, now)), c)
               /\ \A r \in Pages \ {p}, c \in Contents :
                     (IsOpenOn(g, r) => g.pending.before # c) =>
                        /\ ~IsOpenOn(o, r)
                        /\ In(o, r, c) = Abstract!Settle(In(g, r, c))
<1> DEFINE o == Record(g, p, now, Structure, FALSE)
<1>1. Structure \in Kinds
  BY DEF Kinds
<1>2. Good(o)
  BY <1>1, RecordLemma
<1>3. o = [Seal(g, p, now) EXCEPT
              !.pending = [page |-> p, kind |-> Structure, before |-> now]]
  BY DEF Record, Continues
<1> HIDE DEF o
<1>4. /\ \A c \in Contents :
            In(o, p, c) = Abstract!Write(Abstract!Settle(In(g, p, now)), c)
      /\ \A r \in Pages \ {p}, c \in Contents :
            (IsOpenOn(g, r) => g.pending.before # c) =>
               /\ ~IsOpenOn(o, r)
               /\ In(o, r, c) = Abstract!Settle(In(g, r, c))
  BY <1>1, <1>3, OpenIn
<1> QED
  BY <1>2, <1>4 DEF o

\* On page p an edit with content c was made and sealed, in history k.
WroteOne(g, p, now, c, k) ==
    /\ In(k, p, c)
         = Abstract!Settle(Abstract!Write(Abstract!Settle(In(g, p, now)), c))
    /\ \A r \in Pages \ {p}, d \in Contents :
          (IsOpenOn(g, r) => g.pending.before # d)
             => In(k, r, d) = Abstract!Settle(In(g, r, d))

\* An edit that is sealed at once.
LEMMA SealedIn ==
    ASSUME NEW g, Good(g), NEW p \in Pages, NEW now \in Contents,
           NEW c \in Contents
    PROVE  WroteOne(g, p, now, c,
                    Seal(Record(g, p, now, Structure, FALSE), p, c))
<1> DEFINE o == Record(g, p, now, Structure, FALSE)
<1>1. /\ Good(o)
      /\ In(o, p, c) = Abstract!Write(Abstract!Settle(In(g, p, now)), c)
      /\ \A r \in Pages \ {p}, d \in Contents :
            (IsOpenOn(g, r) => g.pending.before # d) =>
               /\ ~IsOpenOn(o, r)
               /\ In(o, r, d) = Abstract!Settle(In(g, r, d))
  BY OpenedIn
<1> HIDE DEF o
<1>2. In(Seal(o, p, c), p, c) = Abstract!Settle(In(o, p, c))
  BY <1>1, SealIn
<1>3. ASSUME NEW r \in Pages \ {p}, NEW d \in Contents,
             IsOpenOn(g, r) => g.pending.before # d
      PROVE  In(Seal(o, p, c), r, d) = Abstract!Settle(In(g, r, d))
  <2>1. ~IsOpenOn(o, r) /\ In(o, r, d) = Abstract!Settle(In(g, r, d))
    BY <1>1, <1>3
  <2>2. In(Seal(o, p, c), r, d) = Abstract!Settle(In(o, r, d))
    BY <1>1, <2>1, SealIn
  <2>3. Abstract!Settle(In(o, r, d)) = In(o, r, d)
    BY <1>1, <2>1, RestLemma
  <2> QED
    BY <2>1, <2>2, <2>3
<1> QED
  BY <1>1, <1>2, <1>3 DEF o, WroteOne

-----------------------------------------------------------------------------
(* The steps.  *)

\* What UndoTimeline lets happen to the page that is worked on.
Moves(t, t2) ==
    \/ t2 = Abstract!Settle(t)
    \/ \E c \in Contents :
          \/ t2 = Abstract!Write(t, c)
          \/ t2 = Abstract!Write(Abstract!Settle(t), c)
          \/ t2 = Abstract!Settle(Abstract!Write(Abstract!Settle(t), c))
          \/ Abstract!Settled(t) /\ t2 = Abstract!Amend(t, c)
    \/ t2 = Abstract!Abandon(t)
    \/ t2 = Abstract!Back(t)
    \/ /\ Abstract!Settled(t)
       /\ t.at < Len(t.line)
       /\ t2 = Abstract!Forth(t)

\* The timelines of the document, before and after a step.
LEMMA TimelinesLemma ==
    /\ DOMAIN Timelines = {q \in Pages : content[q] # Gone}
    /\ \A p \in Pages : content[p] # Gone => Timelines[p] = In(h, p, content[p])
    /\ DOMAIN Timelines' = {q \in Pages : content'[q] # Gone}
    /\ \A p \in Pages : content'[p] # Gone => Timelines'[p] = In(h', p, content'[p])
<1>1. \A p \in Pages : TimelineOf(p) = In(h, p, content[p])
  BY TimelineIn
<1>2. \A p \in Pages : TimelineOf(p)' = In(h', p, content'[p])
  BY DEF TimelineOf, In, BaseOf, BaseIn, LineOf, LineFrom
<1> QED
  BY <1>1, <1>2 DEF Timelines, Lives

\* A step of one page: every other page is at rest.
LEMMA StepLemma ==
    ASSUME NEW p \in Pages, content[p] # Gone,
           \A r \in Pages : content'[r] = Gone <=> content[r] = Gone,
           Moves(In(h, p, content[p]), In(h', p, content'[p])),
           \A r \in Pages \ {p} : content[r] # Gone =>
              In(h', r, content'[r]) \in
                {In(h, r, content[r]), Abstract!Settle(In(h, r, content[r]))}
    PROVE  Abstract!Step
<1>1. DOMAIN Timelines' = DOMAIN Timelines /\ p \in DOMAIN Timelines
  BY TimelinesLemma
<1>2. Abstract!PageStep(p)
  <2>1. /\ Timelines[p] = In(h, p, content[p])
        /\ Timelines'[p] = In(h', p, content'[p])
    BY TimelinesLemma
  <2>2. Moves(Timelines[p], Timelines'[p])
    BY <2>1
  <2> QED
    BY <2>2 DEF Moves, Abstract!PageStep
<1>3. \A r \in DOMAIN Timelines \ {p} : Abstract!Rests(r)
  BY TimelinesLemma DEF Abstract!Rests
<1> QED
  BY <1>1, <1>2, <1>3 DEF Abstract!Step

\* While a page lives that is not on screen, no transaction is about it.
LEMMA ElsewhereRests ==
    ASSUME IInv, NEW r \in Pages, r # active, content[r] # Gone
    PROVE  /\ ~IsOpenOn(h, r)
           /\ content[r] \in Contents
           /\ Abstract!Settle(In(h, r, content[r])) = In(h, r, content[r])
<1>1. ~IsOpenOn(h, r)
  BY DEF IInv, PendingIsHere, IsOpenOn, Lives
<1>2. content[r] \in Contents /\ Good(h)
  BY IInvGood DEF IInv, TypeOK
<1> QED
  BY <1>1, <1>2, RestLemma

\* A step of the page on screen.
LEMMA ActiveStepLemma ==
    ASSUME IInv, NEW c \in Contents, SetPage(active, c),
           Moves(In(h, active, Here), In(h', active, c)),
           \A r \in Pages \ {active} : content[r] # Gone =>
              In(h', r, content[r]) = In(h, r, content[r])
    PROVE  Abstract!Step
<1>1. /\ content \in [Pages -> Contents \cup {Gone}]
      /\ active \in Pages
      /\ content' = [content EXCEPT ![active] = c]
      /\ content[active] # Gone
  BY DEF IInv, TypeOK, ActivePageLives, Lives, SetPage
<1>2. /\ content'[active] = c /\ c # Gone
      /\ \A r \in Pages \ {active} : content'[r] = content[r]
  BY <1>1, ContentsLemma
<1>3. \A r \in Pages : content'[r] = Gone <=> content[r] = Gone
  BY <1>1, <1>2
<1> QED
  BY <1>1, <1>2, <1>3, StepLemma DEF Here

\* A page step that opens no transaction of its own but seals what it did.
LEMMA SealedStep ==
    ASSUME IInv, NEW c \in Contents, SetPage(active, c),
           h' = Seal(Record(h, active, Here, Structure, FALSE), active, c)
    PROVE  Abstract!Step
<1>1. Good(h) /\ Here \in Contents /\ active \in Pages
  BY IInvGood
<1>2. WroteOne(h, active, Here, c, h')
  BY <1>1, SealedIn
<1>3. Moves(In(h, active, Here), In(h', active, c))
  BY <1>2 DEF Moves, WroteOne
<1>4. \A r \in Pages \ {active} : content[r] # Gone =>
         In(h', r, content[r]) = In(h, r, content[r])
  BY <1>2, ElsewhereRests DEF WroteOne
<1> QED
  BY <1>3, <1>4, ActiveStepLemma

\* A page step that opens a transaction and leaves it open.
LEMMA OpenedStep ==
    ASSUME IInv, NEW c \in Contents, SetPage(active, c),
           h' = Record(h, active, Here, Structure, FALSE)
    PROVE  Abstract!Step
<1>1. Good(h) /\ Here \in Contents /\ active \in Pages
  BY IInvGood
<1>2. /\ In(h', active, c)
           = Abstract!Write(Abstract!Settle(In(h, active, Here)), c)
      /\ \A r \in Pages \ {active}, d \in Contents :
            (IsOpenOn(h, r) => h.pending.before # d)
               => In(h', r, d) = Abstract!Settle(In(h, r, d))
  BY <1>1, OpenedIn
<1>3. Moves(In(h, active, Here), In(h', active, c))
  BY <1>2 DEF Moves
<1>4. \A r \in Pages \ {active} : content[r] # Gone =>
         In(h', r, content[r]) = In(h, r, content[r])
  BY <1>2, ElsewhereRests
<1> QED
  BY <1>3, <1>4, ActiveStepLemma

\* A page step outside any transaction.
LEMMA GrowStep ==
    ASSUME IInv, NEW c \in Contents, SetPage(active, c), h' = h
    PROVE  Abstract!Step
<1>1. Good(h) /\ Here \in Contents /\ active \in Pages
  BY IInvGood
<1>2. Moves(In(h, active, Here), In(h', active, c))
  BY <1>1, GrowIn DEF Moves
<1>3. \A r \in Pages \ {active} : content[r] # Gone =>
         In(h', r, content[r]) = In(h, r, content[r])
  OBVIOUS
<1> QED
  BY <1>2, <1>3, ActiveStepLemma

\* A checkpoint.
LEMMA SealStep ==
    ASSUME IInv, h' = Seal(h, active, Here), content' = content
    PROVE  Abstract!Step
<1>1. Good(h) /\ Here \in Contents /\ active \in Pages
  BY IInvGood
<1>2. SetPage(active, Here)
  BY DEF SetPage, Here, IInv, TypeOK
<1>3. In(h', active, Here) = Abstract!Settle(In(h, active, Here))
  BY <1>1, SealIn
<1>4. Moves(In(h, active, Here), In(h', active, Here))
  BY <1>3 DEF Moves
<1>5. ASSUME NEW r \in Pages \ {active}, content[r] # Gone
      PROVE  In(h', r, content[r]) = In(h, r, content[r])
  BY <1>1, <1>5, ElsewhereRests, SealIn
<1> QED
  BY <1>1, <1>2, <1>4, <1>5, ActiveStepLemma

\* Every step of the calm history is a step of the timelines, or none.
LEMMA NextTimeline == IInv /\ [CalmNext]_vars => [Abstract!Next]_Timelines
<1> SUFFICES ASSUME IInv, [CalmNext]_vars
             PROVE  Abstract!Next \/ Timelines' = Timelines
  OBVIOUS
<1>0. /\ Good(h) /\ Here \in Contents /\ active \in Pages
      /\ content \in [Pages -> Contents \cup {Gone}]
      /\ content[active] # Gone
  BY IInvGood DEF IInv, TypeOK, ActivePageLives, Lives
<1>a. Abstract!Step => Abstract!Next
  BY DEF Abstract!Next
<1>b. CASE content' = content /\ h' = h
  <2>1. \A p \in Pages : TimelineOf(p)' = TimelineOf(p)
    BY <1>b DEF TimelineOf, LineOf, BaseOf
  <2>2. {q \in Pages : Lives(q)}' = {q \in Pages : Lives(q)}
    BY <1>b DEF Lives
  <2> QED
    BY <2>1, <2>2 DEF Timelines
<1>1. ASSUME NEW n \in Nodes, NEW v \in Versions, NEW kind \in Kinds,
             NEW within \in BOOLEAN, Edit(n, v, kind, within)
      PROVE  Abstract!Step
  <2> DEFINE c == Put(Here, n, v)
  <2>1. c \in Contents
    BY <1>0, ContentsLemma
  <2>2. h' = Record(h, active, Here, kind, within) /\ SetPage(active, c)
    BY <1>1 DEF Edit
  <2> HIDE DEF c
  <2>3. /\ \/ In(h', active, c) = Abstract!Write(In(h, active, Here), c)
           \/ In(h', active, c)
                = Abstract!Write(Abstract!Settle(In(h, active, Here)), c)
        /\ \A r \in Pages \ {active}, d \in Contents :
              ~IsOpenOn(h, r) => In(h', r, d) = In(h, r, d)
    BY <1>0, <2>1, <2>2, RecordIn
  <2>4. Moves(In(h, active, Here), In(h', active, c))
    BY <2>1, <2>3 DEF Moves
  <2>5. \A r \in Pages \ {active} : content[r] # Gone =>
           In(h', r, content[r]) = In(h, r, content[r])
    BY <2>3, ElsewhereRests
  <2> QED
    BY <2>1, <2>2, <2>4, <2>5, ActiveStepLemma
<1>2. ASSUME NEW n \in Nodes, NEW v \in Versions, Grow(n, v)
      PROVE  Abstract!Step
  <2>1. Put(Here, n, v) \in Contents
    BY <1>0, ContentsLemma
  <2> QED
    BY <1>2, <2>1, GrowStep DEF Grow
<1>3. ASSUME NEW n \in Nodes, NEW v \in Versions, AddNode(n, v)
      PROVE  Abstract!Step
  <2>1. Put(Here, n, v) \in Contents
    BY <1>0, ContentsLemma
  <2> QED
    BY <1>3, <2>1, SealedStep DEF AddNode
<1>4. ASSUME NEW n \in Nodes, NEW v \in Versions, PlaceNode(n, v)
      PROVE  Abstract!Step
  <2>1. Put(Here, n, v) \in Contents
    BY <1>0, ContentsLemma
  <2> QED
    BY <1>4, <2>1, OpenedStep DEF PlaceNode
<1>5. ASSUME NEW v \in Versions, ResizePlacement(v)
      PROVE  Abstract!Step
  <2>1. placement \in Nodes
    <3>1. PICK D \in SUBSET Nodes : Here \in [D -> Versions]
      BY <1>0 DEF Contents
    <3> QED
      BY <1>5, <3>1 DEF ResizePlacement
  <2>2. Put(Here, placement, v) \in Contents
    BY <1>0, <2>1, ContentsLemma
  <2> QED
    BY <1>5, <2>2, GrowStep DEF ResizePlacement
<1>6. ASSUME NEW S \in SUBSET Nodes, DeleteSelection(S)
      PROVE  Abstract!Step
  <2>1. Without(Here, S) \in Contents
    BY <1>0, ContentsLemma
  <2>2. CASE S = {}
    BY <1>6, <2>1, <2>2, OpenedStep DEF DeleteSelection
  <2>3. CASE S # {}
    BY <1>6, <2>1, <2>3, SealedStep DEF DeleteSelection
  <2> QED
    BY <2>2, <2>3
<1>7. ASSUME NEW c \in Contents, RestorePage(c)
      PROVE  Abstract!Step
  BY <1>7, SealedStep DEF RestorePage
<1>8. CASE Checkpoint
  BY <1>a, <1>8, SealStep DEF Checkpoint
<1>9. CASE Undo
  <2>1. h' = StepBack(h, active, Here)
    BY <1>9 DEF Undo
  <2>2. PICK c \in Contents : /\ SetPage(active, c)
                              /\ In(h', active, c)
                                   = Abstract!Back(In(h, active, Here))
    <3>1. CASE CanStepBack(h, active, Here)
      <4>1. Undone(h, active, Here) \in Contents
        BY <1>0, <3>1, StepBackLemma
      <4>2. SetPage(active, Undone(h, active, Here))
        BY <1>9, <3>1 DEF Undo
      <4> QED
        BY <1>0, <2>1, <3>1, <4>1, <4>2, BackIn
    <3>2. CASE ~CanStepBack(h, active, Here)
      <4>1. SetPage(active, Here)
        BY <1>0, <1>9, <3>2 DEF Undo, SetPage, Here
      <4> QED
        BY <1>0, <2>1, <3>2, <4>1, BackIn
    <3> QED
      BY <3>1, <3>2
  <2>3. Moves(In(h, active, Here), In(h', active, c))
    BY <2>2 DEF Moves
  <2>4. ASSUME NEW r \in Pages \ {active}, content[r] # Gone
        PROVE  In(h', r, content[r]) = In(h, r, content[r])
    BY <1>0, <2>1, <2>4, ElsewhereRests, BackElsewhere
  <2> QED
    BY <1>a, <2>2, <2>3, <2>4, ActiveStepLemma
<1>10. CASE RedoIsCalm /\ Redo
  <2>1. /\ ~IsOpenOn(h, active) /\ CanStepForward(h, active)
        /\ h' = StepForward(h, active, Here)
        /\ SetPage(active, Redone(h, active))
    BY <1>10 DEF RedoIsCalm, Redo
  <2>2. Redone(h, active) \in Contents
    BY <1>0, <2>1, StepForwardLemma
  <2>3. /\ In(h', active, Redone(h, active))
             = Abstract!Forth(In(h, active, Here))
        /\ In(h, active, Here).at < Len(In(h, active, Here).line)
        /\ \A r \in Pages \ {active}, d \in Contents :
              In(h', r, d) = In(h, r, d)
    BY <1>0, <2>1, ForthIn
  <2>4. Abstract!Settled(In(h, active, Here))
    BY <1>0, <2>1, RestLemma
  <2>5. Moves(In(h, active, Here), In(h', active, Redone(h, active)))
    BY <2>3, <2>4 DEF Moves
  <2>6. \A r \in Pages \ {active} : content[r] # Gone =>
           In(h', r, content[r]) = In(h, r, content[r])
    BY <2>3, ElsewhereRests
  <2> QED
    BY <1>a, <2>1, <2>2, <2>5, <2>6, ActiveStepLemma
<1>11. CASE CommitPlacement
  <2>1. content' = content /\ (h' = h \/ h' = Seal(h, active, Here))
    BY <1>11 DEF CommitPlacement
  <2> QED
    BY <1>a, <1>b, <2>1, SealStep
<1>12. CASE CancelIsCalm /\ CancelPlacement
  <2> DEFINE c == Without(Here, {placement})
  <2>1. c \in Contents /\ SetPage(active, c) /\ h' = Discard(h)
    BY <1>0, <1>12, ContentsLemma DEF CancelPlacement
  <2>2. h'.past = h.past /\ h'.future = h.future /\ h'.pending = NoTx
    BY <1>0, <2>1 DEF Discard, Good, Histories
  <2>3. Moves(In(h, active, Here), In(h', active, c))
    <3>1. CASE IsOpenOn(h, active)
      <4>1. c = h.pending.before
        BY <1>12, <3>1 DEF CancelIsCalm
      <4> HIDE DEF c
      <4>2. In(h', active, c) = Abstract!Abandon(In(h, active, Here))
        BY <1>0, <2>1, <3>1, <4>1, DiscardIn
      <4> QED
        BY <4>2 DEF Moves
    <3>2. CASE ~IsOpenOn(h, active)
      <4>1. placement \notin DOMAIN Here
        BY <1>12, <3>2 DEF CancelIsCalm
      <4>2. c = Here
        <5>1. PICK D \in SUBSET Nodes : Here \in [D -> Versions]
          BY <1>0 DEF Contents
        <5>2. DOMAIN Here \ {placement} = DOMAIN Here
          BY <4>1
        <5> QED
          BY <5>1, <5>2 DEF Without
      <4> HIDE DEF c
      <4>3. In(h', active, Here) = In(h, active, Here)
        BY <2>2, <3>2 DEF In, BaseIn, IsOpenOn
      <4>4. Abstract!Settle(In(h, active, Here)) = In(h, active, Here)
        BY <1>0, <3>2, RestLemma
      <4> QED
        BY <4>2, <4>3, <4>4 DEF Moves
    <3> QED
      BY <3>1, <3>2
  <2>4. ASSUME NEW r \in Pages \ {active}, content[r] # Gone
        PROVE  In(h', r, content[r]) = In(h, r, content[r])
    <3>1. ~IsOpenOn(h, r) /\ ~IsOpenOn(h', r)
      BY <2>2, <2>4, ElsewhereRests DEF IsOpenOn
    <3> QED
      BY <2>2, <3>1 DEF In, BaseIn
  <2> HIDE DEF c
  <2> QED
    BY <1>a, <2>1, <2>3, <2>4, ActiveStepLemma
<1>13. ASSUME NEW p \in Pages, SwitchPage(p)
       PROVE  Abstract!Step
  BY <1>13, SealStep DEF SwitchPage
<1>14. ASSUME NEW p \in Pages, AddPage(p)
       PROVE  Abstract!OpenPage
  <2>1. /\ content[p] = Gone /\ p # active
        /\ h' = Seal(h, active, Here)
        /\ content' = [content EXCEPT ![p] = Blank]
    BY <1>0, <1>14 DEF AddPage, FreshPage, Lives, SetPage
  <2>2. h.past[p] = <<>> /\ h.future[p] = <<>> /\ ~IsOpenOn(h, p)
    <3>1. Snapshots(p) = {}
      BY <1>14 DEF AddPage, FreshPage
    <3>2. h.past[p] \in Seq(Contents) /\ h.future[p] \in Seq(Contents)
      BY <1>0 DEF Good, Histories
    <3>3. /\ {h.past[p][i] : i \in DOMAIN h.past[p]} = {}
          /\ {h.future[p][i] : i \in DOMAIN h.future[p]} = {}
          /\ (IF IsOpenOn(h, p) THEN {h.pending.before} ELSE {}) = {}
      BY <3>1 DEF Snapshots
    <3>4. DOMAIN h.past[p] = {} /\ DOMAIN h.future[p] = {}
      BY <3>3
    <3>5. ASSUME NEW s \in Seq(Contents), DOMAIN s = {} PROVE s = <<>>
      <4>1. s \in [1 .. Len(s) -> Contents] /\ Len(s) \in Nat
        BY LenProperties
      <4>2. Len(s) = 0
        BY <3>5, <4>1
      <4> QED
        BY <4>2, EmptySeq
    <3> QED
      BY <3>2, <3>3, <3>4, <3>5
  <2>3. Blank \in Contents /\ Blank # Gone
    BY ContentsLemma
  <2>4. In(h', p, Blank) = In(h, p, Blank)
    BY <1>0, <2>1, <2>2, <2>3, SealIn, RestLemma
  <2>5. In(h, p, Blank) = Abstract!NewTimeline
    BY <2>2, NewLine DEF In, BaseIn, Abstract!NewTimeline
  <2>6. /\ content'[p] = Blank
        /\ \A r \in Pages \ {p} : content'[r] = content[r]
    BY <1>0, <2>1
  <2>7. p \in Pages \ DOMAIN Timelines
    BY <2>1, TimelinesLemma
  <2>8. DOMAIN Timelines' = DOMAIN Timelines \cup {p}
    BY <2>3, <2>6, TimelinesLemma
  <2>9. Timelines'[p] = Abstract!NewTimeline
    BY <2>3, <2>4, <2>5, <2>6, TimelinesLemma
  <2>10. ASSUME NEW q \in DOMAIN Timelines
         PROVE  Abstract!Rests(q)
    <3>1. q \in Pages /\ q # p /\ content[q] # Gone /\ content'[q] = content[q]
      BY <2>1, <2>6, TimelinesLemma
    <3>2. content[q] \in Contents
      BY <1>0, <3>1
    <3>3. In(h', q, content[q]) = Abstract!Settle(In(h, q, content[q]))
      <4>1. q = active => content[q] = Here
        BY DEF Here
      <4>2. q # active => ~IsOpenOn(h, q)
        BY <3>1, ElsewhereRests
      <4> QED
        BY <1>0, <2>1, <3>1, <3>2, <4>1, <4>2, SealIn
    <3> QED
      BY <3>1, <3>3, TimelinesLemma DEF Abstract!Rests
  <2> QED
    BY <2>7, <2>8, <2>9, <2>10 DEF Abstract!OpenPage
<1>15. ASSUME NEW p \in Pages, NEW q \in Pages, DeletePage(p, q)
       PROVE  Abstract!ClosePage
  <2>1. /\ content[p] # Gone /\ content[q] # Gone /\ p # q
        /\ content' = [content EXCEPT ![p] = Gone] /\ h' = h
    BY <1>15 DEF DeletePage, Lives, SetPage
  <2>2. /\ content'[p] = Gone
        /\ \A r \in Pages \ {p} : content'[r] = content[r]
    BY <1>0, <2>1
  <2>3. p \in DOMAIN Timelines /\ DOMAIN Timelines' = DOMAIN Timelines \ {p}
    BY <2>1, <2>2, TimelinesLemma
  <2>4. q \in DOMAIN Timelines'
    BY <2>1, <2>2, TimelinesLemma
  <2>5. \A r \in DOMAIN Timelines' : Timelines'[r] = Timelines[r]
    BY <2>1, <2>2, TimelinesLemma
  <2> QED
    BY <2>3, <2>4, <2>5 DEF Abstract!ClosePage
<1>16. ASSUME NEW p \in Pages, NEW c \in Contents, ToolIsCalm(p), ToolEdit(p, c)
       PROVE  Abstract!Step
  <2>1. /\ content[p] # Gone /\ content[p] \in Contents
        /\ content' = [content EXCEPT ![p] = c]
        /\ h' = Seal(Record(h, p, content[p], Structure, FALSE), p, c)
    BY <1>0, <1>16 DEF ToolEdit, Lives, SetPage
  <2>2. /\ content'[p] = c /\ c # Gone
        /\ \A r \in Pages \ {p} : content'[r] = content[r]
    BY <1>0, <2>1, ContentsLemma
  <2>3. WroteOne(h, p, content[p], c, h')
    BY <1>0, <2>1, SealedIn
  <2>4. Moves(In(h, p, content[p]), In(h', p, content'[p]))
    BY <2>2, <2>3 DEF Moves, WroteOne
  <2>5. ASSUME NEW r \in Pages \ {p}, content[r] # Gone
        PROVE  In(h', r, content'[r]) = Abstract!Settle(In(h, r, content[r]))
    <3>1. IsOpenOn(h, r) => h.pending.before # content[r]
      BY <1>16, <2>5 DEF ToolIsCalm, IsOpenOn, Lives
    <3> QED
      BY <1>0, <2>2, <2>3, <2>5, <3>1 DEF WroteOne
  <2>6. \A r \in Pages : content'[r] = Gone <=> content[r] = Gone
    BY <2>1, <2>2
  <2> QED
    BY <2>1, <2>4, <2>5, <2>6, StepLemma
<1>17. CASE UNCHANGED vars
  BY <1>b, <1>17 DEF vars
<1>18. CASE CommonNext
  BY <1>a, <1>1, <1>2, <1>3, <1>4, <1>5, <1>6, <1>7, <1>8, <1>9, <1>11, <1>13,
     <1>14, <1>15, <1>18 DEF CommonNext, Abstract!Next
<1> QED
  BY <1>a, <1>10, <1>12, <1>16, <1>17, <1>18 DEF CalmNext

-----------------------------------------------------------------------------
(* The theorem.  *)

\* A fresh document is one new timeline.
LEMMA InitTimeline == Init => Abstract!Init
<1> SUFFICES ASSUME Init PROVE Abstract!Init
  OBVIOUS
<1>1. /\ FirstPage \in Pages /\ Blank \in Contents /\ Blank # Gone
      /\ content = [p \in Pages |-> IF p = FirstPage THEN Blank ELSE Gone]
      /\ h = EmptyHistory(Pages)
  BY PagesAssumption, ContentsLemma DEF Init
<1>2. {q \in Pages : Lives(q)} = {FirstPage}
  BY <1>1 DEF Lives
<1>3. TimelineOf(FirstPage) = Abstract!NewTimeline
  <2>1. /\ h.past[FirstPage] = <<>> /\ h.future[FirstPage] = <<>>
        /\ h.pending = NoTx /\ content[FirstPage] = Blank
    BY <1>1 DEF EmptyHistory
  <2>2. TimelineOf(FirstPage) = In(h, FirstPage, Blank) /\ ~IsOpenOn(h, FirstPage)
    BY <1>1, <2>1, TimelineIn DEF IsOpenOn
  <2> QED
    BY <2>1, <2>2, NewLine DEF In, BaseIn, Abstract!NewTimeline
<1> QED
  BY <1>2, <1>3 DEF Abstract!Init, Timelines

\* Between the three moments calm leaves out, every page of the document is a
\* timeline: undo and redo walk a line of states, whatever the handlers, the
\* drags and the agent's tools do to the pages in between.
THEOREM Implementation == CalmSpec => ImplementsTimeline
<1>1. Init => Abstract!Init
  BY InitTimeline
<1>2. IInv /\ [CalmNext]_vars => [Abstract!Next]_Timelines
  BY NextTimeline
<1>3. CalmSpec => []IInv
  BY Invariance, CalmIsSpec
<1> QED
  BY <1>1, <1>2, <1>3, PTL DEF CalmSpec, ImplementsTimeline, Abstract!Spec

-----------------------------------------------------------------------------
(* The file of the document.  *)

\* No save of this handle has come as far as the backup.
AsLoaded == backedUp = "no" /\ (disk[path].doc \subseteq doc \/ Garble \in disk[path].doc)

SaveInv ==
    /\ phase = "leaving" => target # NoName
    /\ phase \in {"checked", "written"} => backedUp # "no"
    /\ phase = "written" => disk[path].doc = doc
    /\ phase = "checked" /\ Exists(path) => Replaceable \/ CopyLost
    /\ phase = "reading" /\ Exists(path) => AsLoaded
    /\ phase \in {"idle", "flush"} /\ seen = "current" /\ Exists(path) =>
          AsLoaded \/ (backedUp # "no" /\ (Replaceable \/ CopyLost))

FileInv == ConnectionsTypeOK /\ SaveInv

LEMMA WithoutOne ==
    ASSUME NEW S, NEW s \in Seq(S), NEW i \in DOMAIN s
    PROVE  RemoveAt(s, i) \in Seq(S)
<1>1. i \in 1..Len(s) /\ Len(s) \in Nat
    OBVIOUS
<1>2. SubSeq(s, 1, i - 1) \in Seq(S)
    BY <1>1, SubSeqProperties
<1>3. SubSeq(s, i + 1, Len(s)) \in Seq(S)
    BY <1>1, SubSeqProperties
<1> QED
    BY <1>2, <1>3, ConcatProperties DEF RemoveAt

LEMMA OneFewer ==
    ASSUME NEW S, NEW s \in Seq(S), NEW i \in DOMAIN s
    PROVE  Len(RemoveAt(s, i)) = Len(s) - 1
<1>1. i \in 1..Len(s) /\ Len(s) \in Nat
    OBVIOUS
<1>2. SubSeq(s, 1, i - 1) \in Seq(S) /\ Len(SubSeq(s, 1, i - 1)) = i - 1
    BY <1>1, SubSeqProperties
<1>3. SubSeq(s, i + 1, Len(s)) \in Seq(S) /\ Len(SubSeq(s, i + 1, Len(s))) = Len(s) - i
    BY <1>1, SubSeqProperties
<1>4. Len(RemoveAt(s, i)) = (i - 1) + (Len(s) - i)
    BY ONLY <1>2, <1>3, ConcatProperties DEF RemoveAt
<1> QED
    BY <1>1, <1>4

LEMMA WithOther ==
    ASSUME NEW S, NEW s \in Seq(S), NEW old, NEW new \in S
    PROVE  ReplaceAll(s, old, new) \in Seq(S)
<1>1. Len(s) \in Nat /\ \A i \in 1..Len(s) : s[i] \in S
    OBVIOUS
<1> QED
    BY <1>1 DEF ReplaceAll

LEMMA InitSaves == ConnectionsInit => FileInv
<1> SUFFICES ASSUME ConnectionsInit PROVE FileInv
    OBVIOUS
<1>1. disk \in [Names -> Files \cup {NoFile}]
    BY DEF ConnectionsInit, DocumentInit, Files, Edits, Writers
<1>2. backup = [n \in Names |-> NoFile]
    BY DEF ConnectionsInit, DocumentInit
<1>3. backup \in [Names -> (SUBSET Edits) \cup {NoFile}]
    BY <1>2
<1>4. DocumentTypeOK
    BY <1>1, <1>3, DocumentFileAssumption DEF ConnectionsInit, DocumentInit, DocumentTypeOK, Seen, BackedUp, Phases
<1>5. listed \in Seq(Names)
  <2>1. listed = <<>> \/ listed = <<FirstName>>
    BY DEF ConnectionsInit
  <2>2. <<FirstName>> \in Seq(Names)
    BY DocumentFileAssumption
  <2>3. <<>> \in Seq(Names)
    OBVIOUS
  <2> QED
    BY <2>1, <2>2, <2>3
<1>6. SaveInv
    BY DocumentFileAssumption DEF ConnectionsInit, DocumentInit, SaveInv
<1> QED
    BY <1>4, <1>5, <1>6 DEF FileInv, ConnectionsTypeOK

\* The handlers of DocumentFile, each in the order of the module.
LEMMA EditInv ==
    ASSUME FileInv, NEW e \in OwnEdits, EditDocument(e)
    PROVE  DocumentTypeOK' /\ SaveInv'
<1> USE DocumentFileAssumption DEF FileInv, ConnectionsTypeOK, EditDocument, Exists
<1>1. DocumentTypeOK'
    BY DEF DocumentTypeOK, Seen, BackedUp, Phases, file, handle
<1>2. SaveInv'
    BY DEF DocumentTypeOK, SaveInv, Replaceable, CopyLost, AsLoaded, file, handle
<1> QED
    BY <1>1, <1>2

LEMMA NotifyInv ==
    ASSUME FileInv, Notify
    PROVE  DocumentTypeOK' /\ SaveInv'
<1> USE DocumentFileAssumption DEF FileInv, ConnectionsTypeOK, Notify, Exists
<1>1. DocumentTypeOK'
    BY DEF DocumentTypeOK, Seen, BackedUp, Phases, file, handle
<1>2. SaveInv'
    BY DEF DocumentTypeOK, SaveInv, Replaceable, CopyLost, AsLoaded, file, handle
<1> QED
    BY <1>1, <1>2

LEMMA FireInv ==
    ASSUME FileInv, Fire
    PROVE  DocumentTypeOK' /\ SaveInv'
<1> USE DocumentFileAssumption DEF FileInv, ConnectionsTypeOK, Fire, Exists
<1>1. DocumentTypeOK'
    BY DEF DocumentTypeOK, Seen, BackedUp, Phases, file, handle, session
<1>2. SaveInv'
    BY DEF DocumentTypeOK, SaveInv, Replaceable, CopyLost, AsLoaded, file, handle, session
<1> QED
    BY <1>1, <1>2

LEMMA CheckInv ==
    ASSUME FileInv, Check
    PROVE  DocumentTypeOK' /\ SaveInv'
<1> USE DocumentFileAssumption DEF FileInv, ConnectionsTypeOK, Check, Exists
<1>1. CASE phase' = Over /\ UNCHANGED <<backup, backedUp, failed>>
  <2>1. DocumentTypeOK'
    BY <1>1 DEF DocumentTypeOK, Seen, BackedUp, Phases, Over, Files
  <2>2. SaveInv'
    BY <1>1 DEF DocumentTypeOK, SaveInv, Replaceable, CopyLost, AsLoaded, Over, Refused
  <2> QED
    BY <2>1, <2>2
<1>2. CASE BackUp /\ ~Refused /\ UNCHANGED stale
  <2>1. DocumentTypeOK'
    BY <1>2 DEF BackUp, DocumentTypeOK, Seen, BackedUp, Phases, Files
  <2>2. SaveInv'
    BY <1>2 DEF BackUp, DocumentTypeOK, SaveInv, Replaceable, CopyLost, AsLoaded, Refused
  <2> QED
    BY <2>1, <2>2
<1>3. CASE BackUpFails /\ ~Refused /\ UNCHANGED stale
  <2>1. disk[path] \in Files
    BY <1>3 DEF BackUpFails, DocumentTypeOK
  <2>2. DocumentTypeOK'
    BY <1>3, <2>1 DEF BackUpFails, DocumentTypeOK, Seen, BackedUp, Phases, Over, Files
  <2>3. SaveInv'
    BY <1>3 DEF BackUpFails, DocumentTypeOK, SaveInv, Replaceable, CopyLost, AsLoaded, Refused, Over
  <2> QED
    BY <2>2, <2>3
<1> QED
  BY <1>1, <1>2, <1>3

LEMMA WriteFileInv ==
    ASSUME FileInv, WriteFile
    PROVE  DocumentTypeOK' /\ SaveInv'
<1> USE DocumentFileAssumption DEF FileInv, ConnectionsTypeOK, WriteFile, Exists
<1>1. DocumentTypeOK'
    BY DEF DocumentTypeOK, Seen, BackedUp, Phases, Store, Outdated, Files, Edits, Writers, session
<1>2. SaveInv'
    BY DEF DocumentTypeOK, SaveInv, Replaceable, CopyLost, AsLoaded, Store, Outdated, session
<1> QED
    BY <1>1, <1>2

LEMMA StampFileInv ==
    ASSUME FileInv, StampFile
    PROVE  DocumentTypeOK' /\ SaveInv'
<1> USE DocumentFileAssumption DEF FileInv, ConnectionsTypeOK, StampFile, Exists
<1>1. DocumentTypeOK'
    BY DEF DocumentTypeOK, Seen, BackedUp, Phases, Stamp, Over, file
<1>2. SaveInv'
    BY DEF DocumentTypeOK, SaveInv, Replaceable, CopyLost, AsLoaded, Stamp, Over, file
<1> QED
    BY <1>1, <1>2

LEMMA SaveFailsInv ==
    ASSUME FileInv, SaveFails
    PROVE  DocumentTypeOK' /\ SaveInv'
<1> USE DocumentFileAssumption DEF FileInv, ConnectionsTypeOK, SaveFails, Exists
<1>1. DocumentTypeOK'
    BY DEF DocumentTypeOK, Seen, BackedUp, Phases, Over, file, handle
<1>2. SaveInv'
    BY DEF DocumentTypeOK, SaveInv, Replaceable, CopyLost, AsLoaded, Over, file, handle
<1> QED
    BY <1>1, <1>2

LEMMA LoadInv ==
    ASSUME FileInv, Load
    PROVE  DocumentTypeOK' /\ SaveInv'
<1> USE DocumentFileAssumption DEF FileInv, ConnectionsTypeOK, Load, Exists
<1>1. DocumentTypeOK'
    BY DEF DocumentTypeOK, Seen, BackedUp, Phases, file, Parsed, Files, Edits, SaveInv
<1>2. SaveInv'
    BY DEF DocumentTypeOK, SaveInv, Replaceable, CopyLost, AsLoaded, file, Parsed
<1> QED
    BY <1>1, <1>2

LEMMA LoadFailsInv ==
    ASSUME FileInv, LoadFails
    PROVE  DocumentTypeOK' /\ SaveInv'
<1> USE DocumentFileAssumption DEF FileInv, ConnectionsTypeOK, LoadFails, Exists
<1>1. DocumentTypeOK'
    BY DEF DocumentTypeOK, Seen, BackedUp, Phases, file, SaveInv
<1>2. SaveInv'
    BY DEF DocumentTypeOK, SaveInv, Replaceable, CopyLost, AsLoaded, file
<1> QED
    BY <1>1, <1>2

LEMMA StampLoadInv ==
    ASSUME FileInv, StampLoad
    PROVE  DocumentTypeOK' /\ SaveInv'
<1> USE DocumentFileAssumption DEF FileInv, ConnectionsTypeOK, StampLoad, Exists
<1>1. DocumentTypeOK'
    BY DEF DocumentTypeOK, Seen, BackedUp, Phases, Stamp, file, session
<1>2. SaveInv'
    BY DEF DocumentTypeOK, SaveInv, Replaceable, CopyLost, AsLoaded, Stamp, file, session
<1> QED
    BY <1>1, <1>2

LEMMA SwitchInv ==
    ASSUME FileInv, NEW n \in Names, Switch(n)
    PROVE  DocumentTypeOK' /\ SaveInv'
<1> USE DocumentFileAssumption DEF FileInv, ConnectionsTypeOK, Switch, Leave, Exists
<1>1. DocumentTypeOK'
    BY DEF DocumentTypeOK, Seen, BackedUp, Phases, file, handle, session
<1>2. SaveInv'
    BY DEF DocumentTypeOK, SaveInv, Replaceable, CopyLost, AsLoaded, file, handle, session
<1> QED
    BY <1>1, <1>2

LEMMA QuitInv ==
    ASSUME FileInv, NEW n \in Names, Quit(n)
    PROVE  DocumentTypeOK' /\ SaveInv'
<1> USE DocumentFileAssumption DEF FileInv, ConnectionsTypeOK, Quit, Leave, Exists
<1>1. DocumentTypeOK'
    BY DEF DocumentTypeOK, Seen, BackedUp, Phases, file, handle, session
<1>2. SaveInv'
    BY DEF DocumentTypeOK, SaveInv, Replaceable, CopyLost, AsLoaded, file, handle, session
<1> QED
    BY <1>1, <1>2

LEMMA CrashInv ==
    ASSUME FileInv, NEW n \in Names, Crash(n)
    PROVE  DocumentTypeOK' /\ SaveInv'
<1> USE DocumentFileAssumption DEF FileInv, ConnectionsTypeOK, Crash, Exists
<1>1. DocumentTypeOK'
    BY DEF DocumentTypeOK, Seen, BackedUp, Phases, file, handle
<1>2. SaveInv'
    BY DEF DocumentTypeOK, SaveInv, Replaceable, CopyLost, AsLoaded, file, handle
<1> QED
    BY <1>1, <1>2

LEMMA RenameInv ==
    ASSUME FileInv, NEW n \in Names, Rename(n)
    PROVE  DocumentTypeOK' /\ SaveInv'
<1> USE DocumentFileAssumption DEF FileInv, ConnectionsTypeOK, Rename, Leave, Moved, Outdated, Exists
<1>1. DocumentTypeOK'
    BY DEF DocumentTypeOK, Seen, BackedUp, Phases
<1>2. SaveInv'
    BY DEF DocumentTypeOK, SaveInv, Replaceable, CopyLost, AsLoaded
<1> QED
    BY <1>1, <1>2

LEMMA OtherSaveInv ==
    ASSUME FileInv, OtherIsCalm, NEW n \in Names, NEW e \in OtherEdits, OtherSave(n, e)
    PROVE  DocumentTypeOK' /\ SaveInv'
<1> USE DocumentFileAssumption DEF FileInv, ConnectionsTypeOK, OtherSave, OtherIsCalm, Exists
<1>1. DocumentTypeOK'
    BY DEF DocumentTypeOK, Seen, BackedUp, Phases, Store, Outdated, Files, Edits, Writers, session
<1>2. SaveInv'
    BY DEF DocumentTypeOK, SaveInv, Replaceable, CopyLost, AsLoaded, Store, Outdated, session
<1> QED
    BY <1>1, <1>2

LEMMA StepSaves == FileInv /\ [ConnectionsNext]_all => FileInv'
<1> SUFFICES ASSUME FileInv, [ConnectionsNext]_all PROVE FileInv'
    OBVIOUS
<1>1. CASE Stays
  <2>1. listed' = listed
    BY <1>1 DEF Stays
  <2>2. DocumentTypeOK' /\ SaveInv'
    BY <1>1, EditInv, NotifyInv, FireInv, CheckInv, WriteFileInv, StampFileInv, SaveFailsInv,
       LoadInv, LoadFailsInv, StampLoadInv, OtherSaveInv DEF Stays, Steps, OtherSaves
  <2> QED
    BY <2>1, <2>2 DEF FileInv, ConnectionsTypeOK
<1>2. CASE \E n \in Names : Add(n)
  <2>1. PICK n \in Names : Add(n)
    BY <1>2
  <2> QED
    BY <2>1 DEF Add, FileInv, ConnectionsTypeOK, document, DocumentTypeOK, SaveInv, Replaceable, CopyLost, AsLoaded, Exists
<1>3. CASE \E n \in Names : Pick(n)
    BY <1>3, SwitchInv DEF Pick, FileInv, ConnectionsTypeOK
<1>4. CASE \E n \in Names : RemoveEntry(n)
  <2>1. PICK n \in Names : RemoveEntry(n)
    BY <1>4
  <2>2. listed' \in Seq(Names)
    BY <2>1, WithoutOne DEF RemoveEntry, FileInv, ConnectionsTypeOK
  <2>3. CASE UNCHANGED document
    BY <2>2, <2>3 DEF FileInv, ConnectionsTypeOK, document, DocumentTypeOK, SaveInv, Replaceable, CopyLost, AsLoaded, Exists
  <2>4. CASE listed' # <<>> /\ Switch(Head(listed'))
    <3>1. Head(listed') \in Names
      BY <2>2, <2>4
    <3> QED
      BY <2>2, <2>4, <3>1, SwitchInv DEF FileInv, ConnectionsTypeOK
  <2>5. CASE /\ home' = NoName
             /\ UNCHANGED <<file, handle, doc, dirty, stale, failed, timer, phase, target>>
    BY <2>2, <2>5 DEF FileInv, ConnectionsTypeOK, file, handle, DocumentTypeOK, SaveInv, Replaceable, CopyLost, AsLoaded, Exists
  <2> QED
    BY <2>1, <2>3, <2>4, <2>5 DEF RemoveEntry
<1>5. CASE \E m, n \in Names : RenameEntry(m, n)
  <2>1. PICK m \in Names, n \in Names : RenameEntry(m, n)
    BY <1>5
  <2>2. listed' \in Seq(Names)
    BY <2>1, WithOther DEF RenameEntry, Renamed, FileInv, ConnectionsTypeOK
  <2>3. CASE Rename(n)
    BY <2>2, <2>3, RenameInv DEF FileInv, ConnectionsTypeOK
  <2>4. CASE /\ Moved(m, n)
             /\ UNCHANGED <<backup, path, backedUp, session, timer, phase, target>>
    <3> USE DocumentFileAssumption DEF FileInv, ConnectionsTypeOK, RenameEntry, Moved, Outdated,
            session, Exists
    <3>1. DocumentTypeOK'
      BY <2>1, <2>4 DEF DocumentTypeOK, Seen, BackedUp
    <3>2. SaveInv'
      BY <2>1, <2>4 DEF DocumentTypeOK, SaveInv, Replaceable, CopyLost, AsLoaded
    <3> QED
      BY <2>2, <3>1, <3>2
  <2> QED
    BY <2>1, <2>3, <2>4 DEF RenameEntry
<1>6. CASE Restart
  <2>1. Launches \subseteq Names
    BY DocumentFileAssumption DEF Launches, Listed, ToSet, FileInv, ConnectionsTypeOK
  <2> QED
    BY <1>6, <2>1, QuitInv, CrashInv DEF Restart, FileInv, ConnectionsTypeOK
<1>7. CASE UNCHANGED all
    BY <1>7 DEF all, FileInv, ConnectionsTypeOK, document, DocumentTypeOK, SaveInv, Replaceable, CopyLost, AsLoaded, Exists
<1> QED
    BY <1>1, <1>2, <1>3, <1>4, <1>5, <1>6, <1>7 DEF ConnectionsNext, Picker

\* Every reachable state is well typed.
THEOREM DocumentTyping == ConnectionsSpec => []ConnectionsTypeOK
<1>1. FileInv => ConnectionsTypeOK
    BY DEF FileInv
<1> QED
    BY InitSaves, StepSaves, <1>1, PTL DEF ConnectionsSpec

\* For any names, edits and number of entries, a save replaces only what this
\* program has loaded or written, or has put into the backup, or could not read
\* and has failed to copy, while connections are added, renamed, removed and
\* switched between (DocumentFile::save).
THEOREM NothingLost == ConnectionsSpec => OtherIsNotOverwritten
<1>1. FileInv /\ [ConnectionsNext]_all =>
        [WriteFile /\ Exists(path) => Replaceable \/ CopyLost]_document
    BY DEF FileInv, SaveInv, WriteFile
<1> QED
    BY InitSaves, StepSaves, <1>1, PTL DEF ConnectionsSpec, OtherIsNotOverwritten

----------------------------------------------------------------------------
(***************************************************************************)
(* EntriesKeepCanvases.  A document that is not dirty is in the file of    *)
(* the name the window calls it by, and a dirty one belongs to the path of *)
(* its handle: the two differ only from a rename to the load that follows  *)
(* it, and a rename finds nothing dirty.                                   *)
(***************************************************************************)
Kept ==
    /\ phase \in {"checked", "written"} => dirty
    /\ phase = "written" => Exists(path)
    /\ phase = "leaving" /\ dirty => stale \/ failed
    /\ home # NoName /\ path # home =>
          phase \in {"flush", "leaving"} /\ target # NoName /\ ~dirty
    /\ home # NoName /\ ~dirty => doc \subseteq OnDisk(home)

KeepInv == FileInv /\ Kept

LEMMA InitKept == ConnectionsInit => Kept
    BY DocumentFileAssumption DEF ConnectionsInit, DocumentInit, Kept, OnDisk

\* The handlers, in the order of the module.
LEMMA EditKept ==
    ASSUME KeepInv, NEW e \in OwnEdits, EditDocument(e)
    PROVE  Kept'
    BY DEF KeepInv, FileInv, Kept, ConnectionsTypeOK, DocumentTypeOK, EditDocument, handle, file, OnDisk, Exists

LEMMA NotifyKept ==
    ASSUME KeepInv, Notify
    PROVE  Kept'
    BY DEF KeepInv, Kept, Notify, handle, file, OnDisk, Exists

LEMMA FireKept ==
    ASSUME KeepInv, Fire
    PROVE  Kept'
    BY DEF KeepInv, Kept, Fire, handle, file, session, OnDisk, Exists

LEMMA CheckKept ==
    ASSUME KeepInv, Check
    PROVE  Kept'
    BY DEF KeepInv, Kept, Check, BackUp, BackUpFails, Over, OnDisk, Exists

\* What is written is the file at path, which is that of home: the document is
\* dirty.
LEMMA WriteFileKept ==
    ASSUME KeepInv, WriteFile
    PROVE  Kept'
<1>1. path \in Names /\ disk \in [Names -> Files \cup {NoFile}]
    BY DEF KeepInv, FileInv, ConnectionsTypeOK, DocumentTypeOK
<1>2. [doc |-> doc, by |-> "this"] \in Files
    BY DEF KeepInv, FileInv, ConnectionsTypeOK, DocumentTypeOK, Files, Edits, Writers
<1>3. Exists(path)'
    BY <1>1, <1>2, NoFileAssumption DEF WriteFile, Store, Exists
<1> QED
    BY <1>3 DEF KeepInv, Kept, WriteFile, session

\* The document is no longer dirty, and is what the file holds.
LEMMA StampFileKept ==
    ASSUME KeepInv, StampFile
    PROVE  Kept'
<1>1. dirty /\ disk[path].doc = doc
    BY DEF KeepInv, Kept, FileInv, SaveInv, StampFile
<1>2. home # NoName => path = home
    BY <1>1 DEF KeepInv, Kept
<1>3. Exists(path)
    BY DEF StampFile, KeepInv, Kept
<1> QED
    BY <1>1, <1>2, <1>3 DEF KeepInv, Kept, StampFile, file, Over, OnDisk, Exists

LEMMA SaveFailsKept ==
    ASSUME KeepInv, SaveFails
    PROVE  Kept'
    BY DEF KeepInv, Kept, SaveFails, handle, file, Over, OnDisk, Exists

\* What is loaded is on disk.
LEMMA LoadKept ==
    ASSUME KeepInv, Load \/ LoadFails
    PROVE  Kept'
    BY DEF KeepInv, Kept, Load, LoadFails, file, Parsed, OnDisk, Exists

LEMMA StampLoadKept ==
    ASSUME KeepInv, StampLoad
    PROVE  Kept'
    BY DEF KeepInv, Kept, StampLoad, file, session, OnDisk, Exists

LEMMA LeaveKept ==
    ASSUME KeepInv, NEW n \in Names, Switch(n) \/ Quit(n)
    PROVE  Kept'
    BY DocumentFileAssumption DEF KeepInv, Kept, Switch, Quit, Leave, file, handle, session,
       OnDisk, Exists

LEMMA CrashKept ==
    ASSUME KeepInv, NEW n \in Names, Crash(n)
    PROVE  Kept'
    BY DocumentFileAssumption DEF KeepInv, Kept, Crash, file, handle, OnDisk, Exists

\* The files of the open connection are moved, and nothing of it is unsaved.
LEMMA RenameKept ==
    ASSUME KeepInv, NEW n \in Names, Rename(n), ~dirty
    PROVE  Kept'
<1>1. home \in Names /\ disk \in [Names -> Files \cup {NoFile}]
    BY DEF KeepInv, FileInv, ConnectionsTypeOK, DocumentTypeOK, Rename
<1>2. disk'[n] = disk[home]
    BY <1>1 DEF Rename, Moved
<1>3. OnDisk(home) = OnDisk(n)'
    BY <1>2 DEF Rename, OnDisk, Exists
<1> QED
    BY <1>3, DocumentFileAssumption DEF KeepInv, Kept, Rename, Leave

\* The files of another connection are moved, maybe to the name of this one.
LEMMA MovedKept ==
    ASSUME KeepInv, phase = "idle", NEW m \in Names, NEW n \in Names, m # n, m # home, ~Exists(n),
           Moved(m, n), UNCHANGED <<backup, path, backedUp, session, timer, phase, target>>
    PROVE  Kept'
<1>1. home # NoName => OnDisk(home) \subseteq OnDisk(home)'
  <2> SUFFICES ASSUME home # NoName PROVE OnDisk(home) \subseteq OnDisk(home)'
      OBVIOUS
  <2>1. home \in Names /\ disk \in [Names -> Files \cup {NoFile}]
      BY DEF KeepInv, FileInv, ConnectionsTypeOK, DocumentTypeOK
  <2>2. CASE home = n
      BY <2>2 DEF OnDisk
  <2>3. CASE home # n
    <3>1. disk'[home] = disk[home] /\ home' = home
        BY <2>1, <2>3 DEF Moved, session
    <3> QED
        BY <3>1 DEF OnDisk, Exists
  <2> QED
      BY <2>2, <2>3
<1> QED
    BY <1>1 DEF KeepInv, Kept, session

\* The other program only adds to a file.
LEMMA OtherSaveKept ==
    ASSUME KeepInv, OtherIsCalm, NEW n \in Names, NEW e \in OtherEdits, OtherSave(n, e)
    PROVE  Kept'
<1>1. home # NoName => OnDisk(home) \subseteq OnDisk(home)'
  <2> SUFFICES ASSUME home # NoName PROVE OnDisk(home) \subseteq OnDisk(home)'
      OBVIOUS
  <2>1. home \in Names /\ disk \in [Names -> Files \cup {NoFile}] /\ home' = home
      BY DEF KeepInv, FileInv, ConnectionsTypeOK, DocumentTypeOK, OtherSave, session
  <2>2. CASE home = n
    <3> DEFINE added == (IF Exists(n) THEN disk[n].doc ELSE {}) \cup {e}
    <3>1. disk'[home] = [doc |-> added, by |-> "other"]
        BY <2>1, <2>2 DEF OtherSave, Store
    <3>2. Exists(n) => disk[n] \in Files
        BY <2>1, <2>2 DEF Exists
    <3>3. added \subseteq Edits
        BY <3>2 DEF Files, Edits
    <3>4. disk'[home] \in Files
        BY <3>1, <3>3 DEF Files, Writers
    <3>5. disk'[home] # NoFile
        BY <3>4, NoFileAssumption
    <3> QED
        BY <2>1, <2>2, <3>1, <3>5 DEF OnDisk, Exists
  <2>3. CASE home # n
    <3>1. disk'[home] = disk[home]
        BY <2>1, <2>3 DEF OtherSave, Store
    <3> QED
        BY <2>1, <3>1 DEF OnDisk, Exists
  <2> QED
      BY <2>2, <2>3
<1> QED
    BY <1>1 DEF KeepInv, Kept, OtherSave, OtherIsCalm, session

\* Entries are removed, or the window leaves the last: the files stay.
LEMMA RemoveKept ==
    ASSUME KeepInv, NEW n \in Names, RemoveEntry(n)
    PROVE  Kept'
<1>1. CASE UNCHANGED document
    BY <1>1 DEF document, KeepInv, Kept, OnDisk, Exists
<1>2. CASE listed' # <<>> /\ Switch(Head(listed'))
  <2>1. listed' \in Seq(Names)
      BY WithoutOne DEF RemoveEntry, KeepInv, FileInv, ConnectionsTypeOK
  <2>2. Head(listed') \in Names
      BY <1>2, <2>1
  <2> QED
      BY <1>2, <2>2, LeaveKept
<1>3. CASE /\ home' = NoName
           /\ UNCHANGED <<file, handle, doc, dirty, stale, failed, timer, phase, target>>
    BY <1>3 DEF KeepInv, Kept, RemoveEntry, file, handle, Exists
<1> QED
    BY <1>1, <1>2, <1>3 DEF RemoveEntry

\* Every step keeps it, so the load that ends a rename finds it.
LEMMA StepKept == KeepInv /\ [ConnectionsNext]_all => Kept'
<1> SUFFICES ASSUME KeepInv, [ConnectionsNext]_all PROVE Kept'
    OBVIOUS
<1>1. CASE Stays
    BY <1>1, EditKept, NotifyKept, FireKept, CheckKept, WriteFileKept, StampFileKept,
       SaveFailsKept, LoadKept, StampLoadKept, OtherSaveKept DEF Stays, Steps, OtherSaves
<1>2. CASE \E n \in Names : Add(n)
    BY <1>2 DEF Add, document, KeepInv, Kept, OnDisk, Exists
<1>3. CASE \E n \in Names : Pick(n)
    BY <1>3, LeaveKept DEF Pick
<1>4. CASE \E n \in Names : RemoveEntry(n)
    BY <1>4, RemoveKept
<1>5. CASE \E m, n \in Names : RenameIsFree(m, n) /\ RenameEntry(m, n)
  <2>1. PICK m \in Names, n \in Names : RenameIsFree(m, n) /\ RenameEntry(m, n)
      BY <1>5
  <2>2. CASE m = home /\ Rename(n)
      BY <2>1, <2>2, RenameKept DEF RenameIsFree
  <2>3. CASE /\ m # home
             /\ Moved(m, n)
             /\ UNCHANGED <<backup, path, backedUp, session, timer, phase, target>>
      BY <2>1, <2>3, MovedKept DEF RenameEntry
  <2> QED
      BY <2>1, <2>2, <2>3 DEF RenameEntry, RenameIsFree
<1>6. CASE Restart
  <2>1. Launches \subseteq Names
      BY DocumentFileAssumption
      DEF Launches, Listed, ToSet, KeepInv, FileInv, ConnectionsTypeOK
  <2> QED
      BY <1>6, <2>1, LeaveKept, CrashKept DEF Restart
<1>7. CASE UNCHANGED all
    BY <1>7 DEF all, document, KeepInv, Kept, OnDisk, Exists
<1> QED
    BY <1>1, <1>2, <1>3, <1>4, <1>5, <1>6, <1>7 DEF ConnectionsNext, Picker

\* The document a load replaces is on disk, unless it was given up.
LEMMA LoadKeeps ==
    ASSUME KeepInv, Load, target = home, ~stale, ~failed
    PROVE  doc \subseteq OnDisk(home)
<1>1. phase = "leaving" /\ home # NoName
    BY DEF Load, KeepInv, FileInv, SaveInv
<1> QED
    BY <1>1 DEF KeepInv, Kept

\* No step but a rename moves a file, and none removes one.
FilesStay == \A n \in Names : Exists(n) => disk'[n] # NoFile

LEMMA StepsKeepFiles ==
    ASSUME FileInv, [Stays \/ (\E n \in Names : Add(n) \/ Pick(n) \/ RemoveEntry(n)) \/ Restart]_all
    PROVE  FilesStay
<1>1. disk \in [Names -> Files \cup {NoFile}] /\ path \in Names /\ doc \subseteq Edits
    BY DEF FileInv, ConnectionsTypeOK, DocumentTypeOK, Edits
<1>2. CASE disk' = disk
    BY <1>2 DEF FilesStay, Exists
<1>3. CASE WriteFile
  <2>1. [doc |-> doc, by |-> "this"] \in Files
      BY <1>1 DEF Files, Writers
  <2> QED
      BY <1>1, <1>3, <2>1, NoFileAssumption DEF WriteFile, Store, FilesStay, Exists
<1>4. CASE \E n \in Names, e \in OtherEdits : OtherSave(n, e)
  <2>1. PICK n \in Names, e \in OtherEdits : OtherSave(n, e)
      BY <1>4
  <2> DEFINE added == (IF Exists(n) THEN disk[n].doc ELSE {}) \cup {e}
  <2>2. Exists(n) => disk[n] \in Files
      BY <1>1 DEF Exists
  <2>3. added \subseteq Edits
      BY <2>2 DEF Files, Edits
  <2>4. [doc |-> added, by |-> "other"] \in Files
      BY <2>3 DEF Files, Writers
  <2>5. disk' = [disk EXCEPT ![n] = [doc |-> added, by |-> "other"]]
      BY <2>1 DEF OtherSave, Store
  <2> HIDE DEF added
  <2> QED
      BY <1>1, <2>4, <2>5, NoFileAssumption DEF FilesStay, Exists
<1> QED
    BY <1>2, <1>3, <1>4
    DEF Stays, Steps, OtherSaves, EditDocument, Notify, Fire, Check, StampFile, SaveFails, Load,
        LoadFails, StampLoad, Add, Pick, RemoveEntry, Switch, Restart, Quit, Leave, Crash,
        file, all, document

\* A renamed entry has the files of the old name, the others keep theirs.
LEMMA StepKeepsEntries ==
    ASSUME FileInv, [ConnectionsNext]_all, Len(listed') = Len(listed), NEW i \in DOMAIN listed,
           Exists(listed[i])
    PROVE  disk'[listed'[i]] # NoFile
<1>1. listed \in Seq(Names) /\ listed[i] \in Names /\ Len(listed) \in Nat
    BY DEF FileInv, ConnectionsTypeOK
<1>2. CASE \E m, n \in Names : RenameIsFree(m, n) /\ RenameEntry(m, n)
  <2>1. PICK m \in Names, n \in Names : RenameIsFree(m, n) /\ RenameEntry(m, n)
      BY <1>2
  <2>2. listed[i] # n
      BY <2>1 DEF RenameIsFree, Listed, ToSet
  <2>3. listed' = ReplaceAll(listed, m, n) /\ m # n
      BY <2>1 DEF RenameIsFree, RenameEntry, Renamed
  <2>4. listed'[i] = IF listed[i] = m THEN n ELSE listed[i]
      BY <1>1, <2>3 DEF ReplaceAll
  <2>5. disk' = [disk EXCEPT ![n] = disk[m], ![m] = NoFile]
      BY <2>1 DEF RenameEntry, Rename, Moved
  <2>6. disk \in [Names -> Files \cup {NoFile}]
      BY DEF FileInv, ConnectionsTypeOK, DocumentTypeOK
  <2> QED
      BY <1>1, <2>2, <2>3, <2>4, <2>5, <2>6 DEF Exists
<1>3. CASE /\ [Stays \/ (\E n \in Names : Add(n) \/ Pick(n) \/ RemoveEntry(n)) \/ Restart]_all
           /\ listed' = listed
    BY <1>1, <1>3, StepsKeepFiles DEF FilesStay
<1>4. CASE \E n \in Names : Add(n)
    BY <1>1, <1>4 DEF Add
<1>5. CASE \E n \in Names : RemoveEntry(n)
    BY <1>1, <1>5, OneFewer DEF RemoveEntry
<1> QED
    BY <1>2, <1>3, <1>4, <1>5 DEF ConnectionsNext, Picker, Stays, Pick, Restart, all

\* For any names, edits and number of entries, a canvas that is opened again has
\* all that was made on it, and no entry loses its files (connection_form.rs,
\* commit).
THEOREM CanvasesKept == ConnectionsSpec => EntriesKeepCanvases
<1>1. ConnectionsInit => KeepInv
    BY InitSaves, InitKept DEF KeepInv
<1>2. KeepInv /\ [ConnectionsNext]_all => KeepInv'
    BY StepSaves, StepKept DEF KeepInv
<1>3. KeepInv /\ [ConnectionsNext]_all =>
        [ /\ (Load /\ target = home /\ ~stale /\ ~failed) => doc \subseteq OnDisk(home)
          /\ Len(listed') = Len(listed) =>
                \A i \in DOMAIN listed : Exists(listed[i]) => disk'[listed'[i]] # NoFile ]_all
    BY LoadKeeps, StepKeepsEntries DEF KeepInv
<1> QED
    BY <1>1, <1>2, <1>3, PTL DEF ConnectionsSpec, EntriesKeepCanvases

----------------------------------------------------------------------------
(* The names of the entries.  *)

\* What is before the one taken out stays in its place, and what follows moves up.
LEMMA OthersStay ==
    ASSUME NEW S, NEW s \in Seq(S), NEW i \in DOMAIN s
    PROVE  /\ DOMAIN RemoveAt(s, i) = 1..Len(s) - 1
           /\ \A j \in 1..Len(s) - 1 : RemoveAt(s, i)[j] = IF j < i THEN s[j] ELSE s[j + 1]
<1>1. i \in 1..Len(s) /\ Len(s) \in Nat
    OBVIOUS
<1>2. /\ SubSeq(s, 1, i - 1) \in Seq(S) /\ Len(SubSeq(s, 1, i - 1)) = i - 1
      /\ \A j \in 1..i - 1 : SubSeq(s, 1, i - 1)[j] = s[j]
    BY <1>1, SubSeqProperties
<1>3. /\ SubSeq(s, i + 1, Len(s)) \in Seq(S) /\ Len(SubSeq(s, i + 1, Len(s))) = Len(s) - i
      /\ \A j \in 1..Len(s) - i : SubSeq(s, i + 1, Len(s))[j] = s[i + j]
    BY <1>1, SubSeqProperties
<1> DEFINE before == SubSeq(s, 1, i - 1)
           after == SubSeq(s, i + 1, Len(s))
<1>4. RemoveAt(s, i) = before \o after
    BY DEF RemoveAt
<1> HIDE DEF before, after
<1>5. /\ before \in Seq(S) /\ after \in Seq(S)
      /\ Len(before) = i - 1 /\ Len(after) = Len(s) - i
      /\ \A j \in 1..i - 1 : before[j] = s[j]
      /\ \A j \in 1..Len(s) - i : after[j] = s[i + j]
    BY <1>2, <1>3 DEF before, after
<1>6. /\ RemoveAt(s, i) \in Seq(S) /\ Len(RemoveAt(s, i)) = Len(s) - 1
      /\ \A j \in 1..Len(s) - 1 :
            RemoveAt(s, i)[j] = IF j <= i - 1 THEN before[j] ELSE after[j - (i - 1)]
  <2>1. /\ before \in Seq(S) /\ after \in Seq(S)
        /\ Len(before) = i - 1 /\ Len(after) = Len(s) - i
    BY <1>5
  <2>2. /\ before \o after \in Seq(S)
        /\ Len(before \o after) = Len(before) + Len(after)
        /\ \A j \in 1..Len(before) + Len(after) :
              (before \o after)[j] = IF j <= Len(before) THEN before[j]
                                                        ELSE after[j - Len(before)]
    BY ONLY <2>1, ConcatProperties
  <2>3. (i - 1) + (Len(s) - i) = Len(s) - 1
    BY <1>1
  <2> QED
    BY <1>4, <2>1, <2>2, <2>3
<1>7. \A j \in 1..Len(s) - 1 : RemoveAt(s, i)[j] = IF j < i THEN s[j] ELSE s[j + 1]
  <2> TAKE j \in 1..Len(s) - 1
  <2>1. CASE j < i
    <3>1. j \in 1..i - 1
      BY <1>1, <2>1
    <3> QED
      BY <1>1, <1>5, <1>6, <2>1, <3>1
  <2>2. CASE ~(j < i)
    <3>1. j - (i - 1) \in 1..Len(s) - i /\ i + (j - (i - 1)) = j + 1
      BY <1>1, <2>2
    <3>2. after[j - (i - 1)] = s[j + 1]
      BY <1>5, <3>1
    <3> QED
      BY <1>1, <1>6, <2>2, <3>2
  <2> QED
    BY <2>1, <2>2
<1> QED
    BY <1>1, <1>6, <1>7

OwnNames == listed \in Seq(Names) /\ NamesAreOwn

LEMMA InitOwnNames == ConnectionsInit => OwnNames
<1> SUFFICES ASSUME ConnectionsInit PROVE OwnNames
    OBVIOUS
<1>1. listed = <<>> \/ listed = <<FirstName>>
    BY DEF ConnectionsInit
<1>2. listed \in Seq(Names)
    BY InitSaves DEF FileInv, ConnectionsTypeOK
<1>3. \A i, j \in DOMAIN listed : i = j
    BY <1>1
<1> QED
    BY <1>2, <1>3 DEF OwnNames, NamesAreOwn, IsInjective

\* Each way of the picker to change the list: a new name is added to it, or one
\* is taken out, or one is replaced by a new one.
LEMMA StepOwnNames == OwnNames /\ [RenamesNext]_all => OwnNames'
<1> SUFFICES ASSUME OwnNames, [RenamesNext]_all PROVE OwnNames'
    OBVIOUS
<1>1. /\ listed \in Seq(Names) /\ DOMAIN listed = 1..Len(listed) /\ Len(listed) \in Nat
      /\ \A i, j \in 1..Len(listed) : listed[i] = listed[j] => i = j
    BY DEF OwnNames, NamesAreOwn, IsInjective
<1>2. CASE \E n \in Names : Add(n)
  <2>1. PICK n \in Names : n \notin Listed /\ listed' = Append(listed, n)
    BY <1>2 DEF Add
  <2>2. /\ listed' \in Seq(Names) /\ DOMAIN listed' = 1..Len(listed) + 1
        /\ \A i \in 1..Len(listed) : listed'[i] = listed[i]
        /\ listed'[Len(listed) + 1] = n
    BY <1>1, <2>1
  <2>3. \A i \in 1..Len(listed) : listed[i] # n
    BY <1>1, <2>1 DEF Listed, ToSet
  <2> QED
    BY <1>1, <2>2, <2>3 DEF OwnNames, NamesAreOwn, IsInjective
<1>3. CASE \E n \in Names : RemoveEntry(n)
  <2>1. PICK k \in DOMAIN listed : listed' = RemoveAt(listed, k)
    BY <1>3 DEF RemoveEntry
  <2>2. /\ listed' \in Seq(Names) /\ DOMAIN listed' = 1..Len(listed) - 1
        /\ \A j \in 1..Len(listed) - 1 : listed'[j] = IF j < k THEN listed[j] ELSE listed[j + 1]
    BY <1>1, <2>1, WithoutOne, OthersStay
  <2> QED
    BY <1>1, <2>2 DEF OwnNames, NamesAreOwn, IsInjective
<1>4. CASE \E m, n \in Names : RenameEntry(m, n)
  <2>1. PICK m \in Names, n \in Names :
           listed' = IF n \in Listed THEN listed ELSE ReplaceAll(listed, m, n)
    BY <1>4 DEF RenameEntry, Renamed
  <2>2. CASE n \in Listed
    BY <2>1, <2>2 DEF OwnNames, NamesAreOwn, IsInjective
  <2>3. CASE n \notin Listed
    <3>1. listed' \in Seq(Names)
      BY <1>1, <2>1, <2>3, WithOther
    <3>2. DOMAIN listed' = 1..Len(listed)
          /\ \A i \in 1..Len(listed) : listed'[i] = IF listed[i] = m THEN n ELSE listed[i]
      BY <2>1, <2>3 DEF ReplaceAll
    <3>3. \A i \in 1..Len(listed) : listed[i] # n
      BY <1>1, <2>3 DEF Listed, ToSet
    <3> QED
      BY <1>1, <3>1, <3>2, <3>3 DEF OwnNames, NamesAreOwn, IsInjective
  <2> QED
    BY <2>2, <2>3
<1>5. CASE listed' = listed
    BY <1>5 DEF OwnNames, NamesAreOwn, IsInjective
<1> QED
    BY <1>2, <1>3, <1>4, <1>5 DEF RenamesNext, ConnectionsNext, Stays, Picker, Pick, Restart, all

\* For any names and number of entries no two entries share a name, whenever an
\* entry is renamed and whatever the files are doing (workspaces.rs:
\* add_connection, update_connection).
THEOREM NamesOwn == RenamesSpec \/ ConnectionsSpec => []NamesAreOwn
<1>1. OwnNames => NamesAreOwn
    BY DEF OwnNames
<1>2. OwnNames /\ [ConnectionsNext]_all => OwnNames'
    BY StepOwnNames DEF RenamesNext
<1> QED
    BY InitOwnNames, StepOwnNames, <1>1, <1>2, PTL DEF ConnectionsSpec, RenamesSpec
=================================================================================
