----------------------------- MODULE UndoHistory -----------------------------
(***************************************************************************)
(* The pages of a document, their undo history and the placement drag of   *)
(* the canvas: peek-canvas model.rs + history.rs, driven by the handlers   *)
(* of peek-ui's CanvasView and by the canvas tools an agent calls.         *)
(*                                                                         *)
(* Everything runs on the UI thread, so a handler is one step; what is     *)
(* concurrent is the order of the steps: the agent's tool calls arrive     *)
(* between any two of the user's.                                          *)
(*                                                                         *)
(* A page's content is a map from the nodes on it to a version, which      *)
(* stands for everything a snapshot compares (data, geometry, edges,       *)
(* regions).  The strip order of the pages is not part of this module.     *)
(***************************************************************************)
EXTENDS HistoryOps, FiniteSets

CONSTANTS Pages, Nodes, Versions,
          FirstPage,   \* the page a fresh document opens on
          Gone,        \* content of a page that is not in the document
          NoNode       \* placement: None

Contents == UNION {[S -> Versions] : S \in SUBSET Nodes}

ASSUME PagesAssumption == FirstPage \in Pages /\ Gone \notin Contents
ASSUME NodesAssumption == NoNode \notin Nodes

VARIABLES content,     \* persisted.pages, page by page
          active,      \* persisted.active_page_id
          h,           \* history
          placement,   \* CanvasView::placement
          dragging     \* CanvasView::interaction is Placing { placed: true }

vars == <<content, active, h, placement, dragging>>

Blank == [n \in {} |-> 0]

Kinds == {Structure, Move} \cup {Resize(n) : n \in Nodes}
                           \cup {Data(n) : n \in Nodes}

Txs == [page : Pages, kind : Kinds, before : Contents]

ASSUME NoTxAssumption == NoTx \notin Txs

Here     == content[active]
Lives(p) == content[p] # Gone

Put(c, n, v) == [m \in DOMAIN c \cup {n} |-> IF m = n THEN v ELSE c[m]]
Without(c, S) == [m \in DOMAIN c \ S |-> c[m]]

\* Every snapshot the history holds of page p.
Snapshots(p) ==
    {h.past[p][i] : i \in DOMAIN h.past[p]}
        \cup {h.future[p][i] : i \in DOMAIN h.future[p]}
        \cup (IF IsOpenOn(h, p) THEN {h.pending.before} ELSE {})

\* The page as its last sealed step left it.
BaseOf(p) == IF IsOpenOn(h, p) THEN h.pending.before ELSE content[p]

\* Ids are minted at random: a new node is one no page and no snapshot holds,
\* a new page one the history has never heard of.
FreshNode(n) ==
    /\ placement # n
    /\ \A p \in Pages : /\ Lives(p) => n \notin DOMAIN content[p]
                        /\ \A s \in Snapshots(p) : n \notin DOMAIN s

FreshPage(p) == ~Lives(p) /\ Snapshots(p) = {}

SetPage(p, c) == content' = [content EXCEPT ![p] = c]

TypeOK ==
    /\ content \in [Pages -> Contents \cup {Gone}]
    /\ active \in Pages
    /\ h \in [past    : [Pages -> Seq(Contents)],
              future  : [Pages -> Seq(Contents)],
              pending : Txs \cup {NoTx}]
    /\ placement \in Nodes \cup {NoNode}
    /\ dragging \in BOOLEAN

Init ==
    /\ content = [p \in Pages |-> IF p = FirstPage THEN Blank ELSE Gone]
    /\ active = FirstPage
    /\ h = EmptyHistory(Pages)
    /\ placement = NoNode
    /\ dragging = FALSE

----------------------------------------------------------------------------
(* The user's edits.  *)

\* translate_nodes, set_bounds, set_size, update_data: one frame of a drag or
\* one keystroke.  The value written may be the one the node already has.
Edit(n, v, kind, within) ==
    /\ n \in DOMAIN Here
    /\ kind \in {Move, Resize(n), Data(n)}
    /\ h' = Record(h, active, Here, kind, within)
    /\ SetPage(active, Put(Here, n, v))
    /\ UNCHANGED <<active, placement, dragging>>

\* set_intrinsic_size: a text node widening to its content opens no transaction.
Grow(n, v) ==
    /\ n \in DOMAIN Here
    /\ SetPage(active, Put(Here, n, v))
    /\ UNCHANGED <<active, h, placement, dragging>>

\* Drag end, resize end, editor blur.
Checkpoint ==
    /\ h' = Seal(h, active, Here)
    /\ UNCHANGED <<content, active, placement, dragging>>

\* A structural edit of the page on screen that its handler seals at once:
\* a connection, a drawing, a paste, the rows of a finished run.
AddNode(n, v) ==
    /\ FreshNode(n)
    /\ LET after == Put(Here, n, v)
       IN  /\ SetPage(active, after)
           /\ h' = Seal(Record(h, active, Here, Structure, FALSE), active, after)
    /\ UNCHANGED <<active, placement, dragging>>

\* Slip: a removal outside any transaction.
DeleteUnrecorded(S) ==
    /\ S \subseteq DOMAIN Here
    /\ SetPage(active, Without(Here, S))
    /\ h' = Seal(h, active, Here)
    /\ UNCHANGED <<active, placement, dragging>>

\* delete_selection: the transaction is opened before the removal is known to
\* remove anything, and only a removal that did is sealed.
DeleteSelection(S) ==
    LET after  == Without(Here, S)
        opened == Record(h, active, Here, Structure, FALSE)
    IN  /\ S \subseteq DOMAIN Here
        /\ SetPage(active, after)
        /\ h' = IF S = {} THEN opened ELSE Seal(opened, active, after)
        /\ UNCHANGED <<active, placement, dragging>>

\* restore_page: an old version of the page, picked with the mouse in the
\* history panel, comes back as one step.
RestorePage(c) ==
    /\ ~dragging
    /\ c # Here
    /\ \A n \in DOMAIN c : n \in DOMAIN Here \/ FreshNode(n)
    /\ SetPage(active, c)
    /\ h' = Seal(Record(h, active, Here, Structure, FALSE), active, c)
    /\ UNCHANGED <<active, placement, dragging>>

Undo ==
    /\ h' = StepBack(h, active, Here)
    /\ IF CanStepBack(h, active, Here)
         THEN SetPage(active, Undone(h, active, Here))
         ELSE UNCHANGED content
    /\ UNCHANGED <<active, placement, dragging>>

Redo ==
    /\ CanStepForward(h, active)
    /\ h' = StepForward(h, active, Here)
    /\ SetPage(active, Redone(h, active))
    /\ UNCHANGED <<active, placement, dragging>>

----------------------------------------------------------------------------
(* The placement drag.  *)

\* place_node: the transaction create_node opens stays open during the drag.
PlaceNode(n, v) ==
    /\ ~dragging
    /\ FreshNode(n)
    /\ h' = Record(h, active, Here, Structure, FALSE)
    /\ SetPage(active, Put(Here, n, v))
    /\ placement' = n
    /\ dragging' = TRUE
    /\ UNCHANGED active

ResizePlacement(v) ==
    /\ dragging
    /\ placement \in DOMAIN Here
    /\ SetPage(active, Put(Here, placement, v))
    /\ UNCHANGED <<active, h, placement, dragging>>

\* The release of the button.
CommitPlacement ==
    /\ dragging
    /\ dragging' = FALSE
    /\ placement' = NoNode
    /\ h' = IF placement = NoNode THEN h ELSE Seal(h, active, Here)
    /\ UNCHANGED <<content, active>>

\* Escape: whatever transaction is open is thrown away.
CancelPlacement ==
    /\ placement # NoNode
    /\ SetPage(active, Without(Here, {placement}))
    /\ h' = Discard(h)
    /\ placement' = NoNode
    /\ dragging' = FALSE
    /\ UNCHANGED active

----------------------------------------------------------------------------
(* Pages.  The view follows a page change with adopt_active_page, which      *)
(* makes the interaction idle and leaves the placement as it was.            *)

\* Slip: a page is left with its edit still open.
SwitchUnsealed(p) ==
    /\ Lives(p)
    /\ active' = p
    /\ dragging' = (dragging /\ p = active)
    /\ UNCHANGED <<content, h, placement>>

SwitchPage(p) ==
    /\ Lives(p)
    /\ h' = Seal(h, active, Here)
    /\ active' = p
    /\ dragging' = (dragging /\ p = active)
    /\ UNCHANGED <<content, placement>>

AddPage(p) ==
    /\ FreshPage(p)
    /\ h' = Seal(h, active, Here)
    /\ SetPage(p, Blank)
    /\ active' = p
    /\ dragging' = FALSE
    /\ UNCHANGED placement

\* delete_page: refused for the last page; the history keeps what it had of the
\* page, the open transaction included.  q is the page that is active next.
DeletePage(p, q) ==
    /\ Lives(p) /\ Lives(q) /\ p # q
    /\ p # active => q = active
    /\ SetPage(p, Gone)
    /\ active' = q
    /\ dragging' = FALSE
    /\ UNCHANGED <<h, placement>>

----------------------------------------------------------------------------
(* The agent.  *)

\* A canvas tool edits any page through the on_page lens: the active page is
\* not checkpointed and does not change.
ToolEdit(p, c) ==
    /\ Lives(p)
    /\ \A n \in DOMAIN c : n \in DOMAIN content[p] \/ FreshNode(n)
    /\ SetPage(p, c)
    /\ h' = Seal(Record(h, p, content[p], Structure, FALSE), p, c)
    /\ UNCHANGED <<active, placement, dragging>>

----------------------------------------------------------------------------
(* Three of the handlers act on a transaction that is not theirs.  The calm  *)
(* history leaves those moments out, and what it then promises is the        *)
(* timeline of UndoTimeline.                                                 *)

\* Redo while an edit is open: the edit is not sealed first.
RedoIsCalm == ~IsOpenOn(h, active)

\* A tool edit elsewhere seals the user's transaction without looking whether
\* it changed anything.
ToolIsCalm(p) ==
    (h.pending # NoTx /\ h.pending.page # p /\ Lives(h.pending.page))
        => content[h.pending.page] # h.pending.before

\* A cancelled placement discards the transaction the placement opened.
CancelIsCalm ==
    IF IsOpenOn(h, active)
      THEN Without(Here, {placement}) = h.pending.before
      ELSE placement \notin DOMAIN Here

CommonNext ==
    \/ \E n \in Nodes, v \in Versions :
          \/ \E kind \in Kinds, within \in BOOLEAN : Edit(n, v, kind, within)
          \/ Grow(n, v)
          \/ AddNode(n, v)
          \/ PlaceNode(n, v)
    \/ \E v \in Versions : ResizePlacement(v)
    \/ \E S \in SUBSET Nodes : DeleteSelection(S)
    \/ \E c \in Contents : RestorePage(c)
    \/ Checkpoint
    \/ Undo
    \/ CommitPlacement
    \/ \E p \in Pages : SwitchPage(p) \/ AddPage(p)
    \/ \E p, q \in Pages : DeletePage(p, q)

Next ==
    \/ CommonNext
    \/ Redo
    \/ CancelPlacement
    \/ \E p \in Pages, c \in Contents : ToolEdit(p, c)

CalmNext ==
    \/ CommonNext
    \/ RedoIsCalm /\ Redo
    \/ CancelIsCalm /\ CancelPlacement
    \/ \E p \in Pages, c \in Contents : ToolIsCalm(p) /\ ToolEdit(p, c)

Spec     == Init /\ [][Next]_vars
CalmSpec == Init /\ [][CalmNext]_vars

----------------------------------------------------------------------------
(* Safety, under Spec.  *)

\* Undo and redo move one budget of snapshots back and forth: the two stacks of
\* a page together never exceed UNDO_LIMIT, although redo pushes uncapped
\* (history.rs: seal, undo, redo).
HistoryBounded ==
    \A p \in Pages : Len(h.past[p]) + Len(h.future[p]) <= UndoLimit

\* The active page is always in the document, so the `expect` in
\* Document::active_page cannot panic, whatever is added or deleted.
ActivePageLives == Lives(active)

\* An open transaction is about the page on screen, or about a page that was
\* deleted under it: no edit is left open on a page the user has left.
PendingIsHere ==
    h.pending # NoTx => (h.pending.page = active \/ ~Lives(h.pending.page))

(* What holds of the calm history only.  *)

\* A node that leaves a page of the document is held by a snapshot of that
\* page, within reach of undo or redo - except a node the open transaction
\* itself created, which is what cancelling a placement takes back
\* (delete_selection, restore_page, undo, redo, the tools, escape).
DeletionIsUndoable ==
    [][\A p \in Pages :
          (Lives(p) /\ content'[p] # Gone) =>
             \A n \in DOMAIN content[p] \ DOMAIN content'[p] :
                \/ IsOpenOn(h, p) /\ n \notin DOMAIN h.pending.before
                \/ \E s \in Snapshots(p)' : n \in DOMAIN s]_vars

\* With an edit made since the undo there is nothing to redo: a redo finds the
\* page as undo left it (Document::redo).
EditClearsRedo == [][Redo => Here = BaseOf(active)]_vars

(* Refinement: the page, its two stacks and the open transaction, read as a  *)
(* line of states with the page's last sealed state in the middle.           *)

LineOf(p) ==
    LET back == Len(h.past[p])
        size == back + 1 + Len(h.future[p])
    IN  [i \in 1..size |-> IF i <= back THEN h.past[p][i]
                           ELSE IF i = back + 1 THEN BaseOf(p)
                           ELSE h.future[p][size + 1 - i]]

TimelineOf(p) ==
    [line |-> LineOf(p), at |-> Len(h.past[p]) + 1, draft |-> content[p]]

Timelines == [p \in {q \in Pages : Lives(q)} |-> TimelineOf(p)]

Abstract == INSTANCE UndoTimeline WITH timeline <- Timelines

\* Between the three moments calm leaves out, every page of the document is a
\* timeline (history.rs and the handlers that drive it).
ImplementsTimeline == Abstract!Spec
=============================================================================
