------------------------------- MODULE Gestures -------------------------------
(***************************************************************************)
(* The pointer, the selection and the camera of the canvas: the reducer of *)
(* peek-canvas gesture.rs, the selection of model.rs, the connection       *)
(* target of hit.rs, and the handlers of peek-ui's CanvasView that apply   *)
(* the reducer's effects, fly the camera and change pages.                 *)
(*                                                                         *)
(* Everything runs on the UI thread, so a handler is one step.  Between    *)
(* the press and the release of a button anything else may happen: a key,  *)
(* the wheel, a frame of a flight, a tool call of an agent.  Positions are *)
(* left out: what the pointer is over is a choice, and so is where a pan   *)
(* takes the camera.  What undo restores is some content; UndoHistory says *)
(* which.                                                                  *)
(***************************************************************************)
EXTENDS Integers, FiniteSets

CONSTANTS Pages, FirstPage,
          Nodes,
          Strokes,      \* the nodes that are drawings: presses pass through them
          CanConnect,   \* can_connect, as pairs of nodes
          Cameras, Home,
          None,         \* no hit, no placement, no flight, no open transaction
          MaxMoves,     \* bounds the presses, wheel turns, pinches and flights
          MaxEdits      \* bounds the keys and tool calls that edit or change pages

ASSUME CamerasAssumption == Home \in Cameras /\ None \notin Cameras
ASSUME NodesAssumption   == /\ None \notin Nodes /\ \A S \in SUBSET Nodes : S # None
                            /\ Strokes \subseteq Nodes
                            /\ CanConnect \subseteq (Nodes \ Strokes) \X (Nodes \ Strokes)
ASSUME PagesAssumption   == FirstPage \in Pages /\ {MaxMoves, MaxEdits} \subseteq Nat

VARIABLES board,      \* the nodes of each page, or None for a page that is not there
          edges,      \* its edges
          active,     \* active_page_id
          sel, esel,  \* selection, edge_selection
          at,         \* CanvasView::interaction
          placement,  \* CanvasView::placement
          entry,      \* the open undo transaction: its page, kind and writing presses
          camera, flight,
          viewport,   \* the viewport each page has persisted
          timer,      \* a wheel timer of the newest generation is running
          touching,   \* a pinch, or a scroll of the touchpad, has begun and not ended
          locked,     \* camera_locked
          moves, edits

doc   == <<board, edges, active>>
picks == <<sel, esel>>
hand  == <<at, placement>>
view  == <<camera, flight, viewport, timer, touching>>
count == <<moves, edits>>
vars  == <<doc, picks, hand, entry, view, locked, count>>

Buttons   == {"left", "other"}
Modifiers == {"none", "shift", "alt", "secondary"}
Regions   == {"header", "body", "resize"}

Idle == [kind |-> "Idle"]

NodeHits == Nodes \X Regions
Hits     == NodeHits \cup CanConnect \cup {None}

\* A card, an edge and the bare canvas are told apart.
ASSUME HitsAssumption == /\ None \notin NodeHits \cup CanConnect
                         /\ NodeHits \cap CanConnect = {}

Interactions ==
    [kind : {"Idle", "Panning"}]
    \cup [kind : {"Pending"}, button : Buttons, mod : Modifiers, on : Hits, press : Nat]
    \cup [kind : {"Marquee"}, baseline : SUBSET Nodes]
    \cup [kind : {"Dragging"}, ids : SUBSET Nodes, press : Nat]
    \cup [kind : {"Resizing"}, id : Nodes, press : Nat]
    \cup [kind : {"Connecting"}, source : Nodes]
    \cup [kind : {"Drawing"}, samples : 0..2]
    \cup [kind : {"Placing"}, landed : BOOLEAN, placed : BOOLEAN]

Here     == board[active]
Lives(p) == board[p] # None
Fresh(n) == placement # n /\ \A p \in Pages : Lives(p) => n \notin board[p]

EntryKinds == {<<"Move">>, <<"Structure">>} \cup {<<"Resize", n>> : n \in Nodes}

\* History::record for the press p: an edit of the same kind on the same page
\* joins the open transaction when it comes soon enough, any other seals it.
Begin(kind, presses, soon) ==
    IF entry # None /\ entry.page = active /\ entry.kind = kind
         /\ kind # <<"Structure">> /\ soon
      THEN [entry EXCEPT !.by = @ \cup presses]
      ELSE [page |-> active, kind |-> kind, by |-> presses]

\* The placed node is being sized by the pointer.
Sizing == at.kind = "Placing" /\ at.placed

TypeOK ==
    /\ board \in [Pages -> {None} \cup SUBSET Nodes]
    /\ edges \in [Pages -> SUBSET CanConnect]
    /\ active \in Pages /\ Lives(active)
    /\ sel \subseteq Nodes /\ esel \subseteq CanConnect
    /\ at \in Interactions
    /\ placement \in Nodes \cup {None}
    /\ entry \in {None} \cup [page : Pages, kind : EntryKinds, by : SUBSET Nat]
    /\ camera \in Cameras /\ flight \in Cameras \cup {None}
    /\ viewport \in [Pages -> Cameras]
    /\ {timer, touching, locked} \subseteq BOOLEAN
    /\ moves \in 0..MaxMoves /\ edits \in 0..MaxEdits

Init ==
    /\ \E S \in SUBSET Nodes :
          board = [p \in Pages |-> IF p = FirstPage THEN S ELSE None]
    /\ edges = [p \in Pages |-> {}]
    /\ active = FirstPage
    /\ sel = {} /\ esel = {}
    /\ at = Idle /\ placement = None
    /\ entry = None
    /\ camera = Home /\ flight = None
    /\ viewport = [p \in Pages |-> Home]
    /\ timer = FALSE /\ touching = FALSE /\ locked = FALSE
    /\ moves = 0 /\ edits = 0

Moved  == moves < MaxMoves /\ moves' = moves + 1 /\ UNCHANGED edits
Edited == edits < MaxEdits /\ edits' = edits + 1 /\ UNCHANGED moves

----------------------------------------------------------------------------
(* The press.  *)

\* An armed tool takes a left press and ignores the others.
PressArmed ==
    /\ Moved
    /\ at.kind = "Placing"
    /\ at' = [at EXCEPT !.landed = TRUE, !.placed = FALSE]
    /\ UNCHANGED <<doc, picks, placement, entry, view, locked>>

PressPen ==
    /\ Moved
    /\ at.kind = "Drawing"
    /\ at' = [at EXCEPT !.samples = 1]
    /\ UNCHANGED <<doc, picks, placement, entry, view, locked>>

\* What the pointer may be over: a card of the page, an edge, or bare canvas.
Under(on) ==
    \/ on = None
    \/ on \in NodeHits /\ on[1] \in Here \ Strokes
    \/ on \in edges[active]

\* on_down: a second button does nothing while a gesture runs, and a locked
\* camera refuses the presses that would pan.
Down(button, on, mod, space) ==
    /\ Moved
    /\ at = Idle
    /\ Under(on)
    /\ button # "left" \/ space => ~locked
    /\ at' = IF button = "left" /\ space
               THEN [kind |-> "Panning"]
               ELSE [kind |-> "Pending", button |-> button, mod |-> mod,
                     on |-> on, press |-> moves']
    /\ UNCHANGED <<doc, picks, placement, entry, view, locked>>

----------------------------------------------------------------------------
(* The drag.  *)

\* Effect::Pan: a pan ends the flight.
Pan(c) ==
    /\ camera' = c
    /\ flight' = None
    /\ UNCHANGED <<viewport, timer, touching>>

DragPans(c) ==
    /\ \/ at.kind = "Panning"
       \/ at.kind = "Pending" /\ at.button # "left"
    /\ at' = [kind |-> "Panning"]
    /\ Pan(c)
    /\ UNCHANGED <<doc, picks, placement, entry, locked, count>>

\* A press on a card that becomes a drag: alt makes it a connection before any
\* other rule; a body press stays with the card unless secondary is held.
GrabbedNode == at.kind = "Pending" /\ at.button = "left" /\ at.on \in NodeHits

DragConnects ==
    /\ GrabbedNode /\ at.mod = "alt"
    /\ at' = [kind |-> "Connecting", source |-> at.on[1]]
    /\ UNCHANGED <<doc, picks, placement, entry, view, locked, count>>

Grips(region) ==
    /\ GrabbedNode /\ at.mod # "alt"
    /\ at.on[2] = region
    /\ region = "body" => at.mod = "secondary"

DragResizes(soon) ==
    LET resize(id, press) ==
            /\ entry' = Begin(<<"Resize", id>>, {press}, soon)
            /\ at' = [kind |-> "Resizing", id |-> id, press |-> press]
    IN  /\ \/ Grips("resize") /\ resize(at.on[1], at.press)
           \/ at.kind = "Resizing" /\ resize(at.id, at.press)
        /\ UNCHANGED <<doc, picks, placement, view, locked, count>>

\* The first frame decides what the drag moves: the selection if the card is in
\* it, with shift the selection and the card, else the card alone.
DragLifts(soon) ==
    LET n     == at.on[1]
        ids   == IF n \in sel THEN sel
                 ELSE IF at.mod = "shift" THEN sel \cup {n} ELSE {n}
        alone == n \notin sel /\ at.mod # "shift"
    IN  /\ Grips("header") \/ Grips("body")
        /\ sel' = ids
        /\ esel' = IF alone THEN {} ELSE esel
        /\ entry' = Begin(<<"Move">>, {at.press}, soon)
        /\ at' = [kind |-> "Dragging", ids |-> ids, press |-> at.press]
        /\ UNCHANGED <<doc, placement, view, locked, count>>

\* translate_nodes opens its transaction even when none of the nodes is left.
DragMoves(soon) ==
    /\ at.kind = "Dragging"
    /\ entry' = Begin(<<"Move">>, {at.press}, soon)
    /\ UNCHANGED <<doc, picks, hand, view, locked, count>>

\* Bare canvas: a marquee selects the nodes it overlaps, with shift on top of
\* what was selected when it began.
DragSweeps(S) ==
    /\ \/ at.kind = "Marquee"
       \/ at.kind = "Pending" /\ at.button = "left" /\ at.on = None
    /\ S \subseteq Here
    /\ at' = IF at.kind = "Marquee" THEN at
             ELSE [kind |-> "Marquee",
                   baseline |-> IF at.mod = "shift" THEN sel ELSE {}]
    /\ sel' = at'.baseline \cup S
    /\ esel' = {}
    /\ UNCHANGED <<doc, placement, entry, view, locked, count>>

\* place_node on the first frame past the threshold, resize_placement after.
DragPlaces(n) ==
    /\ at.kind = "Placing" /\ at.landed /\ ~at.placed
    /\ Fresh(n) /\ n \notin Strokes
    /\ board' = [board EXCEPT ![active] = @ \cup {n}]
    /\ entry' = Begin(<<"Structure">>, {}, FALSE)
    /\ sel' = {n} /\ esel' = {}
    /\ placement' = n
    /\ at' = [at EXCEPT !.placed = TRUE]
    /\ UNCHANGED <<edges, active, view, locked, count>>

DragDraws ==
    /\ at.kind = "Drawing" /\ at.samples = 1
    /\ at' = [at EXCEPT !.samples = 2]
    /\ UNCHANGED <<doc, picks, placement, entry, view, locked, count>>

----------------------------------------------------------------------------
(* The release.  Whatever button it is of, it takes the interaction.  *)

\* A press that never became a drag selects, if it was a left one.
Click(button) ==
    /\ at.kind = "Pending"
    /\ at' = Idle
    /\ LET counts == at.button = button /\ button = "left"
           shift  == at.mod = "shift"
       IN  CASE counts /\ at.on \in NodeHits /\ shift ->
                  /\ sel' = IF at.on[1] \in sel THEN sel \ {at.on[1]} ELSE sel \cup {at.on[1]}
                  /\ UNCHANGED esel
             [] counts /\ at.on \in NodeHits /\ ~shift ->
                  sel' = {at.on[1]} /\ esel' = {}
             [] counts /\ at.on \in CanConnect /\ shift ->
                  /\ esel' = IF at.on \in esel THEN esel \ {at.on} ELSE esel \cup {at.on}
                  /\ UNCHANGED sel
             [] counts /\ at.on \in CanConnect /\ ~shift ->
                  sel' = {} /\ esel' = {at.on}
             [] counts /\ at.on = None /\ ~shift ->
                  sel' = {} /\ esel' = {}
             [] OTHER -> UNCHANGED picks
    /\ UNCHANGED <<doc, placement, entry, view, locked, count>>

\* Slip: the end of a drag leaves its transaction to the clock.
GestureEndedUnsealed ==
    /\ at.kind \in {"Panning", "Marquee", "Dragging", "Resizing"}
    /\ at' = Idle
    /\ viewport' = [viewport EXCEPT ![active] = camera]
    /\ UNCHANGED <<doc, picks, placement, entry, camera, flight, timer, touching, locked, count>>

\* Effect::GestureEnded: seal the transaction, persist the viewport.
GestureEnded ==
    /\ at.kind \in {"Panning", "Marquee", "Dragging", "Resizing"}
    /\ at' = Idle
    /\ entry' = None
    /\ viewport' = [viewport EXCEPT ![active] = camera]
    /\ UNCHANGED <<doc, picks, placement, camera, flight, timer, touching, locked, count>>

\* Slip: the source is taken from the press without looking whether it is there.
AcceptsBlindly(source, t) ==
    /\ t \in Here
    /\ <<source, t>> \in CanConnect \ edges[active]

\* connection_target: the card under the release, if the edge is allowed, new,
\* and both its ends are on the page.
Accepts(source, t) ==
    /\ {source, t} \subseteq Here
    /\ source # t
    /\ <<source, t>> \in CanConnect \ edges[active]

ReleaseConnects(t) ==
    /\ at.kind = "Connecting"
    /\ at' = Idle
    /\ IF Accepts(at.source, t)
         THEN /\ edges' = [edges EXCEPT ![active] = @ \cup {<<at.source, t>>}]
              /\ entry' = None
         ELSE UNCHANGED <<edges, entry>>
    /\ UNCHANGED <<board, active, picks, placement, view, locked, count>>

\* fly_to: a flight to where the camera is, or with motion reduced, is over at once.
Flies(from, to, saved, instant) ==
    IF instant \/ from = to
      THEN /\ camera' = to /\ flight' = None
           /\ viewport' = [saved EXCEPT ![active'] = to]
      ELSE /\ camera' = from /\ flight' = to
           /\ viewport' = saved

\* commit_placement: nothing more happens if the node was undone meanwhile.
CommitsTo(there, c, instant) ==
    /\ entry' = None
    /\ placement' = None
    /\ IF there THEN Flies(camera, c, viewport, instant)
                ELSE UNCHANGED <<camera, flight, viewport>>
    /\ UNCHANGED <<timer, touching>>

\* A release commits a placed node whatever its button, and a left click places
\* one of the default size.  Any other release puts the tool away.
ReleasePlaces(c, instant) ==
    /\ Sizing
    /\ at' = Idle
    /\ UNCHANGED <<doc, picks, locked, count>>
    /\ CommitsTo(placement \in Here, c, instant)

ClickPlaces(n, c, instant) ==
    /\ at.kind = "Placing" /\ at.landed /\ ~at.placed
    /\ Fresh(n) /\ n \notin Strokes
    /\ at' = Idle
    /\ board' = [board EXCEPT ![active] = @ \cup {n}]
    /\ sel' = {n} /\ esel' = {}
    /\ UNCHANGED <<edges, active, locked, count>>
    /\ CommitsTo(TRUE, c, instant)

ReleaseDisarms ==
    /\ at.kind = "Placing" /\ ~at.placed
    /\ at' = Idle
    /\ UNCHANGED <<doc, picks, placement, entry, view, locked, count>>

\* The pen stays armed; a stroke of two samples becomes a node in one step.
ReleasePen(n) ==
    /\ at.kind = "Drawing" /\ at.samples > 0
    /\ at' = [at EXCEPT !.samples = 0]
    /\ IF at.samples = 2
         THEN /\ Fresh(n) /\ n \in Strokes
              /\ board' = [board EXCEPT ![active] = @ \cup {n}]
              /\ entry' = None
         ELSE UNCHANGED <<board, entry>>
    /\ UNCHANGED <<edges, active, picks, placement, view, locked, count>>

----------------------------------------------------------------------------
(* The camera.  The viewport is persisted by the end of a gesture, the end   *)
(* of a flight, the wheel's timer, and before a page is left.                *)

\* A wheel turn pans or zooms and starts the timer over; under a locked camera
\* only the timer is started.
Wheel(c) ==
    /\ Moved
    /\ IF locked THEN UNCHANGED <<camera, flight>> ELSE camera' = c /\ flight' = None
    /\ timer' = TRUE
    /\ UNCHANGED <<doc, picks, hand, entry, viewport, touching, locked>>

TimerFires ==
    /\ timer
    /\ timer' = FALSE
    /\ viewport' = [viewport EXCEPT ![active] = camera]
    /\ UNCHANGED <<doc, picks, hand, entry, camera, flight, touching, locked, count>>

Touch(c) ==
    /\ Moved
    /\ ~locked
    /\ camera' = c /\ flight' = None
    /\ touching' = TRUE
    /\ UNCHANGED <<doc, picks, hand, entry, viewport, timer, locked>>

\* Phase::Ended seals and persists, like any end of a gesture - but not under a
\* camera locked since the touch began.
TouchEnds ==
    /\ touching
    /\ touching' = FALSE
    /\ IF locked THEN UNCHANGED <<entry, viewport>>
       ELSE entry' = None /\ viewport' = [viewport EXCEPT ![active] = camera]
    /\ UNCHANGED <<doc, picks, hand, camera, flight, timer, locked, count>>

\* The zoom commands, fit view, a search hit, a canvas tool that moves the camera.
FlyTo(c, instant) ==
    /\ Moved
    /\ UNCHANGED <<doc, picks, hand, entry, timer, touching, locked>>
    /\ Flies(camera, c, viewport, instant)

\* go_to: a jump label or an arrow key.
GoTo(n, c, instant) ==
    /\ Moved
    /\ n \in Here
    /\ sel' = {n} /\ esel' = {}
    /\ UNCHANGED <<doc, hand, entry, timer, touching, locked>>
    /\ Flies(camera, c, viewport, instant)

FlightTicks(c) ==
    /\ flight # None
    /\ camera' = c
    /\ UNCHANGED <<doc, picks, hand, entry, flight, viewport, timer, touching, locked, count>>

\* Slip: the last frame of a flight is only drawn.
FlightEndsUnsaved ==
    /\ flight # None
    /\ camera' = flight
    /\ flight' = None
    /\ UNCHANGED <<doc, picks, hand, entry, viewport, timer, touching, locked, count>>

FlightEnds ==
    /\ flight # None
    /\ camera' = flight
    /\ flight' = None
    /\ viewport' = [viewport EXCEPT ![active] = flight]
    /\ UNCHANGED <<doc, picks, hand, entry, timer, touching, locked, count>>

ToggleLock ==
    /\ locked' = ~locked
    /\ UNCHANGED <<doc, picks, hand, entry, view, count>>

----------------------------------------------------------------------------
(* The keys.  *)

Without(E, S) == {e \in E : {e[1], e[2]} \cap S = {}}

Keeps(nodes, links) ==
    /\ board' = [board EXCEPT ![active] = nodes]
    /\ edges' = [edges EXCEPT ![active] = links]
    /\ UNCHANGED active

\* prune_selection.
Pruned == sel' = sel \cap board'[active'] /\ esel' = esel \cap edges'[active']

\* arm_tool overwrites whatever the pointer was doing.
Arm(tool) ==
    /\ Edited
    /\ at' = IF tool = "pen" THEN [kind |-> "Drawing", samples |-> 0]
             ELSE [kind |-> "Placing", landed |-> FALSE, placed |-> FALSE]
    /\ UNCHANGED <<doc, picks, placement, entry, view, locked>>

\* Slip: escape forgets the node it was sizing.
EscapeKeepingNode ==
    /\ Edited
    /\ at' = Idle
    /\ sel' = {} /\ esel' = {}
    /\ UNCHANGED <<doc, placement, entry, view, locked>>

\* clear_selection, on the bare canvas: the placed node goes, and the open
\* transaction with it.
Escape ==
    /\ Edited
    /\ at' = Idle
    /\ placement' = None
    /\ entry' = IF placement = None THEN entry ELSE None
    /\ Keeps(Here \ {placement}, Without(edges[active], {placement}))
    /\ sel' = {} /\ esel' = {}
    /\ UNCHANGED <<view, locked>>

SelectAll ==
    /\ Edited
    /\ sel' = Here /\ esel' = {}
    /\ UNCHANGED <<doc, hand, entry, view, locked>>

\* delete_selection: the transaction is opened in any case, and sealed if
\* something was there to remove.
DeleteKey ==
    LET removes == sel \cap Here # {} \/ esel \cap edges[active] # {}
    IN  /\ Edited
        /\ Keeps(Here \ sel, Without(edges[active], sel) \ esel)
        /\ IF removes THEN entry' = None /\ Pruned
           ELSE entry' = Begin(<<"Structure">>, {}, FALSE) /\ UNCHANGED picks
        /\ UNCHANGED <<hand, view, locked>>

\* Slip: a restored page keeps the selection it found.
TravelUnpruned(nodes, links) ==
    /\ Edited
    /\ <<nodes, links>> # <<Here, edges[active]>>
    /\ Keeps(nodes, links)
    /\ entry' \in {None, entry}
    /\ UNCHANGED <<picks, hand, view, locked>>

\* undo and redo: the page becomes a content it had before.  Only undo seals.
Travel(nodes, links) ==
    /\ Edited
    /\ <<nodes, links>> # <<Here, edges[active]>>
    /\ Keeps(nodes, links)
    /\ Pruned
    /\ entry' \in {None, entry}
    /\ UNCHANGED <<hand, view, locked>>

----------------------------------------------------------------------------
(* Pages.  adopt_active_page drops the gesture and the flight of the page    *)
(* that is left, keeps the placement, and takes the camera of the new one.   *)

Adopts(p) ==
    /\ at' = Idle
    /\ flight' = None
    /\ camera' = viewport'[p]
    /\ sel' = {} /\ esel' = {}
    /\ UNCHANGED <<placement, timer, touching, locked>>

\* Slip: the camera is persisted once the new page is active.
SwitchSavingLate(p) ==
    /\ Edited
    /\ Lives(p) /\ p # active
    /\ active' = p
    /\ viewport' = [viewport EXCEPT ![p] = camera]
    /\ entry' = None
    /\ UNCHANGED <<board, edges>>
    /\ Adopts(p)

\* switch_to_page, and a canvas tool that reveals the page of its node.
SwitchTo(p) ==
    /\ Edited
    /\ Lives(p) /\ p # active
    /\ active' = p
    /\ viewport' = [viewport EXCEPT ![active] = camera]
    /\ entry' = None
    /\ UNCHANGED <<board, edges>>
    /\ Adopts(p)

NewPage(p) ==
    /\ Edited
    /\ ~Lives(p)
    /\ board' = [board EXCEPT ![p] = {}]
    /\ active' = p
    /\ viewport' = [viewport EXCEPT ![active] = camera]
    /\ entry' = None
    /\ UNCHANGED edges
    /\ Adopts(p)

\* delete_page: q is the page that is active next.  The camera is reloaded even
\* when another page is deleted than the one on screen.
DeletePage(p, q) ==
    /\ Edited
    /\ Lives(p) /\ Lives(q) /\ p # q
    /\ p # active => q = active
    /\ board' = [board EXCEPT ![p] = None]
    /\ edges' = [edges EXCEPT ![p] = {}]
    /\ active' = q
    /\ viewport' = [viewport EXCEPT ![p] = Home]
    /\ UNCHANGED entry
    /\ Adopts(q)

----------------------------------------------------------------------------
(* The tool calls.  Each persists the camera before it runs.  *)

\* connect_nodes and the updates edit a page without showing it.
ToolConnects(p, e) ==
    /\ Edited
    /\ Lives(p) /\ {e[1], e[2]} \subseteq board[p] /\ e \notin edges[p]
    /\ edges' = [edges EXCEPT ![p] = @ \cup {e}]
    /\ entry' = None
    /\ viewport' = [viewport EXCEPT ![active] = camera]
    /\ UNCHANGED <<board, active, picks, hand, camera, flight, timer, touching, locked>>

\* The create tools and select_nodes, on the page on screen.
ToolCreates(n) ==
    /\ Edited
    /\ Fresh(n) /\ n \notin Strokes
    /\ board' = [board EXCEPT ![active] = @ \cup {n}]
    /\ entry' = None
    /\ viewport' = [viewport EXCEPT ![active] = camera]
    /\ UNCHANGED <<edges, active, picks, hand, camera, flight, timer, touching, locked>>

ToolSelects(S) ==
    /\ Edited
    /\ S \subseteq Here /\ S # {}
    /\ sel' = S /\ esel' = {}
    /\ entry' = None
    /\ viewport' = [viewport EXCEPT ![active] = camera]
    /\ UNCHANGED <<doc, hand, camera, flight, timer, touching, locked>>

----------------------------------------------------------------------------
(* A gesture is interrupted by a key or a tool call without being ended.     *)
(* The calm canvas leaves out the moments at which that costs something.     *)

\* Escape and the tool keys drop a pan without persisting where it went and a
\* drag without sealing it; a tool key also lets go of a node half placed.
EscapeIsCalm == at.kind \notin {"Panning", "Dragging", "Resizing"}
ArmIsCalm    == EscapeIsCalm /\ ~Sizing

\* A page change keeps the id of a node half placed; a second press does too,
\* when the release between was swallowed by the jump labels.
PageIsCalm   == ~Sizing

\* The deletion of a page drops a drag without sealing it, and keeps the
\* transaction even if the drag was on a page that stays.
DeletionIsCalm == at.kind \notin {"Dragging", "Resizing"}

\* The end of a touch is refused by a camera locked meanwhile.
LockIsCalm   == ~touching

\* The release of a press, and a marquee, select what was there at the press.
RemovalIsCalm == at.kind \notin {"Pending", "Marquee"}

Pointer ==
    \/ PressPen
    \/ \E button \in Buttons, on \in Hits, mod \in Modifiers, space \in BOOLEAN :
          Down(button, on, mod, space)
    \/ DragConnects
    \/ \E c \in Cameras : DragPans(c)
    \/ \E soon \in BOOLEAN : DragResizes(soon) \/ DragLifts(soon) \/ DragMoves(soon)
    \/ \E S \in SUBSET Nodes : DragSweeps(S)
    \/ \E n \in Nodes : DragPlaces(n) \/ ReleaseConnects(n) \/ ReleasePen(n)
    \/ DragDraws
    \/ \E button \in Buttons : Click(button)
    \/ GestureEnded
    \/ ReleaseDisarms
    \/ \E c \in Cameras, instant \in BOOLEAN :
          \/ ReleasePlaces(c, instant)
          \/ \E n \in Nodes : ClickPlaces(n, c, instant)

Camera ==
    \/ \E c \in Cameras : Wheel(c) \/ Touch(c) \/ FlightTicks(c)
    \/ \E c \in Cameras, instant \in BOOLEAN :
          \/ FlyTo(c, instant)
          \/ \E n \in Nodes : GoTo(n, c, instant)
    \/ TimerFires
    \/ TouchEnds
    \/ FlightEnds

Rest ==
    \/ SelectAll
    \/ \E p \in Pages, e \in CanConnect : ToolConnects(p, e)
    \/ \E n \in Nodes : ToolCreates(n)
    \/ \E S \in SUBSET Nodes : ToolSelects(S)

Removal ==
    \/ DeleteKey
    \/ \E S \in SUBSET Nodes : \E E \in SUBSET CanConnect :
          /\ \A e \in E : {e[1], e[2]} \subseteq S
          /\ \A n \in S \ Here : Fresh(n)
          /\ Travel(S, E)

Paging == \E p \in Pages : SwitchTo(p) \/ NewPage(p)
Deletion == \E p, q \in Pages : DeletePage(p, q)

Arming == \E tool \in {"pen", "card"} : Arm(tool)

Next ==
    Pointer \/ PressArmed \/ Camera \/ Rest \/ Removal \/ Paging \/ Deletion \/ Arming \/ Escape \/ ToggleLock

CalmNext ==
    \/ Pointer
    \/ Camera
    \/ Rest
    \/ ~Sizing /\ PressArmed
    \/ RemovalIsCalm /\ Removal
    \/ PageIsCalm /\ Paging
    \/ PageIsCalm /\ DeletionIsCalm /\ Deletion
    \/ ArmIsCalm /\ Arming
    \/ EscapeIsCalm /\ Escape
    \/ LockIsCalm /\ ToggleLock

Spec == Init /\ [][Next]_vars

\* The frame of a flight and the wheel's timer come from the platform; so does
\* the end of a touch.
CalmSpec ==
    /\ Init /\ [][CalmNext]_vars
    /\ WF_vars(FlightEnds) /\ WF_vars(TimerFires) /\ WF_vars(TouchEnds)

----------------------------------------------------------------------------
(* Properties of the calm canvas.  *)

\* What is selected is on the page on screen, whatever was undone, deleted or
\* switched since: the delete key and the counts of the dock read the selection
\* without looking (prune_selection, switch_page, remove).
SelectionLives == sel \subseteq Here /\ esel \subseteq edges[active]

\* Every edge has both its ends on its page, although the source of a
\* connection may be deleted while the connection is being dragged
\* (connection_target, remove_node).
EdgesHaveEnds ==
    \A p \in Pages : \A e \in edges[p] : Lives(p) /\ {e[1], e[2]} \subseteq board[p]

\* No id is held of a node or an edge that is not there.
NothingDangles == TypeOK /\ SelectionLives /\ EdgesHaveEnds

\* However quickly one drag follows another, the two are two undo steps
\* (Effect::GestureEnded, History::record).
OneDragPerEntry == entry # None => Cardinality(entry.by) <= 1

\* A half-placed node is always one the pointer is still sizing, so that the
\* release commits it or escape takes it back (on_up, clear_selection).
HalfPlacedIsHeld == placement # None <=> Sizing

\* A page is found again as it was left: leaving it persists its camera, and
\* nothing done on one page writes the viewport of another - not the timer of a
\* wheel turned before the switch, nor a flight begun before it
\* (switch_to_page, adopt_active_page, run_tool).
ViewsStayApart ==
    [][\A p \in Pages :
          (Lives(p) /\ board'[p] # None /\ p # active') =>
             viewport'[p] = IF p = active THEN camera ELSE viewport[p]]_vars

\* Wherever the camera is taken, the page's viewport follows it there once the
\* hand is off (commit_viewport and its callers).
CameraIsSaved ==
    (camera # viewport[active]) ~> (camera = viewport[active] \/ at.kind = "Panning")
=============================================================================
