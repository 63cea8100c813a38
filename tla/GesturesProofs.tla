---------------------------- MODULE GesturesProofs ----------------------------
(***************************************************************************)
(* The calm canvas, for any pages, nodes, connections and cameras.         *)
(*                                                                         *)
(* That nothing dangles depends on what a press remembers: the card under  *)
(* it, and the marquee's baseline, are still there at the release.  That   *)
(* two drags are two undo steps depends on what is known of the open       *)
(* transaction when no drag runs: no drag wrote it.                        *)
(***************************************************************************)
EXTENDS Gestures, FiniteSetTheorems, TLAPS

DocInv ==
    /\ board \in [Pages -> {None} \cup SUBSET Nodes]
    /\ edges \in [Pages -> SUBSET CanConnect]
    /\ active \in Pages /\ Lives(active)
    /\ EdgesHaveEnds

PickInv ==
    /\ sel \subseteq Nodes /\ esel \subseteq CanConnect
    /\ SelectionLives

HoldsHere ==
    /\ at.kind = "Pending" => /\ at.on \in NodeHits => at.on[1] \in Here
                              /\ at.on \in CanConnect => at.on \in edges[active]
    /\ at.kind = "Marquee" => at.baseline \subseteq Here

HandInv ==
    /\ at \in Interactions /\ placement \in Nodes \cup {None}
    /\ HoldsHere /\ HalfPlacedIsHeld

\* The press a drag runs for, and no other, may have written the open entry.
PressInv ==
    entry # None =>
       \/ entry.by = {}
       \/ at.kind \in {"Dragging", "Resizing"} /\ entry.by = {at.press}

Entries == {None} \cup [page : Pages, kind : EntryKinds, by : SUBSET Nat]

EntryInv == entry \in Entries /\ PressInv

SeenInv ==
    /\ camera \in Cameras /\ flight \in Cameras \cup {None}
    /\ viewport \in [Pages -> Cameras]
    /\ {timer, touching, locked} \subseteq BOOLEAN

CountInv == moves \in 0..MaxMoves /\ edits \in 0..MaxEdits

ViewInv == SeenInv /\ CountInv

GestureInv == DocInv /\ PickInv /\ HandInv /\ EntryInv /\ ViewInv

--------------------------------------------------------------------------------
LEMMA TypeParts == GestureInv <=> TypeOK /\ SelectionLives /\ EdgesHaveEnds /\ HoldsHere
                                    /\ HalfPlacedIsHeld /\ PressInv
BY DEF GestureInv, DocInv, PickInv, HandInv, EntryInv, ViewInv, SeenInv, CountInv, TypeOK, Entries

LEMMA Bounds == MaxMoves \in Nat /\ MaxEdits \in Nat
BY PagesAssumption

(* The fields an interaction has, by its kind. *)
LEMMA Fields ==
  ASSUME at \in Interactions
  PROVE  /\ at.kind = "Idle" => at = Idle
         /\ at.kind = "Pending" => /\ at.button \in Buttons /\ at.mod \in Modifiers
                                   /\ at.on \in Hits /\ at.press \in Nat
         /\ at.kind = "Marquee" => at.baseline \subseteq Nodes
         /\ at.kind = "Dragging" => at.ids \subseteq Nodes /\ at.press \in Nat
         /\ at.kind = "Resizing" => at.id \in Nodes /\ at.press \in Nat
         /\ at.kind = "Connecting" => at.source \in Nodes
         /\ at.kind = "Drawing" => at \in [kind : {"Drawing"}, samples : 0..2]
         /\ at.kind = "Placing" => at \in [kind : {"Placing"}, landed : BOOLEAN, placed : BOOLEAN]
BY DEF Interactions, Idle

--------------------------------------------------------------------------------
(* What each step of the pointer, the camera, the keys and the tools keeps: the  *)
(* page and its edges, the selection, the hand and the open transaction.  The    *)
(* cameras and the counters are taken together, further down.                    *)
LEMMA PressPenStep ==
  ASSUME GestureInv,
         PressPen
  PROVE  DocInv' /\ PickInv' /\ HandInv' /\ EntryInv'
<1>1. DocInv'
  BY DEF GestureInv, DocInv, EdgesHaveEnds, Lives, doc, PressPen
<1>2. PickInv'
  BY DEF GestureInv, PickInv, SelectionLives, Here, doc, picks, PressPen
<1>3. HandInv'
  BY DEF GestureInv, HandInv, HoldsHere, HalfPlacedIsHeld, Sizing, Interactions, PressPen
<1>4. EntryInv'
  BY DEF GestureInv, EntryInv, PressInv, PressPen
<1> QED
  BY <1>1, <1>2, <1>3, <1>4

LEMMA DownStep ==
  ASSUME GestureInv,
         NEW button \in Buttons,
         NEW on \in Hits,
         NEW mod \in Modifiers,
         NEW space \in BOOLEAN,
         Down(button, on, mod, space)
  PROVE  DocInv' /\ PickInv' /\ HandInv' /\ EntryInv'
<1>1. DocInv'
  BY DEF GestureInv, DocInv, EdgesHaveEnds, Lives, doc, Down
<1>2. PickInv'
  BY DEF GestureInv, PickInv, SelectionLives, Here, doc, picks, Down
<1>3. HandInv'
  <2>1. at' \in Interactions
    <3>1. moves' \in Nat
      BY DEF GestureInv, ViewInv, CountInv, Down, Moved
    <3> QED
      BY <3>1 DEF Interactions, Down
  <2>2. HoldsHere'
    BY HitsAssumption DEF GestureInv, DocInv, HoldsHere, Here, Down, Under, doc
  <2>3. HalfPlacedIsHeld'
    BY DEF GestureInv, HandInv, HalfPlacedIsHeld, Sizing, Idle, Down
  <2> QED
    BY <2>1, <2>2, <2>3 DEF GestureInv, HandInv, Down
<1>4. EntryInv'
  BY DEF GestureInv, EntryInv, PressInv, Idle, Down
<1> QED
  BY <1>1, <1>2, <1>3, <1>4

LEMMA DragConnectsStep ==
  ASSUME GestureInv,
         DragConnects
  PROVE  DocInv' /\ PickInv' /\ HandInv' /\ EntryInv'
<1>1. DocInv'
  BY DEF GestureInv, DocInv, EdgesHaveEnds, Lives, doc, DragConnects
<1>2. PickInv'
  BY DEF GestureInv, PickInv, SelectionLives, Here, doc, picks, DragConnects
<1>3. HandInv'
  BY DEF GestureInv, DocInv, HandInv, HoldsHere, HalfPlacedIsHeld, Sizing, Here, Lives, Interactions,
         DragConnects, GrabbedNode
<1>4. EntryInv'
  BY DEF GestureInv, EntryInv, PressInv, DragConnects, GrabbedNode
<1> QED
  BY <1>1, <1>2, <1>3, <1>4

LEMMA DragPansStep ==
  ASSUME GestureInv,
         NEW c \in Cameras,
         DragPans(c)
  PROVE  DocInv' /\ PickInv' /\ HandInv' /\ EntryInv'
<1>1. DocInv'
  BY DEF GestureInv, DocInv, EdgesHaveEnds, Lives, doc, DragPans
<1>2. PickInv'
  BY DEF GestureInv, PickInv, SelectionLives, Here, doc, picks, DragPans
<1>3. HandInv'
  BY DEF GestureInv, HandInv, HoldsHere, HalfPlacedIsHeld, Sizing, Interactions, DragPans
<1>4. EntryInv'
  BY DEF GestureInv, EntryInv, PressInv, DragPans
<1> QED
  BY <1>1, <1>2, <1>3, <1>4

LEMMA DragResizesStep ==
  ASSUME GestureInv,
         NEW soon \in BOOLEAN,
         DragResizes(soon)
  PROVE  DocInv' /\ PickInv' /\ HandInv' /\ EntryInv'
<1>1. DocInv'
  BY DEF GestureInv, DocInv, EdgesHaveEnds, Lives, doc, DragResizes
<1>2. PickInv'
  BY DEF GestureInv, PickInv, SelectionLives, Here, doc, picks, DragResizes
<1>3. HandInv'
  BY DEF GestureInv, DocInv, HandInv, HoldsHere, HalfPlacedIsHeld, Sizing, Here, Lives, Interactions,
         DragResizes, Grips, GrabbedNode
<1>4. EntryInv'
  <2> DEFINE id == IF at.kind = "Resizing" THEN at.id ELSE at.on[1]
  <2>1. /\ <<"Resize", id>> \in EntryKinds /\ at.press \in Nat
         /\ {at.press} \in SUBSET Nat /\ at \in Interactions /\ active \in Pages
    BY Fields DEF GestureInv, HandInv, DocInv, EntryKinds, NodeHits, DragResizes, Grips, GrabbedNode
  <2>2. /\ entry' = Begin(<<"Resize", id>>, {at.press}, soon)
         /\ at'.kind = "Resizing" /\ at'.press = at.press
    BY DEF DragResizes, Grips, GrabbedNode
  <2>3. Begin(<<"Resize", id>>, {at.press}, soon) \in Entries
    <3> HIDE DEF id
    <3> QED
      BY <2>1 DEF GestureInv, EntryInv, Entries, Begin
  <2>5. Begin(<<"Resize", id>>, {at.press}, soon).by = {at.press} \/ (entry # None /\
       Begin(<<"Resize", id>>, {at.press}, soon).by = entry.by \cup {at.press})
    <3> HIDE DEF id
    <3> QED
      BY <2>1 DEF Begin
  <2>4. entry # None => entry.by \in {{}, {at.press}}
    BY DEF GestureInv, EntryInv, PressInv
  <2> QED
    BY <2>2, <2>3, <2>4, <2>5 DEF EntryInv, PressInv
<1> QED
  BY <1>1, <1>2, <1>3, <1>4

LEMMA DragLiftsStep ==
  ASSUME GestureInv,
         NEW soon \in BOOLEAN,
         DragLifts(soon)
  PROVE  DocInv' /\ PickInv' /\ HandInv' /\ EntryInv'
<1>1. DocInv'
  BY DEF GestureInv, DocInv, EdgesHaveEnds, Lives, doc, DragLifts
<1>2. PickInv'
  BY DEF GestureInv, PickInv, HandInv, HoldsHere, SelectionLives, Here, NodeHits, doc, DragLifts, Grips,
         GrabbedNode
<1>3. HandInv'
  BY DEF GestureInv, DocInv, PickInv, HandInv, HoldsHere, HalfPlacedIsHeld, Sizing, Here, Lives,
         Interactions, DragLifts, Grips, GrabbedNode
<1>4. EntryInv'
  <2>1. /\ <<"Move">> \in EntryKinds /\ at.press \in Nat
         /\ {at.press} \in SUBSET Nat /\ at \in Interactions /\ active \in Pages
    BY Fields DEF GestureInv, HandInv, DocInv, EntryKinds, DragLifts, Grips, GrabbedNode
  <2>2. /\ entry' = Begin(<<"Move">>, {at.press}, soon)
         /\ at'.kind \in {"Dragging", "Resizing"} /\ at'.press = at.press
    BY DEF DragLifts
  <2>3. Begin(<<"Move">>, {at.press}, soon) \in Entries
    BY <2>1 DEF GestureInv, EntryInv, Entries, Begin
  <2>5. Begin(<<"Move">>, {at.press}, soon).by = {at.press} \/ (entry # None /\
       Begin(<<"Move">>, {at.press}, soon).by = entry.by \cup {at.press})
    BY <2>1 DEF Begin
  <2>4. entry # None => entry.by \in {{}, {at.press}}
    BY DEF GestureInv, EntryInv, PressInv
  <2> QED
    BY <2>2, <2>3, <2>4, <2>5 DEF EntryInv, PressInv
<1> QED
  BY <1>1, <1>2, <1>3, <1>4

LEMMA DragMovesStep ==
  ASSUME GestureInv,
         NEW soon \in BOOLEAN,
         DragMoves(soon)
  PROVE  DocInv' /\ PickInv' /\ HandInv' /\ EntryInv'
<1>1. DocInv'
  BY DEF GestureInv, DocInv, EdgesHaveEnds, Lives, doc, DragMoves
<1>2. PickInv'
  BY DEF GestureInv, PickInv, SelectionLives, Here, doc, picks, DragMoves
<1>3. HandInv'
  BY DEF GestureInv, HandInv, HoldsHere, HalfPlacedIsHeld, Sizing, hand, DragMoves
<1>4. EntryInv'
  <2>1. /\ <<"Move">> \in EntryKinds /\ at.press \in Nat
         /\ {at.press} \in SUBSET Nat /\ at \in Interactions /\ active \in Pages
    BY Fields DEF GestureInv, HandInv, DocInv, EntryKinds, DragMoves
  <2>2. /\ entry' = Begin(<<"Move">>, {at.press}, soon)
         /\ at'.kind \in {"Dragging", "Resizing"} /\ at'.press = at.press
    BY DEF hand, DragMoves
  <2>3. Begin(<<"Move">>, {at.press}, soon) \in Entries
    BY <2>1 DEF GestureInv, EntryInv, Entries, Begin
  <2>5. Begin(<<"Move">>, {at.press}, soon).by = {at.press} \/ (entry # None /\
       Begin(<<"Move">>, {at.press}, soon).by = entry.by \cup {at.press})
    BY <2>1 DEF Begin
  <2>4. entry # None => entry.by \in {{}, {at.press}}
    BY DEF GestureInv, EntryInv, PressInv
  <2> QED
    BY <2>2, <2>3, <2>4, <2>5 DEF EntryInv, PressInv
<1> QED
  BY <1>1, <1>2, <1>3, <1>4

LEMMA DragSweepsStep ==
  ASSUME GestureInv,
         NEW S \in SUBSET Nodes,
         DragSweeps(S)
  PROVE  DocInv' /\ PickInv' /\ HandInv' /\ EntryInv'
<1>1. DocInv'
  BY DEF GestureInv, DocInv, EdgesHaveEnds, Lives, doc, DragSweeps
<1>2. PickInv'
  BY DEF GestureInv, DocInv, PickInv, HandInv, HoldsHere, SelectionLives, Here, Lives, doc, DragSweeps
<1>3. HandInv'
  BY DEF GestureInv, PickInv, HandInv, HoldsHere, SelectionLives, HalfPlacedIsHeld, Sizing, Here,
         Interactions, doc, DragSweeps
<1>4. EntryInv'
  BY DEF GestureInv, EntryInv, PressInv, DragSweeps
<1> QED
  BY <1>1, <1>2, <1>3, <1>4

LEMMA DragPlacesStep ==
  ASSUME GestureInv,
         NEW n \in Nodes,
         DragPlaces(n)
  PROVE  DocInv' /\ PickInv' /\ HandInv' /\ EntryInv'
<1>1. DocInv'
  BY NodesAssumption DEF GestureInv, DocInv, EdgesHaveEnds, Lives, DragPlaces
<1>2. PickInv'
  BY DEF GestureInv, DocInv, PickInv, SelectionLives, Here, DragPlaces
<1>3. HandInv'
  BY DEF GestureInv, HandInv, HoldsHere, HalfPlacedIsHeld, Sizing, Interactions, DragPlaces, Fresh
<1>4. EntryInv'
  <2>1. <<"Structure">> \in EntryKinds /\ {} \in SUBSET Nat /\ active \in Pages /\ entry \in Entries
    BY DEF GestureInv, EntryInv, DocInv, EntryKinds
  <2> DEFINE opened == Begin(<<"Structure">>, {}, FALSE)
  <2>2. opened \in Entries /\ (opened # None => opened.by = {})
    BY <2>1 DEF Begin, Entries
  <2>3. entry' \in {None, opened}
    BY DEF DragPlaces
  <2> HIDE DEF opened
  <2> QED
    BY <2>2, <2>3 DEF EntryInv, PressInv, Entries
<1> QED
  BY <1>1, <1>2, <1>3, <1>4

LEMMA DragDrawsStep ==
  ASSUME GestureInv,
         DragDraws
  PROVE  DocInv' /\ PickInv' /\ HandInv' /\ EntryInv'
<1>1. DocInv'
  BY DEF GestureInv, DocInv, EdgesHaveEnds, Lives, doc, DragDraws
<1>2. PickInv'
  BY DEF GestureInv, PickInv, SelectionLives, Here, doc, picks, DragDraws
<1>3. HandInv'
  BY DEF GestureInv, HandInv, HoldsHere, HalfPlacedIsHeld, Sizing, Interactions, DragDraws
<1>4. EntryInv'
  BY DEF GestureInv, EntryInv, PressInv, DragDraws
<1> QED
  BY <1>1, <1>2, <1>3, <1>4

LEMMA ClickStep ==
  ASSUME GestureInv,
         NEW button \in Buttons,
         Click(button)
  PROVE  DocInv' /\ PickInv' /\ HandInv' /\ EntryInv'
<1>1. DocInv'
  BY DEF GestureInv, DocInv, EdgesHaveEnds, Lives, doc, Click
<1>2. PickInv'
  BY DEF GestureInv, PickInv, HandInv, HoldsHere, SelectionLives, Here, NodeHits, doc, picks, Click
<1>3. HandInv'
  BY DEF GestureInv, HandInv, HoldsHere, HalfPlacedIsHeld, Sizing, Interactions, Idle, Click
<1>4. EntryInv'
  BY DEF GestureInv, EntryInv, PressInv, Click
<1> QED
  BY <1>1, <1>2, <1>3, <1>4

LEMMA GestureEndedStep ==
  ASSUME GestureInv,
         GestureEnded
  PROVE  DocInv' /\ PickInv' /\ HandInv' /\ EntryInv'
<1>1. DocInv'
  BY DEF GestureInv, DocInv, EdgesHaveEnds, Lives, doc, GestureEnded
<1>2. PickInv'
  BY DEF GestureInv, PickInv, SelectionLives, Here, doc, picks, GestureEnded
<1>3. HandInv'
  BY DEF GestureInv, HandInv, HoldsHere, HalfPlacedIsHeld, Sizing, Interactions, Idle, GestureEnded
<1>4. EntryInv'
  BY DEF EntryInv, PressInv, Entries, GestureEnded
<1> QED
  BY <1>1, <1>2, <1>3, <1>4

LEMMA ReleaseConnectsStep ==
  ASSUME GestureInv,
         NEW n \in Nodes,
         ReleaseConnects(n)
  PROVE  DocInv' /\ PickInv' /\ HandInv' /\ EntryInv'
<1>1. DocInv'
  BY DEF GestureInv, DocInv, EdgesHaveEnds, Lives, Here, ReleaseConnects, Accepts
<1>2. PickInv'
  BY DEF GestureInv, DocInv, PickInv, SelectionLives, Here, picks, ReleaseConnects
<1>3. HandInv'
  BY DEF GestureInv, HandInv, HoldsHere, HalfPlacedIsHeld, Sizing, Interactions, Idle, ReleaseConnects
<1>4. EntryInv'
  BY DEF GestureInv, EntryInv, PressInv, Entries, ReleaseConnects
<1> QED
  BY <1>1, <1>2, <1>3, <1>4

LEMMA ReleasePlacesStep ==
  ASSUME GestureInv,
         NEW c \in Cameras,
         NEW instant \in BOOLEAN,
         ReleasePlaces(c, instant)
  PROVE  DocInv' /\ PickInv' /\ HandInv' /\ EntryInv'
<1>1. DocInv'
  BY DEF GestureInv, DocInv, EdgesHaveEnds, Lives, doc, ReleasePlaces
<1>2. PickInv'
  BY DEF GestureInv, PickInv, SelectionLives, Here, doc, picks, ReleasePlaces
<1>3. HandInv'
  BY DEF HandInv, HoldsHere, HalfPlacedIsHeld, Interactions, Idle, ReleasePlaces, CommitsTo, Sizing
<1>4. EntryInv'
  BY DEF EntryInv, PressInv, Entries, ReleasePlaces, CommitsTo
<1> QED
  BY <1>1, <1>2, <1>3, <1>4

LEMMA ClickPlacesStep ==
  ASSUME GestureInv,
         NEW n \in Nodes,
         NEW c \in Cameras,
         NEW instant \in BOOLEAN,
         ClickPlaces(n, c, instant)
  PROVE  DocInv' /\ PickInv' /\ HandInv' /\ EntryInv'
<1>1. DocInv'
  BY NodesAssumption DEF GestureInv, DocInv, EdgesHaveEnds, Lives, ClickPlaces
<1>2. PickInv'
  BY DEF GestureInv, DocInv, PickInv, SelectionLives, Here, ClickPlaces
<1>3. HandInv'
  BY DEF HandInv, HoldsHere, HalfPlacedIsHeld, Sizing, Interactions, Idle, ClickPlaces, CommitsTo
<1>4. EntryInv'
  BY DEF EntryInv, PressInv, Entries, ClickPlaces, CommitsTo
<1> QED
  BY <1>1, <1>2, <1>3, <1>4

LEMMA ReleaseDisarmsStep ==
  ASSUME GestureInv,
         ReleaseDisarms
  PROVE  DocInv' /\ PickInv' /\ HandInv' /\ EntryInv'
<1>1. DocInv'
  BY DEF GestureInv, DocInv, EdgesHaveEnds, Lives, doc, ReleaseDisarms
<1>2. PickInv'
  BY DEF GestureInv, PickInv, SelectionLives, Here, doc, picks, ReleaseDisarms
<1>3. HandInv'
  BY DEF GestureInv, HandInv, HoldsHere, HalfPlacedIsHeld, Sizing, Interactions, Idle, ReleaseDisarms
<1>4. EntryInv'
  BY DEF GestureInv, EntryInv, PressInv, ReleaseDisarms
<1> QED
  BY <1>1, <1>2, <1>3, <1>4

LEMMA ReleasePenStep ==
  ASSUME GestureInv,
         NEW n \in Nodes,
         ReleasePen(n)
  PROVE  DocInv' /\ PickInv' /\ HandInv' /\ EntryInv'
<1>1. DocInv'
  BY NodesAssumption DEF GestureInv, DocInv, EdgesHaveEnds, Lives, ReleasePen
<1>2. PickInv'
  BY DEF GestureInv, DocInv, PickInv, SelectionLives, Here, picks, ReleasePen
<1>3. HandInv'
  BY DEF GestureInv, HandInv, HoldsHere, HalfPlacedIsHeld, Sizing, Interactions, ReleasePen
<1>4. EntryInv'
  BY DEF GestureInv, EntryInv, PressInv, Entries, ReleasePen
<1> QED
  BY <1>1, <1>2, <1>3, <1>4

LEMMA GoToStep ==
  ASSUME GestureInv,
         NEW n \in Nodes,
         NEW c \in Cameras,
         NEW instant \in BOOLEAN,
         GoTo(n, c, instant)
  PROVE  DocInv' /\ PickInv' /\ HandInv' /\ EntryInv'
<1>1. DocInv'
  BY DEF GestureInv, DocInv, EdgesHaveEnds, Lives, doc, GoTo
<1>2. PickInv'
  BY DEF PickInv, SelectionLives, Here, doc, GoTo
<1>3. HandInv'
  BY DEF GestureInv, HandInv, HoldsHere, HalfPlacedIsHeld, Sizing, Here, doc, hand, GoTo
<1>4. EntryInv'
  BY DEF GestureInv, EntryInv, PressInv, hand, GoTo
<1> QED
  BY <1>1, <1>2, <1>3, <1>4

LEMMA SelectAllStep ==
  ASSUME GestureInv,
         SelectAll
  PROVE  DocInv' /\ PickInv' /\ HandInv' /\ EntryInv'
<1>1. DocInv'
  BY DEF GestureInv, DocInv, EdgesHaveEnds, Lives, doc, SelectAll
<1>2. PickInv'
  BY DEF GestureInv, DocInv, PickInv, SelectionLives, Here, Lives, doc, SelectAll
<1>3. HandInv'
  BY DEF GestureInv, HandInv, HoldsHere, HalfPlacedIsHeld, Sizing, Here, doc, hand, SelectAll
<1>4. EntryInv'
  BY DEF GestureInv, EntryInv, PressInv, hand, SelectAll
<1> QED
  BY <1>1, <1>2, <1>3, <1>4

LEMMA ToolConnectsStep ==
  ASSUME GestureInv,
         NEW p \in Pages,
         NEW e \in CanConnect,
         ToolConnects(p, e)
  PROVE  DocInv' /\ PickInv' /\ HandInv' /\ EntryInv'
<1>1. DocInv'
  BY DEF GestureInv, DocInv, EdgesHaveEnds, Lives, ToolConnects
<1>2. PickInv'
  BY DEF GestureInv, PickInv, SelectionLives, Here, picks, ToolConnects
<1>3. HandInv'
  BY DEF GestureInv, HandInv, HoldsHere, HalfPlacedIsHeld, Sizing, Here, hand, ToolConnects
<1>4. EntryInv'
  BY DEF EntryInv, PressInv, Entries, ToolConnects
<1> QED
  BY <1>1, <1>2, <1>3, <1>4

LEMMA ToolCreatesStep ==
  ASSUME GestureInv,
         NEW n \in Nodes,
         ToolCreates(n)
  PROVE  DocInv' /\ PickInv' /\ HandInv' /\ EntryInv'
<1>1. DocInv'
  BY NodesAssumption DEF GestureInv, DocInv, EdgesHaveEnds, Lives, ToolCreates
<1>2. PickInv'
  BY DEF GestureInv, PickInv, SelectionLives, Here, picks, ToolCreates
<1>3. HandInv'
  BY DEF GestureInv, HandInv, HoldsHere, HalfPlacedIsHeld, Sizing, Here, hand, ToolCreates
<1>4. EntryInv'
  BY DEF EntryInv, PressInv, Entries, ToolCreates
<1> QED
  BY <1>1, <1>2, <1>3, <1>4

LEMMA ToolSelectsStep ==
  ASSUME GestureInv,
         NEW S \in SUBSET Nodes,
         ToolSelects(S)
  PROVE  DocInv' /\ PickInv' /\ HandInv' /\ EntryInv'
<1>1. DocInv'
  BY DEF GestureInv, DocInv, EdgesHaveEnds, Lives, doc, ToolSelects
<1>2. PickInv'
  BY DEF PickInv, SelectionLives, Here, doc, ToolSelects
<1>3. HandInv'
  BY DEF GestureInv, HandInv, HoldsHere, HalfPlacedIsHeld, Sizing, Here, doc, hand, ToolSelects
<1>4. EntryInv'
  BY DEF EntryInv, PressInv, Entries, ToolSelects
<1> QED
  BY <1>1, <1>2, <1>3, <1>4

LEMMA PressArmedStep ==
  ASSUME GestureInv,
         PressArmed,
         ~Sizing
  PROVE  DocInv' /\ PickInv' /\ HandInv' /\ EntryInv'
<1>1. DocInv'
  BY DEF GestureInv, DocInv, EdgesHaveEnds, Lives, doc, PressArmed
<1>2. PickInv'
  BY DEF GestureInv, PickInv, SelectionLives, Here, doc, picks, PressArmed
<1>3. HandInv'
  BY DEF GestureInv, HandInv, HoldsHere, HalfPlacedIsHeld, Sizing, Interactions, PressArmed
<1>4. EntryInv'
  BY DEF GestureInv, EntryInv, PressInv, PressArmed
<1> QED
  BY <1>1, <1>2, <1>3, <1>4

LEMMA DeleteKeyStep ==
  ASSUME GestureInv,
         DeleteKey,
         RemovalIsCalm
  PROVE  DocInv' /\ PickInv' /\ HandInv' /\ EntryInv'
<1>1. DocInv'
  BY NodesAssumption DEF GestureInv, DocInv, EdgesHaveEnds, Lives, Here, DeleteKey, Keeps, Without
<1>2. PickInv'
  BY DEF GestureInv, PickInv, SelectionLives, Here, picks, DeleteKey, Pruned
<1>3. HandInv'
  BY DEF GestureInv, HandInv, HoldsHere, HalfPlacedIsHeld, Sizing, hand, DeleteKey, RemovalIsCalm
<1>4. EntryInv'
  <2>1. <<"Structure">> \in EntryKinds /\ {} \in SUBSET Nat /\ active \in Pages /\ entry \in Entries
    BY DEF GestureInv, EntryInv, DocInv, EntryKinds
  <2> DEFINE opened == Begin(<<"Structure">>, {}, FALSE)
  <2>2. opened \in Entries /\ (opened # None => opened.by = {})
    BY <2>1 DEF Begin, Entries
  <2>3. entry' \in {None, opened}
    BY DEF DeleteKey
  <2> HIDE DEF opened
  <2> QED
    BY <2>2, <2>3 DEF EntryInv, PressInv, Entries
<1> QED
  BY <1>1, <1>2, <1>3, <1>4

LEMMA TravelStep ==
  ASSUME GestureInv,
         NEW S \in SUBSET Nodes,
         NEW E \in SUBSET CanConnect,
         Travel(S, E),
         RemovalIsCalm,
         \A e \in E : {e[1], e[2]} \subseteq S
  PROVE  DocInv' /\ PickInv' /\ HandInv' /\ EntryInv'
<1>1. DocInv'
  BY NodesAssumption DEF GestureInv, DocInv, EdgesHaveEnds, Lives, Travel, Keeps
<1>2. PickInv'
  BY DEF GestureInv, PickInv, SelectionLives, Here, Travel, Pruned
<1>3. HandInv'
  BY DEF GestureInv, HandInv, HoldsHere, HalfPlacedIsHeld, Sizing, hand, Travel, RemovalIsCalm
<1>4. EntryInv'
  BY DEF GestureInv, EntryInv, PressInv, Entries, hand, Travel
<1> QED
  BY <1>1, <1>2, <1>3, <1>4

LEMMA SwitchToStep ==
  ASSUME GestureInv,
         NEW p \in Pages,
         SwitchTo(p),
         PageIsCalm
  PROVE  DocInv' /\ PickInv' /\ HandInv' /\ EntryInv'
<1>1. DocInv'
  BY DEF GestureInv, DocInv, EdgesHaveEnds, Lives, SwitchTo
<1>2. PickInv'
  BY DEF PickInv, SelectionLives, SwitchTo, Adopts
<1>3. HandInv'
  BY DEF GestureInv, HandInv, HoldsHere, HalfPlacedIsHeld, Sizing, Interactions, Idle, SwitchTo, Adopts,
         PageIsCalm
<1>4. EntryInv'
  BY DEF EntryInv, PressInv, Entries, SwitchTo
<1> QED
  BY <1>1, <1>2, <1>3, <1>4

LEMMA NewPageStep ==
  ASSUME GestureInv,
         NEW p \in Pages,
         NewPage(p),
         PageIsCalm
  PROVE  DocInv' /\ PickInv' /\ HandInv' /\ EntryInv'
<1>1. DocInv'
  BY NodesAssumption DEF GestureInv, DocInv, EdgesHaveEnds, Lives, NewPage
<1>2. PickInv'
  BY DEF PickInv, SelectionLives, NewPage, Adopts
<1>3. HandInv'
  BY DEF GestureInv, HandInv, HoldsHere, HalfPlacedIsHeld, Sizing, Interactions, Idle, NewPage, Adopts,
         PageIsCalm
<1>4. EntryInv'
  BY DEF EntryInv, PressInv, Entries, NewPage
<1> QED
  BY <1>1, <1>2, <1>3, <1>4

LEMMA DeletePageStep ==
  ASSUME GestureInv,
         NEW p \in Pages,
         NEW q \in Pages,
         DeletePage(p, q),
         PageIsCalm,
         DeletionIsCalm
  PROVE  DocInv' /\ PickInv' /\ HandInv' /\ EntryInv'
<1>1. DocInv'
  BY DEF GestureInv, DocInv, EdgesHaveEnds, Lives, DeletePage
<1>2. PickInv'
  BY DEF PickInv, SelectionLives, DeletePage, Adopts
<1>3. HandInv'
  BY DEF GestureInv, HandInv, HoldsHere, HalfPlacedIsHeld, Sizing, Interactions, Idle, DeletePage,
         Adopts, PageIsCalm
<1>4. EntryInv'
  BY DEF GestureInv, EntryInv, PressInv, DeletePage, DeletionIsCalm
<1> QED
  BY <1>1, <1>2, <1>3, <1>4

LEMMA ArmStep ==
  ASSUME GestureInv,
         NEW tool \in {"pen", "card"},
         Arm(tool),
         ArmIsCalm
  PROVE  DocInv' /\ PickInv' /\ HandInv' /\ EntryInv'
<1>1. DocInv'
  BY DEF GestureInv, DocInv, EdgesHaveEnds, Lives, doc, Arm
<1>2. PickInv'
  BY DEF GestureInv, PickInv, SelectionLives, Here, doc, picks, Arm
<1>3. HandInv'
  BY DEF GestureInv, HandInv, HoldsHere, HalfPlacedIsHeld, Sizing, Interactions, Arm, ArmIsCalm
<1>4. EntryInv'
  BY DEF GestureInv, EntryInv, PressInv, Arm, ArmIsCalm, EscapeIsCalm
<1> QED
  BY <1>1, <1>2, <1>3, <1>4

LEMMA EscapeStep ==
  ASSUME GestureInv,
         Escape,
         EscapeIsCalm
  PROVE  DocInv' /\ PickInv' /\ HandInv' /\ EntryInv'
<1>1. DocInv'
  <2>1. Here \in SUBSET Nodes /\ Here # None /\ edges[active] \in SUBSET CanConnect /\ active \in Pages
    BY DEF GestureInv, DocInv, Lives, Here
  <2>2. /\ board' = [board EXCEPT ![active] = Here \ {placement}] /\ active' = active
        /\ edges' = [edges EXCEPT ![active] = Without(edges[active], {placement})]
    BY DEF Escape, Keeps
  <2>3. Here \ {placement} \in SUBSET Nodes /\ Without(edges[active], {placement}) \in SUBSET CanConnect
    BY <2>1 DEF Without
  <2>4. Lives(active)'
    BY <2>1, <2>2, <2>3, NodesAssumption DEF GestureInv, DocInv, Lives
  <2>5. EdgesHaveEnds'
    <3> SUFFICES ASSUME NEW p \in Pages, NEW e \in edges'[p]
                 PROVE  board'[p] # None /\ {e[1], e[2]} \subseteq board'[p]
      BY DEF EdgesHaveEnds, Lives
    <3>1. CASE p # active
      BY <2>2, <3>1 DEF GestureInv, DocInv, EdgesHaveEnds, Lives
    <3>2. CASE p = active
      BY <2>1, <2>2, <2>4, <3>2 DEF GestureInv, DocInv, EdgesHaveEnds, Lives, Without, Here
    <3> QED
      BY <3>1, <3>2
  <2> QED
    BY <2>1, <2>2, <2>3, <2>4, <2>5 DEF GestureInv, DocInv
<1>2. PickInv'
  BY DEF PickInv, SelectionLives, Escape
<1>3. HandInv'
  BY DEF HandInv, HoldsHere, HalfPlacedIsHeld, Sizing, Interactions, Idle, Escape
<1>4. EntryInv'
  BY DEF GestureInv, EntryInv, PressInv, Entries, Escape, EscapeIsCalm
<1> QED
  BY <1>1, <1>2, <1>3, <1>4

(* The camera moves, a timer fires, the lock is turned: no more than that. *)
Quiet == UNCHANGED <<doc, picks, hand>> /\ entry' \in {None, entry}

LEMMA QuietStep ==
  ASSUME GestureInv, Quiet
  PROVE  DocInv' /\ PickInv' /\ HandInv' /\ EntryInv'
<1>1. DocInv' /\ PickInv' /\ HandInv'
  BY DEF GestureInv, DocInv, PickInv, HandInv, EdgesHaveEnds, Lives, SelectionLives, HoldsHere,
         HalfPlacedIsHeld, Sizing, Here, Quiet, doc, picks, hand
<1>2. EntryInv'
  BY DEF GestureInv, EntryInv, PressInv, Entries, Quiet, hand
<1> QED
  BY <1>1, <1>2

LEMMA CameraStep ==
  ASSUME GestureInv, Camera
  PROVE  DocInv' /\ PickInv' /\ HandInv' /\ EntryInv'
<1>1. CASE \E n \in Nodes, c \in Cameras, instant \in BOOLEAN : GoTo(n, c, instant)
  BY <1>1, GoToStep
<1>2. CASE \/ \E c \in Cameras : Wheel(c) \/ Touch(c) \/ FlightTicks(c)
           \/ \E c \in Cameras, instant \in BOOLEAN : FlyTo(c, instant)
           \/ TimerFires \/ TouchEnds \/ FlightEnds
  <2>1. Quiet
    BY <1>2 DEF Quiet, Wheel, Touch, FlightTicks, FlyTo, TimerFires, TouchEnds, FlightEnds
  <2> QED
    BY <2>1, QuietStep
<1> QED
  BY <1>1, <1>2 DEF Camera

LEMMA PointerStep ==
  ASSUME GestureInv, Pointer
  PROVE  DocInv' /\ PickInv' /\ HandInv' /\ EntryInv'
BY PressPenStep, DownStep, DragConnectsStep, DragPansStep, DragResizesStep, DragLiftsStep,
   DragMovesStep, DragSweepsStep, DragPlacesStep, ReleaseConnectsStep, ReleasePenStep, DragDrawsStep,
   ClickStep, GestureEndedStep, ReleaseDisarmsStep, ReleasePlacesStep, ClickPlacesStep
   DEF Pointer

LEMMA KeyStep ==
  ASSUME GestureInv,
         \/ Rest
         \/ ~Sizing /\ PressArmed
         \/ RemovalIsCalm /\ Removal
         \/ ArmIsCalm /\ Arming
         \/ EscapeIsCalm /\ Escape
  PROVE  DocInv' /\ PickInv' /\ HandInv' /\ EntryInv'
BY PressArmedStep, DeleteKeyStep, TravelStep, ArmStep, EscapeStep, SelectAllStep, ToolConnectsStep,
   ToolCreatesStep, ToolSelectsStep
   DEF Rest, Removal, Arming

LEMMA PageStep ==
  ASSUME GestureInv,
         \/ PageIsCalm /\ Paging
         \/ PageIsCalm /\ DeletionIsCalm /\ Deletion
  PROVE  DocInv' /\ PickInv' /\ HandInv' /\ EntryInv'
BY SwitchToStep, NewPageStep, DeletePageStep DEF Paging, Deletion

(* The camera and the viewports. *)
LEMMA SeenStep ==
  ASSUME GestureInv, CalmNext
  PROVE  SeenInv'
<1>0. SeenInv
  BY DEF GestureInv, ViewInv
<1> USE <1>0, CamerasAssumption
<1>1. CASE Pointer
  <2>1. CASE \E c \in Cameras : DragPans(c)
    BY <2>1 DEF SeenInv, DragPans, Pan
  <2>2. CASE GestureEnded
    BY <2>2 DEF SeenInv, GestureEnded
  <2>3. CASE \E c \in Cameras, instant \in BOOLEAN : ReleasePlaces(c, instant)
    BY <2>3 DEF SeenInv, ReleasePlaces, CommitsTo, Flies
  <2>4. CASE \E n \in Nodes, c \in Cameras, instant \in BOOLEAN : ClickPlaces(n, c, instant)
    BY <2>4 DEF SeenInv, ClickPlaces, CommitsTo, Flies
  <2>5. CASE \/ PressPen
             \/ \E button \in Buttons, on \in Hits, mod \in Modifiers, space \in BOOLEAN :
                   Down(button, on, mod, space)
    BY <2>5 DEF SeenInv, PressPen, Down, view
  <2>6. CASE \/ DragConnects \/ DragDraws \/ ReleaseDisarms
             \/ \E soon \in BOOLEAN : DragResizes(soon) \/ DragLifts(soon) \/ DragMoves(soon)
             \/ \E S \in SUBSET Nodes : DragSweeps(S)
             \/ \E n \in Nodes : DragPlaces(n) \/ ReleaseConnects(n) \/ ReleasePen(n)
             \/ \E button \in Buttons : Click(button)
    <3>1. UNCHANGED <<view, locked, count>>
      BY <2>6
         DEF DragConnects, DragDraws, ReleaseDisarms, DragResizes, DragLifts, DragMoves, DragSweeps,
             DragPlaces, ReleaseConnects, ReleasePen, Click
    <3> QED
      BY <3>1 DEF SeenInv, view
  <2> QED
    BY <1>1, <2>1, <2>2, <2>3, <2>4, <2>5, <2>6 DEF Pointer
<1>2. CASE Camera
  BY <1>2
     DEF SeenInv, Camera, Wheel, Touch, FlightTicks, FlyTo, GoTo, Flies, TimerFires, TouchEnds,
         FlightEnds
<1>3. CASE Rest \/ Removal \/ Arming \/ Escape
  BY <1>3
     DEF SeenInv, Rest, SelectAll, ToolConnects, ToolCreates, ToolSelects, Removal, DeleteKey, Travel,
         Arming, Arm, Escape, view
<1>4. CASE Paging \/ Deletion
  BY <1>4 DEF SeenInv, Paging, Deletion, SwitchTo, NewPage, DeletePage, Adopts
<1>5. CASE ToggleLock
  BY <1>5 DEF SeenInv, ToggleLock, view
<1>6. CASE PressArmed
  BY <1>6 DEF SeenInv, PressArmed, view
<1> QED
  BY <1>1, <1>2, <1>3, <1>4, <1>5, <1>6 DEF CalmNext

LEMMA CountStep ==
  ASSUME GestureInv, CalmNext
  PROVE  CountInv'
<1>0. CountInv
  BY DEF GestureInv, ViewInv
<1> SUFFICES Moved \/ Edited \/ UNCHANGED count
  BY <1>0, Bounds DEF CountInv, Moved, Edited, count
<1>1. CASE Pointer \/ PressArmed
  BY <1>1
     DEF Pointer, PressArmed, PressPen, Down, DragConnects, DragPans, DragResizes, DragLifts, DragMoves,
         DragSweeps, DragPlaces, ReleaseConnects, ReleasePen, DragDraws, Click, GestureEnded,
         ReleaseDisarms, ReleasePlaces, ClickPlaces
<1>2. CASE Camera \/ ToggleLock
  BY <1>2
     DEF Camera, ToggleLock, Wheel, Touch, FlightTicks, FlyTo, GoTo, TimerFires, TouchEnds, FlightEnds
<1>3. CASE Rest \/ Removal \/ Arming \/ Escape \/ Paging \/ Deletion
  BY <1>3
     DEF Rest, SelectAll, ToolConnects, ToolCreates, ToolSelects, Removal, DeleteKey, Travel, Arming,
         Arm, Escape, Paging, Deletion, SwitchTo, NewPage, DeletePage
<1> QED
  BY <1>1, <1>2, <1>3 DEF CalmNext

LEMMA InitInv == Init => GestureInv
<1> SUFFICES ASSUME Init PROVE GestureInv
  OBVIOUS
<1>1. PICK S \in SUBSET Nodes : board = [p \in Pages |-> IF p = FirstPage THEN S ELSE None]
  BY DEF Init
<1>2. DocInv /\ PickInv
  BY <1>1, NodesAssumption, PagesAssumption
     DEF Init, DocInv, PickInv, EdgesHaveEnds, Lives, SelectionLives
<1>3. HandInv /\ EntryInv
  BY DEF Init, HandInv, EntryInv, PressInv, Entries, HoldsHere, HalfPlacedIsHeld, Sizing, Idle,
         Interactions
<1>4. ViewInv
  <2>1. SeenInv
    BY CamerasAssumption DEF Init, SeenInv
  <2>2. CountInv
    BY Bounds DEF Init, CountInv
  <2> QED
    BY <2>1, <2>2 DEF ViewInv
<1> QED
  BY <1>2, <1>3, <1>4 DEF GestureInv

LEMMA CalmStep == GestureInv /\ [CalmNext]_vars => GestureInv'
<1> SUFFICES ASSUME GestureInv, [CalmNext]_vars PROVE GestureInv'
  OBVIOUS
<1>1. CASE CalmNext
  <2>1. DocInv' /\ PickInv' /\ HandInv' /\ EntryInv'
    <3>1. CASE ToggleLock
      BY <3>1, QuietStep DEF Quiet, ToggleLock
    <3> QED
      BY <1>1, <3>1, PointerStep, CameraStep, KeyStep, PageStep DEF CalmNext
  <2> QED
    BY <1>1, <2>1, SeenStep, CountStep DEF GestureInv, ViewInv
<1>2. CASE UNCHANGED vars
  <2>1. Quiet /\ ViewInv'
    BY <1>2 DEF GestureInv, ViewInv, SeenInv, CountInv, Quiet, vars, view, count
  <2> QED
    BY <2>1, QuietStep DEF GestureInv
<1> QED
  BY <1>1, <1>2

(* What the parts above say holds of every state of the calm canvas.        *)
THEOREM Calm == CalmSpec => []GestureInv
BY InitInv, CalmStep, PTL DEF CalmSpec

(* The selection is on the page on screen and every edge has both its ends: *)
(* the delete key, undo, an agent's tools and a page change may come at any *)
(* moment of a connection, a placement or a drag (prune_selection,          *)
(* connection_target, remove_node).                                         *)
THEOREM Dangling == CalmSpec => []NothingDangles
<1>1. GestureInv => NothingDangles
  BY TypeParts DEF NothingDangles
<1> QED
  BY <1>1, Calm, PTL

(* A node half placed is in the hand that sizes it, and a hand that sizes a *)
(* node has one (place_node, commit_placement, clear_selection).            *)
THEOREM Placement == CalmSpec => []HalfPlacedIsHeld
<1>1. GestureInv => HalfPlacedIsHeld
  BY DEF GestureInv, HandInv
<1> QED
  BY <1>1, Calm, PTL

(* No transaction was written by two drags, however soon the second came    *)
(* (Effect::GestureEnded, History::record).                                 *)
THEOREM Drags == CalmSpec => []OneDragPerEntry
<1>1. ASSUME GestureInv PROVE OneDragPerEntry
  <2> SUFFICES ASSUME entry # None PROVE Cardinality(entry.by) <= 1
    BY DEF OneDragPerEntry
  <2>1. CASE entry.by = {}
    BY <2>1, FS_EmptySet
  <2>2. CASE entry.by = {at.press}
    <3>1. Cardinality({at.press}) = 1
      BY FS_Singleton
    <3> QED
      BY <2>2, <3>1
  <2> QED
    BY <1>1, <2>1, <2>2 DEF GestureInv, EntryInv, PressInv
<1> QED
  BY <1>1, Calm, PTL

(* A page keeps its camera while it is away, and is left with the camera it *)
(* was seen through (switch_to_page, adopt_active_page).                    *)
THEOREM Views == CalmSpec => ViewsStayApart
<1> DEFINE Apart == \A p \in Pages :
                       (Lives(p) /\ board'[p] # None /\ p # active') =>
                          viewport'[p] = IF p = active THEN camera ELSE viewport[p]
           Stays == /\ active' = active
                    /\ \/ viewport' = viewport
                       \/ \E c \in Cameras : viewport' = [viewport EXCEPT ![active] = c]
<1>1. GestureInv /\ [CalmNext]_vars => [Apart]_vars
  <2> SUFFICES ASSUME GestureInv, CalmNext,
                      NEW p \in Pages, Lives(p), board'[p] # None, p # active'
               PROVE  viewport'[p] = IF p = active THEN camera ELSE viewport[p]
    OBVIOUS
  <2>0. viewport \in [Pages -> Cameras] /\ active \in Pages
    BY DEF GestureInv, DocInv, ViewInv, SeenInv
  <2>1. CASE Paging
    BY <2>0, <2>1 DEF Paging, SwitchTo, NewPage
  <2>2. CASE Deletion
    BY <2>0, <2>2 DEF GestureInv, DocInv, Deletion, DeletePage
  <2>3. CASE Stays
    BY <2>0, <2>3
  <2>4. CASE Pointer
    <3>1. Stays
      BY <2>4
         DEF GestureInv, ViewInv, SeenInv, Pointer, PressPen, Down, DragConnects, DragPans, Pan,
             DragResizes, DragLifts, DragMoves, DragSweeps, DragPlaces, ReleaseConnects, ReleasePen,
             DragDraws, Click, GestureEnded, ReleaseDisarms, ReleasePlaces, ClickPlaces, CommitsTo,
             Flies, doc, view
    <3> QED
      BY <3>1, <2>3
  <2>5. CASE Camera
    <3>1. Stays
      BY <2>5
         DEF GestureInv, ViewInv, SeenInv, Camera, Wheel, Touch, FlightTicks, FlyTo, GoTo, Flies,
             TimerFires, TouchEnds, FlightEnds, doc
    <3> QED
      BY <3>1, <2>3
  <2>6. CASE Rest \/ Removal \/ Arming \/ Escape \/ ToggleLock \/ PressArmed
    <3>1. Stays
      BY <2>6
         DEF GestureInv, ViewInv, SeenInv, Rest, SelectAll, ToolConnects, ToolCreates, ToolSelects,
             Removal, DeleteKey, Travel, Arming, Arm, Escape, Keeps, ToggleLock, PressArmed, view, doc
    <3> QED
      BY <3>1, <2>3
  <2> QED
    BY <2>1, <2>2, <2>4, <2>5, <2>6 DEF CalmNext
<1>2. []GestureInv /\ [][CalmNext]_vars => [][Apart]_vars
  BY <1>1, PTL
<1> QED
  BY <1>2, Calm, PTL DEF CalmSpec, ViewsStayApart
==============================================================================
