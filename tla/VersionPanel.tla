----------------------------- MODULE VersionPanel -----------------------------
(***************************************************************************)
(* The timeline of the history panel (canvas/history/panel.rs) and the     *)
(* preview it puts on the canvas (canvas/history/mod.rs), over the log of  *)
(* VersionLog.                                                             *)
(*                                                                         *)
(* The panel holds the id of one version, or none; the canvas shows a      *)
(* detached copy of an old version, or the live page.  The two are set by  *)
(* different handlers, and the log goes on growing under both: while the   *)
(* panel is open no key of the canvas does anything, but an agent, a       *)
(* statement that finishes or a poll still writes to the live page, and    *)
(* the debounce records it.                                                *)
(*                                                                         *)
(* One page is modelled.  Leaving it stands for the trip to another page   *)
(* and back, at the end of which the panel has followed it.                *)
(***************************************************************************)
EXTENDS VersionLog

CONSTANT Live   \* CanvasView::preview is None: the live page is drawn

ASSUME LiveAssumption == Live \notin Pages

VARIABLES opened,     \* the windows whose panel is open
          selected,   \* HistoryPanel::selected; 0 is None
          preview     \* CanvasView::preview

panel     == <<opened, selected, preview>>
panelVars == <<vars, panel>>

PanelTypeOK ==
    /\ TypeOK
    /\ opened \in SUBSET Writers
    /\ selected \in [Writers -> 0..MaxVersions]
    /\ preview \in [Writers -> Pages \cup {Live}]

\* HistoryPanel::present.
Present(es) == IF es = <<>> THEN 0 ELSE Last(es).id

Shows(w, id, copy) ==
    /\ selected' = [selected EXCEPT ![w] = id]
    /\ preview' = [preview EXCEPT ![w] = copy]

\* select_present, once the step has captured the page, or could not.
ShowsPresent(w) == Shows(w, Present(OpenEntries(w))', Live)

----------------------------------------------------------------------------
(* The keys and buttons of the panel.  *)

\* toggle_history: opening captures the page, unless its log is still loading.
OpenPanel(w) ==
    /\ w \notin opened /\ phase[w] # "closed"
    /\ opened' = opened \cup {w}
    /\ \/ OpenTimeline(w)
       \/ phase[w] # "open" /\ UNCHANGED vars
    /\ ShowsPresent(w)

\* A second press, the palette, or escape on the present.
ClosePanel(w) ==
    /\ w \in opened
    /\ opened' = opened \ {w}
    /\ Shows(w, 0, Live)
    /\ UNCHANGED vars

\* select: a dot that is pressed, an arrow key, escape on an old version.
Select(w, i) ==
    LET es == OpenEntries(w)
    IN  /\ w \in opened /\ i \in DOMAIN es
        /\ Shows(w, es[i].id, IF i = Len(es) THEN Live ELSE Reconstruct(es, i))
        /\ UNCHANGED <<vars, opened>>

CloseCard(w) ==
    /\ w \in opened
    /\ Shows(w, 0, Live)
    /\ UNCHANGED <<vars, opened>>

\* Enter: the present is not restored.
RestoreSelected(w, i) ==
    LET es == OpenEntries(w)
    IN  /\ w \in opened /\ i \in DOMAIN es
        /\ selected[w] = es[i].id /\ selected[w] # Present(es)
        /\ Restore(w, i)
        /\ ShowsPresent(w)
        /\ UNCHANGED opened

----------------------------------------------------------------------------
(* What goes on under the panel.  *)

\* on_history_changed: a version that is recorded is selected when none is.
Observed(w) ==
    /\ selected' = [selected EXCEPT ![w] =
           IF w \in opened /\ @ = 0 THEN Present(OpenEntries(w))' ELSE @]
    /\ UNCHANGED <<opened, preview>>

Records(w) == Fire(w) /\ Observed(w)

\* The log is there; a panel that was waiting for it captures the present.
LogArrives(w) ==
    IF w \in opened /\ ~owed[w]
      THEN /\ phase[w] = "adopting"
           /\ phase' = [phase EXCEPT ![w] = "open"]
           /\ Capture(w)
           /\ UNCHANGED <<saved, page, owed, timer>>
           /\ Observed(w)
      ELSE Arrive(w) /\ Observed(w)

\* A slip: the preview of the page that is left stays on the screen.
LeavesPreviewing(w) ==
    /\ LeavePage(w)
    /\ selected' = [selected EXCEPT ![w] =
           IF w \in opened THEN Present(OpenEntries(w))' ELSE @]
    /\ UNCHANGED <<opened, preview>>

\* history_follow_page.
Leaves(w) ==
    /\ LeavePage(w)
    /\ IF w \in opened THEN ShowsPresent(w) ELSE UNCHANGED <<selected, preview>>
    /\ UNCHANGED opened

\* The canvas goes away, and the panel with it.
GoesAway(w) ==
    /\ phase[w] = "open"
    /\ Leave(w)
    /\ opened' = opened \ {w}
    /\ Shows(w, 0, Live)

Loads(w) == (Open(w) \/ Read(w) \/ Rewrite(w)) /\ UNCHANGED panel

----------------------------------------------------------------------------
PanelInit ==
    /\ Init
    /\ opened = {}
    /\ selected = [w \in Writers |-> 0]
    /\ preview = [w \in Writers |-> Live]

PanelStep(w) ==
    \/ OpenPanel(w) \/ ClosePanel(w) \/ CloseCard(w)
    \/ \E i \in 1..MaxVersions : Select(w, i) \/ RestoreSelected(w, i)
    \/ Edit(w) /\ UNCHANGED panel
    \/ Records(w) \/ LogArrives(w) \/ Leaves(w)
    \/ Loads(w) \/ GoesAway(w)

\* One window at a time, which stays until its log has been loaded.
PanelNext == \E w \in Writers : Alone(w) /\ PanelStep(w)

PanelProgress(w) ==
    /\ WF_panelVars(Loads(w) /\ phase[w] # "closed")
    /\ WF_panelVars(LogArrives(w)) /\ WF_panelVars(Records(w))

PanelSpec ==
    PanelInit /\ [][PanelNext]_panelVars /\ \A w \in Writers : PanelProgress(w)

----------------------------------------------------------------------------
\* An old version on the screen is the one the panel has selected, and is not
\* the present: what Enter restores is what is seen, whatever was recorded,
\* restored or left since it was put there (select, preview_version, restored).
PreviewIsSelected ==
    \A w \in Writers :
        preview[w] # Live =>
            \E i \in DOMAIN OpenEntries(w) :
                /\ OpenEntries(w)[i].id = selected[w]
                /\ i # Len(OpenEntries(w))
                /\ preview[w] = Reconstruct(OpenEntries(w), i)

\* "Checkpoints arriving ... follow the present" (panel.rs, on_history_changed):
\* the live page is on the screen only with the present selected, or nothing.
SelectionFollowsPresent ==
    \A w \in opened :
        preview[w] = Live => selected[w] \in {0, Present(OpenEntries(w))}
===============================================================================
