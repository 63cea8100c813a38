------------------------------ MODULE QueryGate ------------------------------
(***************************************************************************)
(* One query node on screen and the ways a statement of its leaves for the *)
(* database: peek-ui execution.rs (plan, run, rerun_source) and the        *)
(* QueryEditor of node/query/mod.rs.                                       *)
(*                                                                         *)
(* The text of the query exists twice, in the document and in the editor,  *)
(* and the warning about an unbounded write is a flag of the editor.  What *)
(* is concurrent: the user at the editor, the ten-second poll, an agent    *)
(* rewriting the document, undo, and answers of the database.              *)
(*                                                                         *)
(* A text is a member of a small set, classified the way the code          *)
(* classifies it: is_unbounded_write looks at every statement of the text, *)
(* the poll looks at how the text begins.  One text may be both.           *)
(***************************************************************************)
CONSTANTS EditorTexts,
          Unbounded,   \* is_unbounded_write: a TRUNCATE, or a DELETE with no WHERE
          Selects,     \* trimmed and lowercased, starts with "select"
          Blank,       \* a text with nothing but white space
          Formatted,   \* peek_lsp::format, text by text
          NoText

ASSUME TextsAssumption ==
    /\ Unbounded \subseteq EditorTexts
    /\ Selects \subseteq EditorTexts
    /\ Blank \in EditorTexts \ (Unbounded \cup Selects)
    /\ Formatted \in [EditorTexts -> EditorTexts]
    /\ NoText \notin EditorTexts

VARIABLES text,        \* QueryData::query
          running,     \* QueryData::is_running
          polling,     \* QueryData::live_interval_ms is set
          shown,       \* the editor's value
          focused,     \* the editor has the focus
          behind,      \* the document's revision is past QueryEditor::revision
          confirming,  \* QueryEditor::confirming_unbounded
          warned,      \* the text the user pressed Run on when the warning came up
          fetched,     \* the text that produced the result on the canvas
          sent         \* the last statement sent: what, on whose behalf, and
                       \* what the user had in front of them

gateVars == <<text, running, polling, shown, focused, behind, confirming, warned, fetched, sent>>

editor == <<shown, focused>>

warning == <<confirming, warned>>

Callers == {"user", "poll", "refresh"}

Sends == [text : EditorTexts, by : Callers, shown : EditorTexts, warned : EditorTexts \cup {NoText},
          fetched : EditorTexts \cup {NoText}]

GateTypeOK ==
    /\ text \in EditorTexts /\ shown \in EditorTexts
    /\ running \in BOOLEAN /\ polling \in BOOLEAN
    /\ focused \in BOOLEAN /\ behind \in BOOLEAN /\ confirming \in BOOLEAN
    /\ warned \in EditorTexts \cup {NoText} /\ fetched \in EditorTexts \cup {NoText}
    /\ sent \in {<<>>} \cup {<<s>> : s \in Sends}

GateInit ==
    /\ text = Blank /\ shown = Blank
    /\ running = FALSE /\ polling = FALSE
    /\ focused = FALSE /\ behind = FALSE /\ confirming = FALSE
    /\ warned = NoText /\ fetched = NoText
    /\ sent = <<>>

----------------------------------------------------------------------------
(* plan and run.  *)

Refused == running \/ text = Blank

NeedsConfirmation(confirmed) == ~Refused /\ ~confirmed /\ text \in Unbounded

\* Slip: the gate is left to the button.
MayStartUngated(confirmed) == ~Refused

MayStart(confirmed) == ~Refused /\ (confirmed \/ text \notin Unbounded)

\* The statement goes out, or, when a variable has no value, an error node is
\* placed and nothing is sent.  Either way the document is touched.
Send(caller, resolved) ==
    /\ behind' = TRUE
    /\ IF resolved
         THEN /\ running' = TRUE
              /\ sent' = <<[text |-> text, by |-> caller, shown |-> shown,
                            warned |-> warned, fetched |-> fetched]>>
         ELSE UNCHANGED <<running, sent>>

\* run: `connected` is Database::is_connected, `resolved` that every variable
\* has a value.
Run(caller, confirmed, connected, resolved) ==
    IF connected /\ MayStart(confirmed)
      THEN Send(caller, resolved)
      ELSE UNCHANGED <<behind, running, sent>>

\* QueryEditor::start_run, by the button, the key, the palette or the poll.
StartRun(caller, connected, resolved) ==
    /\ Run(caller, confirming, connected, resolved)
    /\ confirming' = (connected /\ NeedsConfirmation(confirming))
    /\ warned' = IF ~confirming' THEN NoText
                 ELSE IF caller = "user" THEN text ELSE warned
    /\ UNCHANGED <<text, polling, editor, fetched>>

PressRun(connected, resolved) == StartRun("user", connected, resolved)

\* live_tick.
PollTick(connected, resolved) ==
    /\ polling /\ ~focused /\ ~running
    /\ text \in Selects
    /\ StartRun("poll", connected, resolved)

\* rerun_source, after a row of the result was edited or deleted: it does not
\* go through the editor, and is confirmed whatever the text is by now.
Refresh(connected, resolved) ==
    /\ fetched # NoText
    /\ Run("refresh", TRUE, connected, resolved)
    /\ UNCHANGED <<text, polling, editor, warning, fetched>>

\* The answer: the result on the canvas is of the statement that was sent.
Answer(ok) ==
    /\ running /\ sent # <<>>
    /\ running' = FALSE
    /\ behind' = TRUE
    /\ fetched' = IF ok THEN sent[1].text ELSE fetched
    /\ UNCHANGED <<text, polling, editor, warning, sent>>

----------------------------------------------------------------------------
(* The editor.  *)

\* Slip: an edit the document never gets.
WriteUnsaved(t) ==
    /\ shown' = t /\ text' = text
    /\ behind' = FALSE
    /\ confirming' = FALSE /\ warned' = NoText

\* write: the editor's text goes to the document and withdraws the warning;
\* the revision it makes is the editor's own.
Write(t) ==
    /\ shown' = t /\ text' = t
    /\ behind' = FALSE
    /\ confirming' = FALSE /\ warned' = NoText

TypeText(t) ==
    /\ focused
    /\ Write(t)
    /\ UNCHANGED <<running, polling, focused, fetched, sent>>

\* apply_format, by the button or the key.
Format ==
    /\ Formatted[shown] # shown
    /\ Write(Formatted[shown])
    /\ UNCHANGED <<running, polling, focused, fetched, sent>>

Focus ==
    /\ ~focused
    /\ focused' = TRUE
    /\ UNCHANGED <<text, running, polling, shown, behind, warning, fetched, sent>>

Blur ==
    /\ focused
    /\ focused' = FALSE
    /\ UNCHANGED <<text, running, polling, shown, behind, warning, fetched, sent>>

\* Slip: an editor whose query is running is left alone too.
ReconcileIdle ==
    /\ behind
    /\ behind' = FALSE
    /\ shown' = IF focused \/ running THEN shown ELSE text
    /\ UNCHANGED <<text, running, polling, focused, warning, fetched, sent>>

\* reconcile, on the frame after a revision: the editor adopts the document's
\* text unless it has the focus, and the revision in any case.  set_value emits
\* no change event, so the warning stays.
Reconcile ==
    /\ behind
    /\ behind' = FALSE
    /\ shown' = IF focused THEN shown ELSE text
    /\ UNCHANGED <<text, running, polling, focused, warning, fetched, sent>>

\* The text is changed in the document: undo, redo, an agent's tool call.  With
\* t = text it is any other edit of the document.
Rewrite(t) ==
    /\ text' = t
    /\ behind' = TRUE
    /\ UNCHANGED <<running, polling, editor, warning, fetched, sent>>

TogglePolling ==
    /\ polling' = ~polling
    /\ behind' = TRUE
    /\ UNCHANGED <<text, running, editor, warning, fetched, sent>>

\* The page is left and the editor dropped; coming back builds a new one.
Rebuild ==
    /\ shown' = text /\ focused' = FALSE /\ behind' = FALSE
    /\ confirming' = FALSE /\ warned' = NoText
    /\ UNCHANGED <<text, running, polling, fetched, sent>>

----------------------------------------------------------------------------
\* The user acts on what was drawn: an editor that has a revision to adopt does
\* so on the next frame, before it takes the focus or a press of Run.
Drawn == focused \/ ~behind

EditorNext ==
    \/ \E t \in EditorTexts : TypeText(t)
    \/ Drawn /\ (Focus \/ Format)
    \/ Blur \/ Reconcile \/ TogglePolling \/ Rebuild
    \/ \E ok \in BOOLEAN : Answer(ok)
    \/ \E c, r \in BOOLEAN : Drawn /\ PressRun(c, r)

\* The gate is kept as long as the poll finds no statement beyond the select,
\* the text is not rewritten under a focused editor or a warning, and a result
\* is refreshed only while its query is the text that produced it.
PollIsCalm       == text \notin Unbounded
RewriteIsCalm(t) == t = text \/ (~focused /\ ~confirming)
RefreshIsCalm    == text = fetched

CalmNext ==
    \/ EditorNext
    \/ \E c, r \in BOOLEAN : PollIsCalm /\ PollTick(c, r)
    \/ \E t \in EditorTexts : RewriteIsCalm(t) /\ Rewrite(t)
    \/ \E c, r \in BOOLEAN : RefreshIsCalm /\ Refresh(c, r)

Polls     == \E c, r \in BOOLEAN : PollTick(c, r)
Rewrites  == \E t \in EditorTexts : Rewrite(t)
Refreshes == \E c, r \in BOOLEAN : Refresh(c, r)

CalmSpec == GateInit /\ [][CalmNext]_gateVars
PollSpec == GateInit /\ [][CalmNext \/ Polls]_gateVars
GateSpec == GateInit /\ [][CalmNext \/ Polls \/ Rewrites \/ Refreshes]_gateVars

----------------------------------------------------------------------------
\* An unbounded write reaches the database only if the user was warned about
\* that very text and pressed Run again, or, to refresh a result, if it is the
\* text the result came from (execution.rs: plan, run, rerun_source).
OnlyConfirmedWrites ==
    (sent # <<>> /\ sent[1].text \in Unbounded) =>
        \/ sent[1].by = "user" /\ sent[1].warned = sent[1].text
        \/ sent[1].by = "refresh" /\ sent[1].fetched = sent[1].text

\* The statement the user sends is the one in the editor in front of them.
SentAsShown ==
    (sent # <<>> /\ sent[1].by = "user") => sent[1].text = sent[1].shown

\* An editor nobody types in, with nothing left to adopt, shows the text of the
\* document: what a run sends and what the next keystroke overwrites is what the
\* user reads (QueryEditor::reconcile).
IdleEditorIsCurrent == (~focused /\ ~behind) => shown = text

\* The warning is about the text in the editor: the red button never offers to
\* run another statement than the one the user was warned about.
WarningIsAboutText == confirming => (text = warned /\ shown = warned)
=============================================================================
