# peek-rs in TLA+

Peek is a canvas for databases: a document of pages, on which query nodes,
their results, errors, charts, variables, texts, drawings and agents are placed
and connected.  This directory specifies the parts of it in which the order of
events decides what the user ends up with.

Contents: [the system](#the-system), [the modules](#the-modules),
[the runs](#the-runs), [further configurations](#further-configurations),
[fairness](#fairness),
[where the code departs](#where-the-code-departs-from-what-it-says),
[the proofs](#the-proofs), [what is left out](#what-is-left-out),
[the plan](#the-plan), [running](#running).

## The system

The program is one process.  A UI thread (gpui) owns the document and every
view of it, and runs one handler at a time; a tokio runtime owns the database
session, the agent processes and the MCP server.  The two talk through spawned
tasks that come back to the UI thread with an answer, and through channels
drained on it.  A handler is therefore atomic, and what is concurrent is the
*order* of handlers - except where file work meets another process, and inside
the runtime, where tasks share locks.

| Component | State | Operations | Talks to |
|---|---|---|---|
| Undo history (`peek-canvas/src/history.rs`) | two stacks per page, one open transaction | record, checkpoint, discard, undo, redo | the session document, which calls it before and after each mutation |
| Session document (`peek-canvas/src/model.rs`) | pages, active page, selection, viewports, revision | edits of the active page, page changes, `on_page` lens for tools | canvas, editors, tools, execution; observers: autosave, version history |
| Canvas view and gestures (`peek-canvas/src/gesture.rs`, `hit.rs`, `peek-ui/src/canvas/`) | the gesture under way, placement, camera, flight, wheel timer, touch | press, drag, release, keys, flights, page changes | session document |
| Regions (`peek-canvas/src/regions/`, `canvas/dispatch/regions.rs`) | members of each region, by page | group, fold, claim, ungroup, ask a model and apply its plan | session document, local model |
| Canvas tools (`peek-canvas/src/tools/`, `peek-ui/src/canvas/dispatch/`) | none | read and edit the canvas for an agent | session document, query execution |
| Query editor (`peek-ui/src/node/query/`) | its text, revision seen, `confirming_unbounded`, poll task | type, format, reconcile, run, live tick | session document, execution |
| Query execution (`peek-ui/src/execution.rs`, `peek-canvas/src/execution.rs`) | `is_running` of the node, the spawned task | plan, run, rerun_source, place_result, place_query_error | database session, session document |
| Result table (`peek-ui/src/node/result/`) | rows shown, rows visible, selection, find bar, cell being edited, detail pane, pending deletion | edit, delete, search, pivot, adopt new rows | execution, mutation statements |
| Document file, autosave (`peek-document/src/storage.rs`, `peek-ui/src/autosave.rs`, `workspace.rs`) | path, modification time seen, backup made; timer, stale | load, save, flush, switch, rename | disk, shared with the other Peek application |
| Connections and picker (`peek-config/src/workspaces.rs`, `peek-ui/src/title_bar/picker/`, `workspace.rs`) | entries of the settings, the one that is open | add, duplicate, rename, remove, open, fall back | document files, database |
| Version history (`peek-document/src/history/`, `peek-ui/src/canvas/history/`) | chain of entries, tail, owed capture, timers; the log on disk; the panel's selection and the preview | capture, flush, load, compact, reconstruct, preview, restore | disk, shared; session document |
| Database session (`peek-db/src/session.rs`, `tunnel.rs`, `peek-ui/src/database.rs`) | connection behind a lock, tunnel and its port, schema; what the window shows of them | connect, query, load schema | tokio runtime, servers |
| MCP bridge (`peek-mcp/`, `peek-ui/src/mcp.rs`) | request queue, five-second timeout | request, drain, answer, close | canvas tools, database |
| ACP agents (`peek-acp/`, `peek-ui/src/node/agent/`) | process, connection slot, sessions, routes, permission prompts; each view's transcript | open, prompt, update, ask, answer, finish | agent process, session document |
| Ollama agents (`peek-ollama/`, `peek-ui/src/node/agent/`) | message list of a turn, context given, rows drawn | chat rounds with tool calls | local server, canvas tools |
| Query labels, results sidecar, pages panel, completion, schema, themes, settings, key map | derived, or read and written whole | - | - |

What is hard in each of the parts, and what makes it right:

* **Undo history.**  Edits within 300 ms join one transaction; a tool call, a
  page change, escape, undo or redo may meet the transaction open.  Right: a page
  is a line of states with a position on it; nothing that leaves the page is out
  of undo's reach; the stacks are bounded.
* **Gestures.**  Between press and release anything may happen to what the
  gesture holds: a key, a page change, a tool call, the end of a flight.  Right:
  nothing is selected or connected that is not there, a drag is one undo step, a
  page is found again as it was left.
* **Regions.**  A node is in one region at most, and five operations, one of
  which waits for a model, move members.  Right: every handler is a step of a
  labelling of nodes, and no node carries two labels.
* **Query editor and gate.**  The query's text is kept twice, and the warning
  about an unbounded write is a flag beside it; button, key, poll, refresh and
  tool calls all end in `plan`.  Right: an unbounded write is sent only for a user
  who was warned about *that* text, and what is sent is what is shown.
* **Query execution.**  Between the two halves of a run the user may do
  anything.  Right: the running flags are the statements that are out; a run
  ends; edges have ends.
* **Result table.**  Rows are addressed by key, by index and by position on the
  screen, while a poll replaces them.  Right: a write hits the row it was opened
  on, what is picked out is there, and a write comes to be seen.
* **Document file and connections.**  Two programs write one file; a save is a
  comparison, a backup, a rename over the file and a time read back; files are
  named after entries that can be renamed and removed.  Right: no write of the
  other program is lost, no edit of this one forgotten, no entry parted from its
  canvas.
* **Version history.**  Deltas in a shared append-only log with verification and
  compaction; lines cut off or run together by a crash or another writer; a
  selection and a preview set by different handlers.  Right: each version comes
  back with the nodes it had, none is cut off, every edit becomes one, and the
  version that is restored is the one on the screen.
* **Database session.**  Calls race for a lock and carry no token.  Right: what
  is shown is what is open, and the tunnel's port has an owner.
* **Agents.**  Updates, answers and prompts come on different channels; a
  process dies, a user never answers, a caller gives up; a conversation is
  staged in a view and written to the document at the end, over undo and redo.
  Right: it is whole and in order, every call has its result, the model works on
  what is in it, and every turn and every call ends.

`PROJECT.json` lists these hazards line by line, with the properties that cover
each.

## The modules

| Module | Stands for |
|---|---|
| `HistoryOps` | `history.rs` as operators on a history value |
| `UndoHistory` | the document's pages with their history, the placement drag, tools |
| `UndoTimeline` | the abstract specification: what undo promises of a page |
| `Gestures` | pointer, selection, connections, camera, pages |
| `Regions`, over `RegionLabels` | regions and the requests to the model; abstractly, labels on nodes |
| `QueryGate` | one query node: document text, editor, warning, poll, refresh |
| `QueryRun` | a run between press and placing, over `HistoryOps` |
| `ResultTable` | a result node, its edits and deletions, and the session they go through |
| `DocumentFile` | a document between memory and disk |
| `Connections` | the entries of the settings and the picker, over `DocumentFile` |
| `OpenedDatabase` | the connection the database is asked for, over `Connections` |
| `VersionLog` | the version log and the handles that record into it |
| `VersionPanel` | the history panel and its preview, over `VersionLog` |
| `DatabaseSession` | the session, its tunnel, and what the window shows |
| `ToolChannel` | the MCP bridge, over `DatabaseSession` |
| `TranscriptOps` | what a view drew, staged and streams of a conversation |
| `AcpAgents` | agents on one ACP process, over `TranscriptOps` |
| `ToolRounds` | a turn of the local model, over `TranscriptOps` |
| `DocumentProofs`, `RegionsProofs`, `QueryProofs`, `ToolChannelProofs`, `GesturesProofs`, `ResultTableProofs`, `AgentsProofs`, `VersionProofs` | theorems |
| `MC*` | instances for TLC that need definitions |

Definitions named as a *slip* in a comment are variants of the one beside them
with a bug in them, such as a check forgotten; no specification uses them.  They
show that a property tells the code from the bug.

A specification named *calm* leaves out moments at which the code, as it is,
breaks a property; each is a named guard (`...IsCalm`, `Calm...`, `Settled`),
and each is described [below](#where-the-code-departs-from-what-it-says).

### HistoryOps and UndoHistory

A page's content is a function from the nodes on it to a version, which stands
for all that a snapshot compares.  `h` is the `History` value; `Record`, `Seal`,
`StepBack`, `StepForward`, `Discard` are `record`, `seal`/`checkpoint`, `undo`,
`redo`, `discard`.  Whether an edit falls in the coalescing window is an argument
left to chance (`within`).  Each action is a handler with all it does: `Edit` one
frame of a drag or a keystroke, `AddNode` a structural edit that is sealed at
once, `PlaceNode` .. `CommitPlacement`/`CancelPlacement` the placement drag,
`SwitchPage`, `AddPage`, `DeletePage` with the view's `adopt_active_page`, and
`ToolEdit` an agent's edit of any page through the lens.  New ids are fresh
(`FreshNode`, `FreshPage`), as random ids are.

`CalmSpec` leaves three moments out: a redo while an edit is open (`RedoIsCalm`),
a tool edit elsewhere while the user's transaction is open and has changed
nothing (`ToolIsCalm`), an escape when the open transaction is not the
placement's own (`CancelIsCalm`).  With these out, `UndoHistory` implements
`UndoTimeline`: the mapping reads past stack, open transaction's `before` and
future stack as one line, and the page as the draft at a position on it.

### Gestures

`at` is the reducer's `Interaction`, with what each variant holds; `hand` is it
with the armed tool and the placement.  `Down`, `Drag...`, `Release...`,
`Click`, `Wheel`, `Touch`, `FlightTicks` are the inputs, each with the effects
the view applies at once, including `GestureEnded` with its seal and its viewport
write.  `board`, `edges` and `viewport` are the document's, `sel`, `esel` the
selection; `entry` is the transaction that is open and the drags that are in it
(`by`), which is what `OneDragPerEntry` is about.  Positions are left out: what
the pointer is over (`on`) and where the camera goes are choices.  A second
button pressed during a gesture, a touch during a flight, a timer that fires on
another page are all in.  The guards of the calm canvas are at the end of the
module, each with its reason.

### Regions and RegionLabels

A region is its set of members, which may name nodes that are gone.  `Claim`,
`Insert`, `FoldInto` and `Prune` are the functions all operations share;
`StartGrouping` and `Answered` are the request to the model and its answer, with
what the parsing of the plan drops and the fallback by edges, and `grouping` what
the request was about.  The answer may come at any time, and goes to the page
that is active then.  `Edit` is one handler's transaction on a page.
`RegionLabels` says what is promised: every node carries at most one label;
grouping puts one on the nodes it names and touches no other; the answer of the
model moves only nodes it was asked about, and takes a label from others only
when the whole page was to be regrouped; and what changed can be undone.

### QueryGate

`text` is the document's, `shown` the editor's; `behind` says that the document
has a revision the editor has not looked at.  `Run` is `run` with its `plan`,
called by `PressRun`, `PollTick` and `Refresh` with the confirmation each of them
passes.  A text is classified the way the code does: `Unbounded` by all
statements of it, `Selects` by how it begins.  `sent` keeps, for the statement
last sent, what the user had in front of them.

`CalmSpec` assumes that a text that begins with select holds nothing unbounded
(`PollIsCalm`), that nothing rewrites the text under a focused editor or a
warning (`RewriteIsCalm`), and that a result is refreshed only while its query
still is the text it came from (`RefreshIsCalm`).  `Drawn` is the frame between
a revision and the user's next look at the screen.

### QueryRun

Nodes are named by what they are and by their query.  `Start` sets the flag and
sends, `Finish` places the answer on the page that is active by then and clears
the flag, in two transactions, as the code does; `StartUndefined` is a variable
without a value.  Typing, deletion, page changes, undo, redo and `Restart` (load
with `normalize`) may come in between.  `SettledSpec` keeps page changes, undo
and redo away while a statement is out, the query on its page, and undo and redo
away from snapshots taken during a run.

### ResultTable

`db` is the table in the database, `result` the rows the document holds,
`shown` those the table drew and `visible` the ones the find bar leaves, by
position.  `work` are the statements that wait for the session: each is a task of
its own that races for the lock, so any may be executed next (`Execute`), and each
answer comes back through a task of its own, so any may be heard next
(`Land...`).  `source` is what the query node behind the rows is good for, which
`Rewire` changes: ready to run, with a variable that has no value (`run` places an
error), or refused (deleted, blank, or no connection).  `Start` and `Declined` are
what `run` does, `Refresh` is `rerun_source`; `missed` remembers that a refresh came
to nothing while no run that was out had yet to read.  Cells and rows are picked
by press, drag and header; a cell is opened for typing, in the pane or in the
JSON panel, and committed as an update pinned to the key it was opened on;
`Ask` and `Confirm` are the two halves of a deletion.  `Frame` is `adopt`, with
all it resets.  A run, the poll, a failing statement and a pivot come between any
two.  `UpdateHitsOpenedRow` compares with `meant`, a history variable of the job.

### DocumentFile

A document is the set of edits it carries, with `Garble` for contents that do
not parse.  Modification times are kept as how the time the handle has seen
compares with the file's (`seen`): nothing, current, older.  A save is `Check`
(comparison and backup), `WriteFile` (rename over the file), `StampFile` (time
read back) or `SaveFails`; `BackUp` copies the file, once, and `BackUpFails` is
that copy failing, which fails the save and leaves the flag set, as `back_up`
sets it before it copies; a load is `Load` and `StampLoad`, or `LoadFails`.
`OtherSave` is the other application, `Crash` may come anywhere.  `OtherIsCalm`
keeps the other application out of the middle of a save or a load.

### Connections and OpenedDatabase

`listed` are the entries, whose names are also the names of the files
(`DocumentFile` is parameterised by them).  `RenameEntry` is the form's commit:
files, then entry, then the window, which follows if the entry is open;
`RemoveEntry` with its fall back to the first entry that is left, or to none.
`ConnectionsSpec` renames only with nothing unsaved and to a free name
(`RenameIsFree`); `RenamesSpec` at any time.  `OpenedDatabase` adds what
`connect_to` looks up in the settings of the launch (`known`).

### VersionLog

A page is a sequence of nodes (id and body) without duplicates.  `Diff` and
`Apply` are the delta; `Adopt` is the verification by parent id, `Compact` the
cut at a full snapshot, `Reconstruct` the fold from the nearest full entry.  A
writer opens, reads the log in the background (`Read`, `Rewrite`, `Arrive`),
captures on its debounce, on leaving a page, on opening the timeline and on
closing; `owed` is a flush that came before the log.  `shows` is kept with every
line to state what the version was, and read only where the code has it (in a
full entry).  An edit may bring a node back where it was, as undo of a removal
does.

What can go wrong with the file is in `ending`: the last line may lack its
newline, because the program ended between the two writes of an append, or be cut
off, because it ended within the first or within a rewrite.  The next append then
runs into it (`Appended`).  `Unwritten`, `CrashAppending` and `CrashRewriting`
are these faults; one of them may happen while no line has been lost
(`NoneIsLost`).  `CrowdSpec` has two writers in any interleaving, with crashes and
faults, on a log that may be read at any time.

### VersionPanel

One writer at a time (`Alone`), with its panel: `selected` is the panel's
selection, `preview` the canvas's detached copy.  `OpenPanel`, `ClosePanel`,
`CloseCard`, `Select` and `RestoreSelected` are the keys and buttons; `Records`,
`LogArrives`, `Leaves` and `GoesAway` what goes on under the panel, each a step of
`VersionLog` with what the panel makes of it.  Another page and back is one step.
While the panel is open, edits come from tools, statements that finish and the
poll only.

### DatabaseSession and ToolChannel

`ui` is the `Database` global; `calls` are the spawned tasks that wait for the
session's lock, `holder` the one that has it, `inner` the session, `port` the local
port of the tunnel; `answers` are those on their way to the UI thread. `Press` is a
pick, `Send` a statement, `Acquire` any of the waiting tasks getting the lock,
`Hear` any of the answers reaching the window, `OpenTunnel`, `OpenConnection` and
their failures the steps of a connect, `Reap` the listener's end when its tunnel was
dropped.  `for` is what was shown when a call was made and `on` what it ran on. The
calm session lets nobody ask for a connection while one is being opened or its
schema read.

`ToolChannel` adds the calls of an agent: `Request`, `Timeout` by the caller's
own clock, `Drain` by the window, `Close` with its answers.  Two of the calls read
what the window knows of the connection (`Tables`), which ties the two modules.

### TranscriptOps, AcpAgents and ToolRounds

`TranscriptOps` is a view's transcript: what it drew (`drawn`), how much of it is
the document's (`base`), what the turn has `staged`, and the streaming `answer`
and `thought` with their order of flushing; `Adopt` is `reconcile`, `Settled` the
end of a turn.

In `AcpAgents`, `wire` is the pipe of the process, `Dispatch` the connection's
loop, which waits inside a permission request (`asked`), `process` the agent,
which may also be one that cannot be started (`Unanswerable` is the early return of
`open`, `Opening` the rest of it), `events` the channel to
the window and `replies` the ends of turns; `route` maps sessions to views.
`Dies` may come at any time.  `CalmSpec` lets the end of a turn be seen after the
updates sent before it and after a frame (`CalmReply`).

In `ToolRounds`, `task` is the loop of a turn with its `chat`; `Batch` is one answer
with calls, of which some are refused, and `Limit` the end at the last round;
`given` is the key of the rows the result had when the question was asked, and
`Rerun` may bring back rows it had before.  `UndoTurn` and `RedoTurn` take the last
turn out of the transcript and bring it back, between turns or under a running one;
a new turn's commit or an edit of its calls leaves nothing to redo.  `task.read` is
the transcript the turn began with, `spliced` remembers a redo under a running turn.
A view's rows (`r`) are folded one message at a time, or anew in `Reconcile`.  `Of`
takes the messages of some kinds from a list, which is what `replay` does; the
actions of the view and of the document are named apart from those of `AcpAgents`
(`MountView`, `DropView`, `UndoTurn`, `RedoTurn`), for one module proves about both.

## The runs

| Run | Module, specification | Checks | Bounds |
|---|---|---|---|
| `undo_calm` | `UndoHistory`, `CalmSpec` | `HistoryBounded`, `PendingIsHere`, `DeletionIsUndoable`, `ImplementsTimeline` | 2 pages, 1 node, 2 versions, undo limit 2 |
| `gestures` | `Gestures`, `CalmSpec` | `NothingDangles`, `OneDragPerEntry`, `HalfPlacedIsHeld`, `ViewsStayApart`, `CameraIsSaved` | 2 pages, 3 nodes (a variable, a query, a stroke), 2 cameras, 2 moves, 2 edits |
| `regions` | `Regions`, `Spec` | `ExclusiveMembership`, `ImplementsLabels` | 2 pages, 3 nodes of which 1 stroke, prompts of 2, 2 items, 2 regions, 2 history entries, undo limit 1; pages are symmetric |
| `query_gate` | `QueryGate`, `CalmSpec` | `OnlyConfirmedWrites`, `SentAsShown`, `IdleEditorIsCurrent` | 5 texts |
| `query_run` | `QueryRun`, `SettledSpec` | `RunningIsAwaited`, `RunsEnd` | 1 query, 2 pages, 2 texts, 2 tasks, undo limit 1 |
| `result_table` | `ResultTable`, `Spec` | `WritesHitTheirRows`, `ScreenHolds`, `WritesAreSeen` | 2 keys, 1 search term, 2 shapes, 2 moves, 2 statements by a person or a poll |
| `document_file` | `Connections`, `ConnectionsSpec` | `OtherIsNotOverwritten`, `EntriesKeepCanvases`, `EditsReachDisk` | 2 names, 1 own edit, 1 of the other's |
| `version_log` | `VersionLog`, `CrowdSpec` | `VersionsKeepTheirNodes` | 2 writers, 2 nodes with one body, 3 versions, full every 2, 1 entry kept, one fault; writers and nodes are symmetric |
| `version_turns` | `VersionPanel`, `PanelSpec` | `LastLineIsRead`, `PreviewIsSelected`, `WorkIsKept`, `EditsAreRecorded` | 1 writer at a time, 1 node with 2 bodies, 3 versions, full every 3, 2 entries kept |
| `tool_channel` | `ToolChannel`, `AppSpec` | `ShownIsOpen`, `PortHasOwner`, `AppliedInOrder`, `PressSettles`, `CallsReturn` | 2 connections with tunnels, 2 calls, 3 requests of which the second reads |
| `acp_agents` | `AcpAgents`, `CalmSpec` | `DrawnIsWhole`, `ReadsInOrder`, `AskedIsShown`, `TurnsEnd` | 2 nodes of which 1 leaves, 2 sessions, 3 words, 2 walks |
| `tool_rounds` | `ToolRounds`, `RoundsSpec` | `CallsAnswered`, `ModelKnowsTranscript`, `ContextIsGiven`, `TurnEnds` | 2 rounds, batches of one call and of one refused and one done, 2 turns, 2 sets of rows that come and go, 2 undos or pages left, any redo |

Why the bounds are enough.

* Undo: the limit is 2 (50 in the code), so a third edit overflows the stack, and
  past and future can both be non-empty.  Two pages are what a transaction can be
  left open between; a second node would only repeat what versions of the first
  do, since no operator looks into a snapshot.
* Gestures: the three nodes are one of each kind that connects, is connected to,
  or is neither; two cameras tell a saved one from an unsaved one; two edits are a
  transaction and the one that joins it or does not.
* Regions: a region needs two members to be grouped, so three nodes are a region
  and a node outside; a prompt of two leaves a node out of it, as 40 of 41 would;
  with two items the model may name a node twice.
* Gate: the five texts are one of each classification that matters: blank,
  harmless, two unbounded writes (a warning about one of them must not serve for
  the other; one is the formatted other), and a select followed by a write.
* Run: two slots are what it takes to be two statements of one query; the limit of
  1 is the smallest that lets undo interfere.
* Result table: two keys are a right row and a wrong one, two shapes a result with
  a key and one whose rows cannot be told apart by it, two statements and the
  refreshes they ask for a late answer and the statement after it, or two
  that overtake each other.
* Documents: with two names there is a name to switch to, to rename to and to find
  occupied.
* Version log: three versions of which every second or third is full give deltas
  on deltas, a cut that finds a full entry and one that does not, and a chain that
  goes on after a cut.  In `version_log` two nodes are needed, for a delta about
  the only node there is gives the same page whatever it is applied to;
  `version_turns` has one node with two bodies, which is added, changed, removed
  and brought back.  `version_log` leaves the timer out of TLC's view of a state:
  only `Fire` reads it, and does nothing `LeavePage` may not do.
* Session: two connections are the one before and the one after; three requests of
  an agent are an edit, a read of what the window shows, and an edit that may
  overtake the first.
* Agents: two sessions on one process are what its one loop makes wait for each
  other; two rounds are a first that goes on and a last that is cut off, two turns
  one to undo or bring back and one that runs meanwhile.

Deadlock is not checked: every part of the program may rest.  Where a bound would
be exceeded the step is not taken, which the liveness properties allow for: none
of the steps they need is a bounded one.

## Further configurations

Beside the runs stand configurations that end in a counterexample: to a sentence of
the code's own comments, tests or documents, or to what a reader of the code would
take for granted.  The next section but one says what each shows:

| Configuration | Module | Refutes |
|---|---|---|
| `UndoHistory_redo` | `UndoHistory` | `EditClearsRedo` |
| `QueryGate_poll` | `MCQueryGate` | `OnlyConfirmedWrites`, under `PollSpec` |
| `QueryRun_spinner` | `QueryRun` | `SpinnerHasRun` |
| `ResultTable_copy` | `MCResultTable` | `CopiesPickedRows` |
| `Connections_rename` | `Connections` | `EntriesKeepCanvases`, under `RenamesSpec` |
| `OpenedDatabase_fresh` | `OpenedDatabase` | `DatabaseFollows` |
| `VersionLog_clobber` | `VersionLog` | `LastLineStays`, under `Spec` |
| `VersionPanel_follow` | `VersionPanel` | `SelectionFollowsPresent` |
| `ToolRounds_fold` | `MCToolRounds` | `FoldsAlike` |
| `ToolRounds_redo` | `MCToolRounds` | `ContextOnce` |
| `ResultTable_missed` | `MCResultTable` | `ReadyWritesAreSeen` |
| `Connections_backup` | `Connections` | `FirstWriteIsBackedUp` |
| `ToolChannel_race` | `ToolChannel` | `RunsWhereShown` |

## Fairness

* `DocumentFile`, `Connections`: the debounce (`Fire`) is taken to come, as is the
  rest of a handler under way.  The timer is three seconds after the last edit, so
  this says that the user stops typing for three seconds at some time.
  `SaveFails` is not fair, and may happen every time.
* `VersionLog`, `VersionPanel`: weak fairness on the background load and on the
  debounce; the latter does not even need the user to pause, for `max_wait` ends
  after three minutes of a streak.
* `QueryRun`: an answer comes for each statement that is out: the task of the
  session returns rows or an error, or its channel is dropped with the runtime,
  which the code takes for an error.
* `ResultTable`: the session executes what waits for it, the window hears the
  answers and draws frames; in which order is left open.
* `DatabaseSession`, `ToolChannel`: one of the tasks that wait gets the lock, a
  connect or statement ends with a result or an error, one of the answers is
  delivered, a dropped tunnel's listener ends.  For a call of an agent only the
  caller's own clock is fair: not even the window's drain.
* `AcpAgents`: the loop dispatches, the window routes and draws, a permission
  request times out after five minutes, and an agent at work ends its turn or
  dies.  The user's answer to a prompt is not assumed.
* `ToolRounds`: the model's server answers, with an answer, calls or an error.
* `Gestures`: the frames of a flight come to their end, the wheel's timer fires
  and a touch ends; all three come from the platform.

Neither the user, an agent's requests, the poll nor the other application is ever
assumed to act.

## Where the code departs from what it says

Thirteen configurations show a counterexample.  But for `ToolChannel_race`, each is
to a sentence of the code's own comments, tests or documents.

* `UndoHistory_redo` (`EditClearsRedo`).  After undo, an edit that is still open,
  then redo: `History::redo` (`history.rs:158`) does not seal first as undo does, so
  the redo stack has not been cleared and the redo replaces the page over the edit.
  The test at `history.rs:309` says an edit clears what could be redone.
* `QueryGate_poll` (`OnlyConfirmedWrites`).  `live_tick` (`query/mod.rs:485`) looks at
  how a text begins, `plan` at all its statements; the poll's first tick over
  `select 1; delete from t` raises the warning, and its second passes it as a
  confirmation.  `docs/status.md:189` promises a second press.
* `QueryRun_spinner` (`SpinnerHasRun`).  The running flag is in the undo snapshots
  (`execution.rs:225`): undo after a run has ended puts it back, and the query is
  refused from then on.  A page change while the statement is out does the same,
  since `Finish` acts on the active page: the answer lands there and the query
  keeps its flag.
* `Connections_rename` (`EntriesKeepCanvases`).  Renaming the open connection moves
  its files (`connection_form.rs:207`) and only then flushes the old handle
  (`workspace.rs:204`), which writes a new file under the old name; the new name
  opens without the last edits.  The commit also moves the files before
  `update_connection` refuses a name that is taken, which leaves the entry without
  them; the comment at `connection_form.rs:203` says the order of moving and
  committing keeps entry and document together.
* `VersionLog_clobber` (`LastLineStays`).  A compaction writes back what it read
  (`history/file.rs:58`), and what another handle appended meanwhile is gone;
  `file.rs:39` says appending lets both programs record "without either
  clobbering the other's lines".
* `VersionPanel_follow` (`SelectionFollowsPresent`).  With the present selected, a
  version that is recorded leaves the selection on what is now an old version,
  while the live page is on the screen, so that Enter would restore it;
  `on_history_changed` of `panel.rs` says checkpoints arriving follow the present.
* `ToolRounds_fold` (`FoldsAlike`).  A call that is staged before its results is
  folded into its own row by `absorb`, while `build_rows` of the finished
  transcript folds call and result into one; a test of `rows.rs` (line 229) says
  the two must give the same rows.
* `ToolRounds_redo` (`ContextOnce`).  Undo the turn that carried the rows, ask again,
  which sends them again, and redo while that turn runs: `redo` (`model.rs:220`) puts
  the undone turn back into the transcript, `finish_turn` appends the new one, and
  the rows are before the model twice from then on; the test at `context.rs:294` is
  named for a result the model has already seen not being sent again.  The turn that
  runs does not learn of the calls of the one brought back, the next one does
  (`ModelKnowsTranscript` is about what the turn began with, and holds throughout).
* `ResultTable_missed` (`ReadyWritesAreSeen`).  `rerun_source` (`execution.rs:217`) is
  refused while a run of the query is out, whoever began it.  The statements of a run
  and of a write race for the session, and so do their answers: rows that were read
  before the write may arrive after the refresh was refused, and stay.  The comment
  at `execution.rs:212` calls the re-run "how a result refreshes after a row is
  edited or deleted".  Nothing is run either when the query node is gone, blank or
  without a connection.  `WritesAreSeen` excepts these, by name (`missed`), and says
  that in all other cases the write comes to be seen.
* `Connections_backup` (`FirstWriteIsBackedUp`).  `back_up` (`storage.rs:276`) notes
  that the backup was made and then copies; when the copy fails the save does, and
  the next one replaces an unreadable file with no backup of it.  The comment at
  `storage.rs:268` says the backup is there "so a bad first write ... is recoverable
  by renaming a file".  `OtherIsNotOverwritten` allows this one loss (`CopyLost`).
* `ToolChannel_race` (`RunsWhereShown`).  A statement and a connect are tasks of a
  runtime with two workers (`session.rs:59`, `session.rs:178`), and either may take
  the session first: a statement sent before a connection was picked may run on that
  one, for `connected` asks only whether there is a connection.  No comment says
  otherwise; that a statement runs on what was shown is what its sender believes.
* `ResultTable_copy` (`CopiesPickedRows`).  `Scope::Rows` of `menu/scope.rs` is
  documented as "by **data** index", but is given the positions of a filtered table:
  with a search on, the menu copies other rows than the picked ones.
* `OpenedDatabase_fresh` (`DatabaseFollows`).  The window looks connections up in
  the settings of the launch (`workspace.rs:256`), the picker edits the global: a
  connection added or renamed in this session opens its canvas but is never
  connected to, and the last one's database stays open under it, which the comment
  at `workspace.rs:253` rules out.  A changed URL connects to the old one.

Moments the calm specifications leave out, and what the code does at them:

* **Undo.**  Escape after a tool's edit has sealed the placement's transaction
  leaves the node in undo's reach; escape after a page change finds the placement
  of a drag that is over, and removes its node (`CancelIsCalm`).  A tool's edit of
  another page seals a transaction that changed nothing, and leaves an undo step
  that does nothing (`ToolIsCalm`).
* **Query.**  A text rewritten under the warning keeps the warning up; one
  rewritten under the focus is sent while the old one is shown, and after the blur
  nothing brings it into the editor (`RewriteIsCalm`).  A refresh sends the query's
  present text as confirmed (`RefreshIsCalm`).  Undo during a run that was
  coalesced with typing takes the flag away, and the query can be sent twice
  (`UndoIsSettled`).  The undo after a run only takes back the clearing of the
  flag, which is a transaction of its own.
* **Documents.**  What the other application saves between the comparison and the
  rename is replaced (`OtherIsCalm`).  After a failed save nothing arms the timer
  until the document changes again (`failed`).
* **Gestures.**  Escape or a tool key during a pan leaves the viewport unsaved, and
  during a drag leaves its transaction open (`EscapeIsCalm`).  A tool key or a page
  change during a placement leaves a node half placed (`ArmIsCalm`, `PageIsCalm`).
  The deletion of a page drops a drag with its transaction open, which a quick drag
  on the page that stays then joins (`DeletionIsCalm`).  A deletion or an undo
  between press and release, or under a marquee, selects what is gone
  (`RemovalIsCalm`).  A camera locked during a touch never saves where it went
  (`LockIsCalm`).
* **Session.**  A second press while a connect is under way: the window may call one
  connection open while the other is, and the late schema of the old one is shown
  (`PressCalmly`).  A failed connect drops its tunnel without closing it, and
  `record_failure` keeps the name.
* **ACP.**  The end of a turn comes on a channel of its own, and overtakes the last
  updates (`CalmReply`), which then go to the next turn.  An undo and the end of a
  turn between two frames leave drawn messages stale.
* **Agents that cannot be started.**  `open` (`acp.rs:116`) without a runtime or a
  launch warns and stops loading, and does not finish the turn: the question stays
  staged in its view, is not in the document, and is lost with the view; a further
  question is staged after it.  `DrawnIsWhole` says so of these views and no others.

And what the models keep, because no property is broken by it:

* A failure note is pushed before the text that was streaming is flushed, and a
  plan that arrives in mid-stream stands before it.  A view that leaves the page
  loses its turn, with the question; for the local model the edits its calls made
  stay.  A dead ACP process keeps the slot (`peek-acp/session.rs:103`), so every
  later session fails until the program is restarted.  An unanswered permission
  stalls the updates of every session for up to five minutes (`session.rs:243`),
  and its prompt stays on the screen after that.
* The question is staged before the context, though `ollama.rs:54` says otherwise;
  the text of earlier rounds is joined into the final message and is in the call's
  message too.  A result that returns to rows it had before is not sent again.
  `stop()` does nothing there, and a request has no timeout.
* A request of an agent that timed out is still applied, and a retry applies it
  twice.
* A late failure of an earlier statement takes the saving mark from a cell opened
  since; a late success closes it.  The JSON panel is closed by escape or a press
  outside while its edit is in flight, though its comment leaves it alone, and
  stays open over an edit that new rows have closed.  New rows show everything
  while the find bar still shows its text; closing does not cancel a search that
  is due.
* A second button's release ends the first one's drag; releases are swallowed
  while jump labels are up; a lock toggled in mid-pan does not stop the pan; the
  deletion of another page reloads the camera of the one on screen.
* The plan of the model is applied to the page that is active when it arrives: a
  plan that replaces clears the other page's regions, and may make one of nodes
  that are not there.  One that extends may take nodes the user has grouped
  meanwhile, though `dispatch/regions.rs:35` says "the existing regions stay".  The
  deletion of a node and a later claim may leave a region over nothing that lives,
  which `regions/mod.rs:5` excludes.  There is no timeout on the request, and no
  second one until it ends.
* Two handles that loaded the same tail append deltas with one parent; the next
  load drops the second one and what builds on it, up to a full entry.  After a
  torn append, the next line is run into it and lost too, although the comment on
  parsing (`chain.rs`) says a cut-off line invalidates itself only.  A delta does
  not carry the order of nodes: one deleted, recorded and brought back by undo is
  last in the reconstructed version; `VersionsKeepTheirNodes` compares sets.
* A probe's verdict and a chosen key file are put on whichever form is showing.  A
  rename does not move the version log.  Removing the last connection keeps its
  canvas and its autosave path.

## The proofs

TLAPS proves, for every value of the constants that meets the assumptions of the
modules:

* `DocumentProofs`, of `UndoHistory`: `Spec => []TypeOK`, `[]HistoryBounded`,
  `[]ActivePageLives`, `[]PendingIsHere`.  The inductive invariant `IInv` is their
  conjunction: each leans on the others.  That redo pushes without a cap is
  harmless only because undo took from the past what redo puts back (a budget
  per page, `BudgetLemma`, `StepBackLemma`, `StepForwardLemma`); a seal hands the
  history the content of a page that lives only because the active page lives;
  and a page change keeps `PendingIsHere` because it seals first.  The lemmas on
  `Seal`, `Record`, `StepBack`, `StepForward` say what each does to a history in
  order (`Good`), and the step lemma `NextIInv` has one step per action.
  `CalmSpec => DeletionIsUndoable` is an action property: a node that leaves
  a page is in a snapshot on one of its stacks after the step, unless the open
  transaction made it (`PushedLemma`, `WroteLemma`, `DeletionLemma`).
  `CalmSpec => ImplementsTimeline` is the refinement of
  `UndoTimeline`.  A page is read as a line of states, its past, its base and its
  future put end to end (`LineFrom`, `In`), and a position on it; each operator of
  `HistoryOps` has a lemma that says which step of that line it takes (`SettleLemma`,
  `BackIn`, `ForthIn`, `DiscardIn`, ...), and `NextTimeline` has one step per action.
  It leans on `IInv`: pages other than the one on screen are at rest only because of
  `PendingIsHere`.
  Of `Connections`: the types, and `[]OtherIsNotOverwritten` for any number of
  names, edits and writers.  `SaveInv` says of each phase of a save and a load what
  the handle has seen of the file; that a comparison stays good until the rename is
  what `OtherIsCalm` is for, and of the backup, that one was made or the one attempt
  at it failed before a file is replaced that could not be read.
  `EntriesKeepCanvases` rests on `Kept`: a document that
  is not dirty is in the file of the name the window calls it by, a dirty one is at
  least of that name, and the path of the handle differs from that name only
  between a rename and the load after it.  `[]NamesAreOwn` holds under
  `RenamesSpec` too, where a rename may come at any time.
* `QueryProofs`, of `QueryGate`: `CalmSpec => []OnlyConfirmedWrites`, `[]SentAsShown`,
  `[]WarningIsAboutText`, `[]IdleEditorIsCurrent`, for any set of texts and any
  classification.  The invariant `GateInv` adds that an editor in focus shows the
  document's text (`FocusedEditorIsCurrent`), without which typing after a blur or
  a press under the focus would not be covered.
  Of `QueryRun`: `SettledSpec => []RunningIsAwaited`, `[]EdgesHaveEnds`,
  `[]TypeOK`.  `RunInv` asks it of the snapshots too, for undo brings them back: in
  each a node has the data of its kind and an edge its ends; the queries that spin
  on the active page are those in flight, one flight each, and none spins on any
  other page.
* `ToolChannelProofs`: `AppSpec => []ShownIsOpen`, `[]PortHasOwner`, for any
  connections, calls and requests, whichever task gets the session and whichever
  answer is heard first.  The invariant follows a call through the waiting, the lock,
  the answers and the window: at most one connect is anywhere, and while it is out no
  schema of the last connection is.
  Of the queue of an agent's calls, `[]AppliedInOrder` and the action property
  `ToldIsShown` for any number of calls: a request is queued once, after all that
  were applied before it and whoever still waits for it, and what the answer to a
  read says is `ui.schema`, of which `SessionInv` knows the connection
  (`ChannelInv`).
* `GesturesProofs`: `CalmSpec => []NothingDangles`, `[]OneDragPerEntry`,
  `[]HalfPlacedIsHeld`, and the action property `ViewsStayApart`, for any board.
  `GestureInv` says of each variant of `Interaction` that what it holds is on the
  page and its transaction is open with this drag alone; the proof has a lemma for
  each group of handlers.
* `ResultTableProofs`: `Spec => []WritesHitTheirRows`, and `Spec => []ScreenHolds`:
  the rows on screen are rows the node has, what is picked is on the screen, the
  statement of a cell being saved is still to be answered and rows are hidden only by
  a find bar, for any keys, searches and numbers of presses, writes and runs, and any
  order of statements and of answers.  A deletion reads the selection
  again at its confirmation; `AskHolds` says that while the dialog is up the
  selection is either the one it counted or gone, for whatever changes what a
  selection is read through also drops it (`FrameInv`, `FindLemma`).  That a search
  shows rows there are needs that the rows of an answer are distinct
  (`FetchedDistinct`), so that no two matches have the same place
  (`RanksAreTaken`, `MatchingShows`); `TermsAssumption` says that a search orders
  the rows it matches, as the stable sort of search.rs does.
* `RegionsProofs`: `Spec => []ExclusiveMembership` and `Spec => ImplementsLabels`,
  the refinement of `RegionLabels`, for any pages and nodes and any bound on the
  prompt, the reply, the regions and the histories.  `IInv` asks of every page, on
  the screen and in the snapshots, that its regions are disjoint, not empty and of
  ids given out: undo brings the snapshots back, and an answer lands on a page that
  undo may have changed since the question.  `ClaimLemma`, `InsertLemma` and
  `FoldIntoLemma` say whose member a node is afterwards; `ParseLemma`, `LandLemma`
  and `ApplyGroupingLemma` carry that through a plan of any length.  `StepShapes`
  says what a step can be - one page changed by an edit (`Changes`), the answer
  (`Regrouped`), a return (`Returns`), a question (`Opens`) - and the refinement has
  one lemma for each.  A label is new where it was never given out (`NewLabel`):
  every page undo can reach is of older ids.
* `AgentsProofs`: `CalmSpec => []DrawnIsWhole`, `[]ReadsInOrder`, `[]AskedIsShown`
  and `[]RoutesAreOwn` of `AcpAgents`, for any number of nodes, sessions, words and
  walks.  The four have one inductive invariant, `AInvariant`, for each needs what
  the others say.  `Turns` and `Own` follow one turn from its prompt to its answer:
  nothing comes after the end of a turn, and a view that does not load has nothing
  staged and nothing on its way, so a late update never lands in a turn that is
  over.  `Queued` orders the wire and the channel to the window, and `Timed` says
  that what a view holds was begun before all that still travels to it, which is why
  a conversation reads in order.  `Permits` says where a permission request is: the
  loop reads nothing more while it waits, so the one it waits in is the last that
  was sent.  One lemma per action; `AtOne` and the lemmas on `Goes` say what a step
  of a transcript keeps. Of `ToolRounds`: `RoundsSpec => []CallsAnswered`,
  `[]ModelKnowsTranscript` and `[]ContextIsGiven`, for any number of rounds, turns,
  rows and undos and any batches of calls.  `RInvariant` says that every committed
  turn, and what the running one has staged, is a conversation whose calls are
  answered (`Talks`), and of a turn that runs (`Knows`) what the three say.  The
  third needs that rows that were shown before stand in the transcript once, since
  they are not sent again.  Undo and redo move along one line of turns, of which
  every beginning is `Single`, that is, has no two contexts alike (`UndoneKeeps`,
  `RedoneKeeps`); a redo under a running turn may break that for its commit, and is
  what `spliced` excepts.  `ModelKnowsTranscript` has no such exception: it is about
  the transcript the turn began with. `OfConcat`, `AcceptedBoth`, `DoneBoth` and
  `GivesAtBoth` say what each of the four says of one list after another.
* `VersionProofs`: `CrowdSpec => []VersionsKeepTheirNodes` of `VersionLog`, and
  `PanelSpec => []LastLineIsRead`, `[]PreviewIsSelected`, `WorkIsKept` and
  `LastLineStays` of `VersionPanel`, for any windows, nodes and bodies and any bound
  on the log. `DiffApply` says that applying the difference of two pages to the
  first gives the nodes of the second, with ids distinct.  `Chain` is what a list of
  entries keeps through capture, compaction and reading: each delta starts from the
  entry before it, and the first is full, so `Reconstruct` finds what `shows` says
  (`Sound`).  The invariant asks it of what each window holds and of what any reader
  of the file would adopt, whatever lines of another window lie between
  (`VInvariant`).  That the last line is read and that a restore has kept the page
  need more, and hold of one window at a time (`Follows`, `Level`): the window has
  the whole file, and its tail is the last page recorded.  `PInvariant` adds the
  panel: a version on the canvas is in the list, is not its last, and stays what it
  was when entries are added behind it or dropped before it (`PreviewGrown`).

A reply is read and a plan is applied item by item.  The theorems on induction of
the library take an operator, which the provers cannot instantiate, so
`RegionsProofs` makes its own from what they can cite, the well-foundedness of
`<` on the naturals: `Least`, then `SetInduction` with a set for the property,
then `RunExists` and `RunStays` for a function defined by recursion on a number.
`Regions` writes `Parse` and `ApplyGrouping` as such functions for that reason.

`AgentsProofs` and `VersionProofs` do the same for a transcript and for a log.

Only model-checked: liveness, for the prover does not handle fairness and
`ENABLED`; and `FoldsAlike`, which does not hold (see above), of the rows of a
transcript, which are built by folds.

## What is left out

What the map of `PROJECT.json` covers is about an eighth of the lines of
the implementation.  The rest is for the greater part drawing - the elements
of nodes, menus, panels and charts, built anew on each frame - and the conversion
of text: parsing and completing SQL, decoding of rows by four database drivers,
themes, settings, the wire formats of MCP, ACP and Ollama.  Positions, sizes and
layouts are real-valued geometry.

Left out of the parts that are modelled:

* Documents: the read-only mode of the file store, the lift of the legacy
  directory, the rename of a whole workspace, the results sidecar, the strip order
  of pages, a settings file that cannot be written.
* Picker: the fields of the forms, search and cursor, the test of a connection.
* Gestures: jump labels, which swallow inputs while they are up; the board frozen
  under the history panel.
* Regions: name, status, colour and order of creation, and so rename and confirm.
* Queries: labels, run of several queries at once, charts, variable nodes, the
  language server.
* Version history: labels, times, toasts, the panning of the track.
* Agents: modes and the cancel of a turn; in `AcpAgents` redo, which brings back a
  turn older than all that is said since and stales the views as undo does
  (`ToolRounds` has both); the node of a workspace with no agent at all, which has
  no composer.

Looked at, and found to hold nothing of this kind: the label of a query is
applied only to the text it was asked about; a layout writes the positions of the
page it began on as one undo step; a results file that cannot
be parsed is read as empty, and the next save replaces it.  Rows that come back to
what they were are not sent again (context.rs `unseen`), so the last context of a
conversation may be of rows the result had in between; `ContextIsGiven` says what
is left, that those of the question are there, and once.

## The plan

What a continuation would take up, in this order: the rows of a variable node,
which the editor matches by position while undo and tools change them; the pages
panel and the page search, whose cursors are indexes into lists that change; the
results sidecar as a second file beside the document's, saved and renamed one
after the other; pages in the version log; the poll, which fills the undo stack.

## Running

    tlc -config UndoHistory_calm.cfg UndoHistory
    tlapm DocumentProofs.tla

The module of each configuration is in the tables above.
