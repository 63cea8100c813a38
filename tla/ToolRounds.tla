------------------------------ MODULE ToolRounds -------------------------------
(***************************************************************************)
(* The turn of an agent node of the local model, which asks, runs the      *)
(* calls of the answer on the document and asks again, and how its         *)
(* messages are folded into rows (peek-ui node/agent: ollama.rs,           *)
(* context.rs, rows.rs, view.rs; peek-ollama session.rs mints the ids).    *)
(* The model is external.                                                  *)
(***************************************************************************)
EXTENDS TranscriptOps, FiniteSets

CONSTANTS MaxRounds,   \* MAX_TOOL_ITERATIONS
          Outcomes,    \* bound: how the calls of one answer of the model may go, one by one
          MaxTurns, MaxRows, MaxMoves   \* bounds: questions, results of the wired query,
                                        \* undos and pages left

ASSUME RoundsAssumption == MaxRounds \in Nat \ {0} /\ Outcomes \subseteq Seq({"done", "refused"}) \ {<<>>}
ASSUME WalksAssumption == MaxTurns \in Nat /\ MaxRows \in Nat /\ MaxMoves \in Nat

VARIABLES turns,    \* the committed messages of the node, a turn at a time
          undone,   \* the turns undo took out of it and redo can bring back, in their order
          rows,     \* what the Result node wired in holds: 0 while it has no rows
          pane,     \* AgentView, or none while its node is not drawn
          task,     \* the running turn: round, the chat the model is sent, the transcript
                    \* it began with, the edits so far
          clock, moves,
          spliced   \* history: a turn was brought back while another one ran

roundsVars == <<turns, undone, rows, pane, task, clock, moves, spliced>>
history == <<undone, spliced>>

Committed == FlattenSeq(turns)   \* AgentData::messages

--------------------------------------------------------------------------------
(* Messages of a round.  The ids are minted anew for every answer of the   *)
(* model (peek-ollama session.rs): call_1, call_2, ...                     *)
CallMessage(outcome, at) == [kind |-> "tool_call", at |-> at, ids |-> [i \in DOMAIN outcome |-> i]]
ResultMessage(i, how, at) == [kind |-> "tool_result", at |-> at, id |-> i, how |-> how]
ContextMessage(key, at) == [kind |-> "context", at |-> at, key |-> key]

\* The messages of some kinds, in their order.
Of(messages, kinds) ==
  LET of[i \in 0..Len(messages)] ==
        IF i = 0 THEN <<>>
        ELSE IF messages[i].kind \in kinds THEN Append(of[i - 1], messages[i])
        ELSE of[i - 1]
  IN of[Len(messages)]
Tools == {"tool_call", "tool_result"}
IsContext(m) == m.kind = "context"

(* record: the call, then one result per call (a slip: only one result). *)
RecordFirst(outcome, at) == <<CallMessage(outcome, at), ResultMessage(1, outcome[1], at)>>
Record(outcome, at) == <<CallMessage(outcome, at)>> \o [i \in DOMAIN outcome |-> ResultMessage(i, outcome[i], at)]

(* gather and unseen: the rows of the wired result, unless their fingerprint is known. *)
UnseenSource(messages) == IF \E i \in DOMAIN messages : IsContext(messages[i]) THEN {} ELSE {rows} \ {0}
Gives(m, key) == IsContext(m) /\ m.key = key
Unseen(messages) == {key \in {rows} \ {0} : \A i \in DOMAIN messages : ~Gives(messages[i], key)}
Gather(messages, at) == IF Unseen(messages) = {} THEN <<>> ELSE <<ContextMessage(rows, at)>>

--------------------------------------------------------------------------------
(* rows.rs: a call swallows the results that answer it.  A builder keeps   *)
(* the rows drawn and the ids whose result is drawn inside a pair.         *)
NoRows == [drawn |-> <<>>, consumed |-> {}]
FirstAnswer(all, id) ==
  LET hits == {k \in DOMAIN all : all[k].kind = "tool_result" /\ all[k].id = id}
  IN IF hits = {} THEN 0 ELSE CHOOSE k \in hits : \A j \in hits : k <= j
Row(index, results) == [message |-> index, results |-> results]
FoldRow(builder, index, all) ==
  LET m == all[index]
      claimed == [p \in DOMAIN m.ids |-> FirstAnswer(all, m.ids[p])]
  IN CASE m.kind = "tool_call" ->
            [drawn |-> Append(builder.drawn, Row(index, claimed)),
             consumed |-> builder.consumed \cup {m.ids[p] : p \in {q \in DOMAIN m.ids : claimed[q] # 0}}]
       [] m.kind = "tool_result" /\ m.id \in builder.consumed -> builder
       [] OTHER -> [builder EXCEPT !.drawn = Append(@, Row(index, <<>>))]

BuildRows(all) == FoldLeft(LAMBDA b, i : FoldRow(b, i, all), NoRows, [i \in DOMAIN all |-> i])

(* absorb: what was appended is folded one message at a time, as it comes. *)
AbsorbRows(builder, old, new) ==
  FoldLeft(LAMBDA b, i : FoldRow(b, i, SubSeq(new, 1, i)), builder,
           [i \in 1..Len(new) - Len(old) |-> Len(old) + i])

Mounted == [live |-> TRUE, loading |-> FALSE, t |-> NewTranscript(Committed), r |-> BuildRows(Committed)]
Undrawn == [live |-> FALSE]
Shown(v, t) == [v EXCEPT !.t = t, !.r = AbsorbRows(@, v.t.drawn, t.drawn)]
StageAll(t, messages) == [t EXCEPT !.staged = @ \o messages, !.drawn = @ \o messages]

NoTask == [round |-> 0, chat |-> <<>>, read |-> <<>>, given |-> 0, edits |-> 0]
RoundsInit ==
  /\ turns = <<>> /\ undone = <<>> /\ rows = 0 /\ spliced = FALSE
  /\ pane = Mounted /\ task = NoTask
  /\ clock = 0 /\ moves = 0

RoundsTypeOK ==
  /\ rows \in 0..MaxRows /\ moves \in 0..MaxMoves
  /\ Len(turns) + Len(undone) <= clock /\ clock <= MaxTurns
  /\ task.round \in 0..MaxRounds
  /\ task.round > 0 => pane.live /\ pane.loading

--------------------------------------------------------------------------------
(* send and ask: the question is staged, then the context that is news; the *)
(* model is sent what is committed, the context, and the question.          *)
ReplayedSpoken(messages) == Of(messages, {"user", "assistant", "system", "context"})
Replayed(messages) == Of(messages, {"user", "assistant", "system", "context", "tool_call", "tool_result"})
AskModel ==
  /\ pane.live /\ ~pane.loading /\ clock < MaxTurns
  /\ clock' = clock + 1
  /\ LET question == <<Message("user", clock + 1)>>
         context  == Gather(Committed, clock + 1)
     IN  /\ pane' = [Shown(pane, StageAll(pane.t, question \o context)) EXCEPT !.loading = TRUE]
         /\ task' = [round |-> 1, given |-> rows, edits |-> 0, read |-> Committed,
                     chat |-> Replayed(Committed) \o context \o question]
  /\ UNCHANGED <<turns, rows, moves, history>>

Asking == pane.live /\ task.round > 0

(* finish_turn: flush, commit as one step of undo, after which nothing undone comes *)
(* back, and move past the write.                                                   *)
Close(t) == /\ pane' = [Shown(pane, Finished(t)) EXCEPT !.loading = FALSE, !.t = Settled(t)]
            /\ turns' = Append(turns, Finished(t).staged) /\ undone' = <<>>
            /\ task' = NoTask
            /\ UNCHANGED <<rows, clock, moves, spliced>>

(* stream_chunk: the first token of an answer; those that follow change nothing here. *)
Chunk == /\ Asking /\ pane.t.answer = NoText
         /\ pane' = Shown(pane, Stream(pane.t, "assistant", clock))
         /\ UNCHANGED <<turns, rows, task, clock, moves, history>>

Answered == Asking /\ Close(pane.t)                                       \* Done without calls
ModelFails == Asking /\ Close(Push(pane.t, Message("system", clock)))     \* Failed

(* A batch of calls, each done or refused: no await between the first edit and the *)
(* record, so nothing comes between them.  An edit ends what could be brought back. *)
(* The last round is not run.                                                      *)
Edited(outcome) == Cardinality({i \in DOMAIN outcome : outcome[i] = "done"})
Batch(outcome) ==
  /\ Asking /\ task.round < MaxRounds
  /\ pane' = LET v == Shown(pane, StageAll(pane.t, Record(outcome, clock)))
             IN IF Edited(outcome) = 0 THEN v ELSE [v EXCEPT !.t.stale = TRUE]
  /\ undone' = IF Edited(outcome) = 0 THEN undone ELSE <<>>
  /\ task' = [task EXCEPT !.round = @ + 1, !.edits = @ + Edited(outcome),
                        !.chat = @ \o Record(outcome, clock) \o <<Message("nudge", clock)>>]
  /\ UNCHANGED <<turns, rows, clock, moves, spliced>>
LimitUnclosed == /\ Asking /\ task.round = MaxRounds
                 /\ pane' = Shown(pane, Push(pane.t, Message("system", clock)))
                 /\ task' = NoTask
                 /\ UNCHANGED <<turns, rows, clock, moves, history>>
Limit == Asking /\ task.round = MaxRounds /\ Close(Push(pane.t, Message("system", clock)))

--------------------------------------------------------------------------------
(* The rest of the window.  A view that is not drawn is dropped, and its turn with it. *)
Stale == IF pane.live THEN [pane EXCEPT !.t.stale = TRUE] ELSE pane
Rerun == /\ rows' \in (0..MaxRows) \ {rows} /\ pane' = Stale
         /\ UNCHANGED <<turns, task, clock, moves, history>>
(* undo and redo, also of earlier turns while one runs: it has not edited the document. *)
UndoTurn == /\ turns # <<>> /\ moves < MaxMoves /\ moves' = moves + 1
            /\ turns' = Front(turns) /\ undone' = <<Last(turns)>> \o undone
            /\ pane' = Stale
            /\ UNCHANGED <<rows, task, clock, spliced>>
RedoTurn == /\ undone # <<>>
            /\ turns' = Append(turns, Head(undone)) /\ undone' = Tail(undone)
            /\ pane' = Stale
            /\ spliced' = (spliced \/ Asking)
            /\ UNCHANGED <<rows, task, clock, moves>>
DropView == /\ pane.live /\ moves < MaxMoves /\ moves' = moves + 1
         /\ pane' = Undrawn /\ task' = NoTask
         /\ UNCHANGED <<turns, rows, clock, history>>
MountView == /\ ~pane.live /\ pane' = Mounted
          /\ UNCHANGED <<turns, rows, task, clock, moves, history>>

(* reconcile: the rows are folded anew when the messages differ from those drawn. *)
Reconcile == /\ pane.live /\ pane.t.stale
        /\ LET now == Committed \o pane.t.staged
           IN pane' = [pane EXCEPT !.t = Adopt(@, Committed), !.r = IF now = pane.t.drawn THEN @ ELSE BuildRows(now)]
        /\ UNCHANGED <<turns, rows, task, clock, moves, history>>

--------------------------------------------------------------------------------
Turn == Answered \/ ModelFails \/ Limit \/ \E o \in Outcomes : Batch(o)
RoundsNext == \/ AskModel \/ Chunk \/ Turn
        \/ Rerun \/ UndoTurn \/ RedoTurn \/ DropView \/ MountView \/ Reconcile

(* The model server answers every request sooner or later. *)
RoundsSpec == RoundsInit /\ [][RoundsNext]_roundsVars /\ WF_roundsVars(Turn)

--------------------------------------------------------------------------------
(* Every call the transcript holds is followed by its results, one each and *)
(* in order, before anything else: what a later turn replays to the model   *)
(* is a conversation it accepts, also when some calls of a batch failed;    *)
(* and while a turn runs the results without error are its edits, no more   *)
(* and no less.                                                             *)
Kept == Committed \o (IF pane.live THEN pane.t.staged ELSE <<>>)
Done(messages) == {i \in DOMAIN messages : messages[i].kind = "tool_result" /\ messages[i].how = "done"}
Accepted(messages) ==
  \A i \in DOMAIN messages : messages[i].kind = "tool_call" =>
     \A p \in DOMAIN messages[i].ids :
        /\ i + p \in DOMAIN messages
        /\ messages[i + p].kind = "tool_result" /\ messages[i + p].id = messages[i].ids[p]
CallsAnswered ==
  /\ Accepted(Kept)
  /\ Asking => task.edits = Cardinality(Done(pane.t.staged))

(* The calls and results the model is working with are those of the         *)
(* transcript its turn began with and then those the turn will add to it,   *)
(* whatever is undone, brought back and drawn meanwhile: the next turn      *)
(* starts from what this one knew (ask builds the first, record the second, *)
(* each once for the model and once for the transcript).                    *)
ModelKnowsTranscript == Asking =>
  Of(task.chat, Tools) = Of(task.read \o pane.t.staged, Tools)

(* The rows the result had when the question was asked are before the model, *)
(* and once, whatever was run, undone, brought back and asked before, as     *)
(* long as no turn was brought back while another one ran (gather, unseen).  *)
ContextOnce == Asking /\ task.given # 0 =>
  \E i \in DOMAIN task.chat : {j \in DOMAIN task.chat : Gives(task.chat[j], task.given)} = {i}
ContextIsGiven == ~spliced => ContextOnce

(* A turn ends, if the model answers: it is asked MaxRounds times at most.  *)
TurnEnds == (pane.live /\ pane.loading) ~> ~(pane.live /\ pane.loading)

(* "appending one message at a time has to give the same rows as folding    *)
(* the finished vector, or a turn renders differently from the document it  *)
(* just wrote" (rows.rs, the test of folding).                              *)
FoldsAlike == pane.live => pane.r = BuildRows(pane.t.drawn)
================================================================================
