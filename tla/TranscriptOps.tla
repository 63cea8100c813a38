----------------------------- MODULE TranscriptOps -----------------------------
(***************************************************************************)
(* The conversation of one agent node while a turn runs: Transcript, which *)
(* turns a stream of updates into messages (peek-acp transcript.rs), and   *)
(* the part of AgentView that draws them over what the document holds      *)
(* (peek-ui node/agent/view.rs).  Pure operators on one record:            *)
(*   staged   the messages of the turn that the document does not have yet *)
(*   answer, thought   the text streaming in, or NoText                    *)
(*   drawn, base       what is drawn, and how much of it is committed      *)
(*   stale    the document was changed by somebody else since the last     *)
(*            look at it (the revision differs)                            *)
(* A message is its kind and the moment of its first word.                 *)
(***************************************************************************)
EXTENDS Naturals, Sequences, SequencesExt

CONSTANT NoText
ASSUME NoTextAssumption == NoText \notin Nat

Message(kind, at) == [kind |-> kind, at |-> at]
NewTranscript(messages) ==
  [staged |-> <<>>, answer |-> NoText, thought |-> NoText,
   drawn |-> messages, base |-> Len(messages), stale |-> FALSE]

(* push, and absorb of what was appended: one message at the end, staged and drawn. *)
Push(t, m) == [t EXCEPT !.staged = Append(@, m), !.drawn = Append(@, m)]

(* flush: the streamed text of one kind becomes a message. *)
FlushThought(t) == IF t.thought = NoText THEN t
                   ELSE [Push(t, Message("thought", t.thought)) EXCEPT !.thought = NoText]
FlushAnswer(t) == IF t.answer = NoText THEN t
                  ELSE [Push(t, Message("assistant", t.answer)) EXCEPT !.answer = NoText]
FlushAll(t) == FlushAnswer(FlushThought(t))

(* stream: a chunk; switching between answer and thought flushes the other. *)
Begun(text, at) == IF text = NoText THEN at ELSE text
StreamBoth(t, kind, at) ==
  IF kind = "assistant" THEN [t EXCEPT !.answer = Begun(@, at)] ELSE [t EXCEPT !.thought = Begun(@, at)]
Stream(t, kind, at) ==
  IF kind = "assistant" THEN LET f == FlushThought(t) IN [f EXCEPT !.answer = Begun(@, at)]
                        ELSE LET f == FlushAnswer(t)  IN [f EXCEPT !.thought = Begun(@, at)]

(* upsert_plan: the last plan is replaced where it stands. *)
UpsertPlan(t, at) == IF \E i \in DOMAIN t.staged : t.staged[i].kind = "plan" THEN t
                     ELSE Push(t, Message("plan", at))

(* apply: an update of the agent.  What patches a message in place (a tool *)
(* update, the entries of a plan) changes neither its kind nor its moment. *)
Apply(t, kind, at) ==
  CASE kind \in {"assistant", "thought"} -> Stream(t, kind, at)
    [] kind = "acp_tool" -> Push(FlushAll(t), Message("acp_tool", at))
    [] kind = "plan" -> UpsertPlan(t, at)

(* finish_turn: flush, hand over what was staged, and move past the write. *)
Finished(t) == FlushAll(t)
Settled(t) == [Finished(t) EXCEPT !.staged = <<>>, !.stale = FALSE, !.base = Len(Finished(t).drawn)]

(* reconcile: adopt the document when somebody else changed it. *)
AdoptOnly(t, messages) ==
  IF ~t.stale THEN t ELSE [t EXCEPT !.stale = FALSE, !.drawn = messages, !.base = Len(messages)]
Adopt(t, messages) ==
  IF ~t.stale THEN t
  ELSE [t EXCEPT !.stale = FALSE, !.drawn = messages \o t.staged, !.base = Len(messages)]

(* The order in which the parts of a conversation were begun.  Left out are *)
(* the note of a failed turn and a plan: neither flushes the text that is   *)
(* still streaming, and each stands before it.                              *)
Said(m) == m.kind \notin {"system", "plan"}
Chronological(t, committed) ==
  LET all  == committed \o t.staged
      said == {i \in DOMAIN all : Said(all[i])}
  IN /\ \A i, j \in said : i < j => all[i].at <= all[j].at
     /\ \A i \in said : /\ t.answer # NoText => all[i].at <= t.answer
                        /\ t.thought # NoText => all[i].at <= t.thought
================================================================================
