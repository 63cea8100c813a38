----------------------------- MODULE QueryProofs -----------------------------
(***************************************************************************)
(* The query node, for any set of texts: what leaves its editor for the    *)
(* database (QueryGate), and what a run does to the pages (QueryRun).      *)
(*                                                                         *)
(* In the calm histories no unbounded write is sent but one the user was   *)
(* warned about.  OnlyConfirmedWrites speaks of the statement last sent,   *)
(* so the work is in an invariant of the editor: while the warning is up,  *)
(* the document, the editor and the warning all hold one text, and whoever *)
(* may press Run or type has that text in front of them.                   *)
(*                                                                         *)
(* For any pages, queries and any number of runs under way, the flag of a  *)
(* query is up exactly while its answer is awaited, and every edge of a    *)
(* page ends in nodes of the page.                                         *)
(***************************************************************************)
EXTENDS QueryGate, QueryRun, SequenceTheorems, TLAPS

-----------------------------------------------------------------------------
(* The gate.  *)

\* An editor with the focus shows the document's text too, in the calm.
FocusedEditorIsCurrent == focused => shown = text

EditorInv ==
    /\ GateTypeOK
    /\ IdleEditorIsCurrent
    /\ FocusedEditorIsCurrent
    /\ WarningIsAboutText

SentInv == OnlyConfirmedWrites /\ SentAsShown

GateInv == EditorInv /\ SentInv

----------------------------------------------------------------------------
\* A run, by anyone: if the caller is in order, what is sent is in order.
LEMMA RunLemma ==
    ASSUME EditorInv, SentInv,
           NEW caller \in Callers, NEW confirmed \in BOOLEAN,
           NEW c \in BOOLEAN, NEW r \in BOOLEAN,
           Run(caller, confirmed, c, r),
           caller = "user" => (confirmed = confirming /\ shown = text),
           caller = "poll" => text \notin Unbounded,
           caller = "refresh" => fetched = text
    PROVE  /\ SentInv'
           /\ behind' \in BOOLEAN /\ running' \in BOOLEAN
           /\ sent' \in {<<>>} \cup {<<s>> : s \in Sends}
           /\ behind' \/ behind' = behind
<1>1. CASE c /\ MayStart(confirmed) /\ r
  <2> DEFINE s == [text |-> text, by |-> caller, shown |-> shown,
                   warned |-> warned, fetched |-> fetched]
  <2>1. sent' = <<s>> /\ behind' = TRUE /\ running' = TRUE
    BY <1>1 DEF Run, Send
  <2>2. s \in Sends
    BY DEF Sends, EditorInv, GateTypeOK
  <2>3. s.text = text /\ s.by = caller /\ s.shown = shown
        /\ s.warned = warned /\ s.fetched = fetched
    OBVIOUS
  <2>4. sent'[1] = s
    BY <2>1
  <2>5. text \in Unbounded =>
           \/ caller = "user" /\ warned = text
           \/ caller = "refresh" /\ fetched = text
    BY <1>1 DEF MayStart, EditorInv, WarningIsAboutText, Callers
  <2>6. OnlyConfirmedWrites'
    BY <2>3, <2>4, <2>5 DEF OnlyConfirmedWrites
  <2>7. SentAsShown'
    BY <2>3, <2>4 DEF SentAsShown
  <2> QED
    BY <2>1, <2>2, <2>6, <2>7 DEF SentInv
<1>2. CASE ~(c /\ MayStart(confirmed) /\ r)
  <2>1. sent' = sent /\ running' = running /\ (behind' = behind \/ behind' = TRUE)
    BY <1>2 DEF Run, Send
  <2> QED
    BY <2>1 DEF SentInv, OnlyConfirmedWrites, SentAsShown, EditorInv, GateTypeOK
<1> QED
  BY <1>1, <1>2

----------------------------------------------------------------------------
\* The three callers of run.
LEMMA PressLemma ==
    ASSUME GateInv, NEW c \in BOOLEAN, NEW r \in BOOLEAN,
           Drawn, PressRun(c, r)
    PROVE  GateInv'
<1>1. shown = text
  BY DEF GateInv, EditorInv, Drawn, GateTypeOK, IdleEditorIsCurrent, FocusedEditorIsCurrent
<1>2. Run("user", confirming, c, r) /\ confirming \in BOOLEAN
  BY DEF PressRun, StartRun, GateInv, EditorInv, GateTypeOK
<1>3. /\ SentInv'
      /\ behind' \in BOOLEAN /\ running' \in BOOLEAN
      /\ sent' \in {<<>>} \cup {<<s>> : s \in Sends}
      /\ behind' \/ behind' = behind
  BY <1>1, <1>2, RunLemma DEF Callers, GateInv
<1>4. /\ UNCHANGED <<text, polling, shown, focused, fetched>>
      /\ confirming' \in BOOLEAN
      /\ warned' = IF confirming' THEN text ELSE NoText
  BY <1>2 DEF PressRun, StartRun, editor, NeedsConfirmation, Refused
<1>5. EditorInv'
  BY <1>1, <1>3, <1>4 DEF GateInv, EditorInv, GateTypeOK, IdleEditorIsCurrent,
        FocusedEditorIsCurrent, WarningIsAboutText
<1> QED
  BY <1>3, <1>5 DEF GateInv

LEMMA PollLemma ==
    ASSUME GateInv, NEW c \in BOOLEAN, NEW r \in BOOLEAN,
           PollIsCalm, PollTick(c, r)
    PROVE  GateInv'
<1>1. Run("poll", confirming, c, r) /\ confirming \in BOOLEAN
      /\ ~focused /\ text \notin Unbounded
  BY DEF PollTick, StartRun, GateInv, EditorInv, GateTypeOK, PollIsCalm
<1>2. /\ SentInv'
      /\ behind' \in BOOLEAN /\ running' \in BOOLEAN
      /\ sent' \in {<<>>} \cup {<<s>> : s \in Sends}
      /\ behind' \/ behind' = behind
  BY <1>1, RunLemma DEF Callers, GateInv
<1>3. /\ UNCHANGED <<text, polling, shown, focused, fetched>>
      /\ confirming' = FALSE
      /\ warned' = NoText
  BY <1>1 DEF PollTick, StartRun, editor, NeedsConfirmation
<1>4. GateTypeOK'
  BY <1>2, <1>3 DEF GateInv, EditorInv, GateTypeOK
<1>5. IdleEditorIsCurrent' /\ FocusedEditorIsCurrent' /\ WarningIsAboutText'
  BY <1>1, <1>2, <1>3 DEF GateInv, EditorInv, GateTypeOK, IdleEditorIsCurrent,
        FocusedEditorIsCurrent, WarningIsAboutText
<1> QED
  BY <1>2, <1>4, <1>5 DEF GateInv, EditorInv

LEMMA RefreshLemma ==
    ASSUME GateInv, NEW c \in BOOLEAN, NEW r \in BOOLEAN,
           RefreshIsCalm, Refresh(c, r)
    PROVE  GateInv'
<1>1. Run("refresh", TRUE, c, r) /\ fetched = text
  BY DEF Refresh, RefreshIsCalm
<1>2. /\ SentInv'
      /\ behind' \in BOOLEAN /\ running' \in BOOLEAN
      /\ sent' \in {<<>>} \cup {<<s>> : s \in Sends}
      /\ behind' \/ behind' = behind
  BY <1>1, RunLemma DEF Callers, GateInv
<1>3. UNCHANGED <<text, polling, shown, focused, confirming, warned, fetched>>
  BY DEF Refresh, editor, warning
<1>4. EditorInv'
  BY <1>2, <1>3 DEF GateInv, EditorInv, GateTypeOK, IdleEditorIsCurrent,
        FocusedEditorIsCurrent, WarningIsAboutText
<1> QED
  BY <1>2, <1>4 DEF GateInv

\* The answer is of a statement that was sent.
LEMMA AnswerLemma ==
    ASSUME GateInv, NEW ok \in BOOLEAN, Answer(ok)
    PROVE  GateInv'
<1>1. PICK s \in Sends : sent = <<s>>
  BY DEF GateInv, EditorInv, GateTypeOK, Answer
<1>2. sent[1].text \in EditorTexts
  BY <1>1 DEF Sends
<1>3. /\ UNCHANGED <<text, polling, shown, focused, confirming, warned, sent>>
      /\ running' = FALSE /\ behind' = TRUE
      /\ fetched' \in EditorTexts \cup {NoText}
  BY <1>2 DEF Answer, editor, warning, GateInv, EditorInv, GateTypeOK
<1>4. EditorInv'
  BY <1>3 DEF GateInv, EditorInv, GateTypeOK, IdleEditorIsCurrent,
        FocusedEditorIsCurrent, WarningIsAboutText
<1>5. SentInv'
  BY <1>3 DEF GateInv, SentInv, OnlyConfirmedWrites, SentAsShown
<1> QED
  BY <1>4, <1>5 DEF GateInv

\* The steps that send nothing.
LEMMA QuietLemma ==
    ASSUME GateInv, UNCHANGED sent,
           \/ \E t \in EditorTexts : TypeText(t)
           \/ Drawn /\ (Focus \/ Format)
           \/ Blur \/ Reconcile \/ TogglePolling \/ Rebuild
           \/ \E t \in EditorTexts : RewriteIsCalm(t) /\ Rewrite(t)
    PROVE  GateInv'
<1> USE DEF GateInv, EditorInv, GateTypeOK, IdleEditorIsCurrent,
            FocusedEditorIsCurrent, WarningIsAboutText
<1>1. SentInv'
  BY DEF SentInv, OnlyConfirmedWrites, SentAsShown
<1>2. ASSUME NEW t \in EditorTexts, TypeText(t)
      PROVE  EditorInv'
  BY <1>2 DEF TypeText, Write
<1>3. CASE Drawn /\ Focus
  BY <1>1, <1>3 DEF Drawn, Focus, warning
<1>4. CASE Format
  <2>1. Formatted[shown] \in EditorTexts
    BY TextsAssumption
  <2> QED
    BY <1>1, <1>4, <2>1 DEF Format, Write
<1>5. CASE Blur
  BY <1>1, <1>5 DEF Blur, warning
<1>6. CASE Reconcile
  BY <1>1, <1>6 DEF Reconcile, warning
<1>7. CASE TogglePolling
  BY <1>1, <1>7 DEF TogglePolling, editor, warning
<1>8. CASE Rebuild
  BY <1>1, <1>8 DEF Rebuild
<1>9. ASSUME NEW t \in EditorTexts, RewriteIsCalm(t), Rewrite(t)
      PROVE  EditorInv'
  BY <1>9 DEF RewriteIsCalm, Rewrite, editor, warning
<1> QED
  BY <1>1, <1>2, <1>3, <1>4, <1>5, <1>6, <1>7, <1>8, <1>9

----------------------------------------------------------------------------
LEMMA NextGateInv == GateInv /\ [CalmNext]_gateVars => GateInv'
<1> SUFFICES ASSUME GateInv, [CalmNext]_gateVars PROVE GateInv'
  OBVIOUS
<1>1. CASE UNCHANGED gateVars
  BY <1>1 DEF gateVars, GateInv, EditorInv, SentInv, GateTypeOK, IdleEditorIsCurrent,
        FocusedEditorIsCurrent, WarningIsAboutText, OnlyConfirmedWrites, SentAsShown
<1>2. CASE EditorNext
  <2>1. ASSUME NEW t \in EditorTexts, TypeText(t) PROVE GateInv'
    BY <2>1, QuietLemma DEF TypeText
  <2>2. CASE Drawn /\ (Focus \/ Format)
    BY <2>2, QuietLemma DEF Focus, Format
  <2>3. CASE Blur \/ Reconcile \/ TogglePolling \/ Rebuild
    BY <2>3, QuietLemma DEF Blur, Reconcile, TogglePolling, Rebuild
  <2>4. ASSUME NEW ok \in BOOLEAN, Answer(ok) PROVE GateInv'
    BY <2>4, AnswerLemma
  <2>5. ASSUME NEW c \in BOOLEAN, NEW r \in BOOLEAN, Drawn, PressRun(c, r)
        PROVE  GateInv'
    BY <2>5, PressLemma
  <2> QED
    BY <1>2, <2>1, <2>2, <2>3, <2>4, <2>5 DEF EditorNext
<1>3. ASSUME NEW c \in BOOLEAN, NEW r \in BOOLEAN, PollIsCalm, PollTick(c, r)
      PROVE  GateInv'
  BY <1>3, PollLemma
<1>4. ASSUME NEW t \in EditorTexts, RewriteIsCalm(t), Rewrite(t) PROVE GateInv'
  BY <1>4, QuietLemma DEF Rewrite
<1>5. ASSUME NEW c \in BOOLEAN, NEW r \in BOOLEAN, RefreshIsCalm, Refresh(c, r)
      PROVE  GateInv'
  BY <1>5, RefreshLemma
<1> QED
  BY <1>1, <1>2, <1>3, <1>4, <1>5 DEF CalmNext

\* In a calm history the gate holds, the user sends what is in front of them,
\* and a warning is about the text it stands beside (execution.rs: plan, run;
\* node/query/mod.rs: write, reconcile, start_run).
THEOREM Gate == CalmSpec => []GateInv
<1>1. GateInit => GateInv
  BY TextsAssumption DEF GateInit, GateInv, EditorInv, SentInv, GateTypeOK, IdleEditorIsCurrent,
        FocusedEditorIsCurrent, WarningIsAboutText, OnlyConfirmedWrites, SentAsShown
<1> QED
  BY <1>1, NextGateInv, PTL DEF CalmSpec

\* No unbounded write without a warning about that very text.
THEOREM ConfirmedWrites == CalmSpec => []OnlyConfirmedWrites
<1>1. GateInv => OnlyConfirmedWrites
  BY DEF GateInv, SentInv
<1> QED
  BY <1>1, Gate, PTL

\* The user's statement is the one the editor shows.
THEOREM SentIsShown == CalmSpec => []SentAsShown
<1>1. GateInv => SentAsShown
  BY DEF GateInv, SentInv
<1> QED
  BY <1>1, Gate, PTL

\* The warning and the text it is about do not come apart.
THEOREM Warning == CalmSpec => []WarningIsAboutText
<1>1. GateInv => WarningIsAboutText
  BY DEF GateInv, EditorInv
<1> QED
  BY <1>1, Gate, PTL

\* Whoever presses Run or types next has the document's text in the editor.
THEOREM IdleEditor == CalmSpec => []IdleEditorIsCurrent
<1>1. GateInv => IdleEditorIsCurrent
  BY DEF GateInv, EditorInv
<1> QED
  BY <1>1, Gate, PTL

-----------------------------------------------------------------------------
(* The run.  *)

NodeMaps == UNION {[D -> QueryDatas \cup Texts] : D \in SUBSET Ids}

DataFits(c) == \A id \in DOMAIN c.nodes :
                  c.nodes[id] \in (IF id \in Queried THEN QueryDatas ELSE Texts)

EndsOn(c) == \A e \in c.edges : On(c, e[1]) /\ On(c, e[2])

\* A page in order, on screen or in a snapshot.
Snaps == {c \in [nodes : NodeMaps, edges : SUBSET (Ids \X Ids)] :
             DataFits(c) /\ EndsOn(c)}

\* A history in order.
Good(g) ==
    /\ g = [past |-> g.past, future |-> g.future, pending |-> g.pending]
    /\ g.past \in [Pages -> Seq(Snaps)]
    /\ g.future \in [Pages -> Seq(Snaps)]
    /\ g.pending # NoTx => g.pending.page \in Pages /\ g.pending.before \in Snaps

-----------------------------------------------------------------------------
(* Names.  *)

\* A node is named apart from the others, and tells the query it came from.
LEMMA NamesLemma ==
    /\ \A q \in Queries : Query(q) \in Queried /\ Query(q) \in Ids
    /\ \A q, r \in Queries : Query(q) = Query(r) => q = r
    /\ \A q \in Queries : Query(q) \notin Derived
    /\ \A id \in Derived : id \notin Queried /\ id \in Ids
    /\ \A q \in Queries : ResultOf(q) \in Derived /\ ErrorOf(q) \in Derived
<1>1. \A q, r \in Queries : /\ Query(q) = Query(r) => q = r
                            /\ Query(q) # ResultOf(r)
                            /\ Query(q) # ErrorOf(r)
  BY DEF Query, ResultOf, ErrorOf
<1> QED
  BY <1>1 DEF Queried, Derived, Ids

-----------------------------------------------------------------------------
(* Pages.  *)

\* A snapshot taken for undo is of a page in order.
LEMMA SnapLemma ==
    ASSUME NEW c
    PROVE  c \in Snaps <=>
             /\ c = [nodes |-> c.nodes, edges |-> c.edges]
             /\ \E D \in SUBSET Ids : c.nodes \in [D -> QueryDatas \cup Texts]
             /\ c.edges \in SUBSET (Ids \X Ids)
             /\ DataFits(c) /\ EndsOn(c)
BY DEF Snaps, NodeMaps

\* A node is put on a page, or written anew.
LEMMA PutLemma ==
    ASSUME NEW c \in Snaps, NEW id \in Ids, NEW d,
           d \in (IF id \in Queried THEN QueryDatas ELSE Texts)
    PROVE  /\ Put(c, id, d) \in Snaps
           /\ DOMAIN Put(c, id, d).nodes = DOMAIN c.nodes \cup {id}
           /\ Put(c, id, d).nodes[id] = d
           /\ \A m \in DOMAIN c.nodes \ {id} : Put(c, id, d).nodes[m] = c.nodes[m]
           /\ Put(c, id, d).edges = c.edges
<1>1. /\ c = [nodes |-> c.nodes, edges |-> c.edges]
      /\ c.edges \in SUBSET (Ids \X Ids) /\ DataFits(c) /\ EndsOn(c)
  BY SnapLemma
<1>2. PICK D \in SUBSET Ids : c.nodes \in [D -> QueryDatas \cup Texts]
  BY SnapLemma
<1> DEFINE N == [m \in DOMAIN c.nodes \cup {id} |-> IF m = id THEN d ELSE c.nodes[m]]
           P == Put(c, id, d)
<1>3. P = [nodes |-> N, edges |-> c.edges]
  BY <1>1 DEF Put
<1>4. N \in [D \cup {id} -> QueryDatas \cup Texts] /\ D \cup {id} \in SUBSET Ids
  <2>1. d \in QueryDatas \cup Texts
    OBVIOUS
  <2> QED
    BY <1>2, <2>1
<1>5. /\ DOMAIN N = DOMAIN c.nodes \cup {id}
      /\ N[id] = d
      /\ \A m \in DOMAIN c.nodes \ {id} : N[m] = c.nodes[m]
  OBVIOUS
<1> HIDE DEF N
<1>6. P.nodes = N /\ P.edges = c.edges
  BY <1>3
<1> HIDE DEF P
<1>7. DataFits(P) /\ EndsOn(P)
  BY <1>1, <1>5, <1>6 DEF DataFits, EndsOn, On
<1>8. P \in Snaps
  BY <1>1, <1>3, <1>4, <1>6, <1>7, SnapLemma
<1> QED
  BY <1>5, <1>6, <1>8 DEF P

\* Writing a query writes its flag.
LEMMA PutQuery ==
    ASSUME NEW c \in Snaps, NEW q \in Queries, NEW d \in QueryDatas
    PROVE  /\ Put(c, Query(q), d) \in Snaps
           /\ On(Put(c, Query(q), d), Query(q))
           /\ Running(Put(c, Query(q), d)) =
                IF d.running THEN Running(c) \cup {q} ELSE Running(c) \ {q}
<1> DEFINE P == Put(c, Query(q), d)
<1>1. Query(q) \in Ids /\ Query(q) \in Queried
  BY NamesLemma
<1>2. /\ P \in Snaps
      /\ DOMAIN P.nodes = DOMAIN c.nodes \cup {Query(q)}
      /\ P.nodes[Query(q)] = d
      /\ \A m \in DOMAIN c.nodes \ {Query(q)} : P.nodes[m] = c.nodes[m]
  BY <1>1, PutLemma
<1> HIDE DEF P
<1>3. \A r \in Queries : r # q => Query(r) # Query(q)
  BY NamesLemma
<1>4. \A r \in Queries : r # q => (r \in Running(P) <=> r \in Running(c))
  BY <1>2, <1>3 DEF Running, On
<1>5. q \in Running(P) <=> d.running
  BY <1>2 DEF Running, On
<1>6. Running(P) \subseteq Queries /\ Running(c) \subseteq Queries
  BY DEF Running
<1>7. CASE d.running
  BY <1>4, <1>5, <1>6, <1>7, <1>2 DEF On, P
<1>8. CASE ~d.running
  BY <1>4, <1>5, <1>6, <1>8, <1>2 DEF On, P
<1> QED
  BY <1>7, <1>8

\* Placing a result or an error does not touch a flag.
LEMMA PutDerived ==
    ASSUME NEW c \in Snaps, NEW id \in Derived, NEW t \in Texts
    PROVE  /\ Put(c, id, t) \in Snaps
           /\ DOMAIN Put(c, id, t).nodes = DOMAIN c.nodes \cup {id}
           /\ Running(Put(c, id, t)) = Running(c)
<1> DEFINE P == Put(c, id, t)
<1>1. id \in Ids /\ id \notin Queried /\ \A q \in Queries : Query(q) # id
  BY NamesLemma
<1>2. /\ P \in Snaps
      /\ DOMAIN P.nodes = DOMAIN c.nodes \cup {id}
      /\ \A m \in DOMAIN c.nodes \ {id} : P.nodes[m] = c.nodes[m]
  BY <1>1, PutLemma
<1> HIDE DEF P
<1>3. Running(P) = Running(c)
  BY <1>1, <1>2 DEF Running, On
<1> QED
  BY <1>2, <1>3 DEF P

\* An edge between two nodes of the page keeps the page in order.
LEMMA ConnectLemma ==
    ASSUME NEW c \in Snaps, NEW a, NEW b, On(c, a), On(c, b)
    PROVE  /\ Connect(c, a, b) \in Snaps
           /\ Connect(c, a, b).nodes = c.nodes
           /\ Running(Connect(c, a, b)) = Running(c)
<1> DEFINE P == Connect(c, a, b)
           E == c.edges \cup {<<a, b>>}
<1>1. /\ c = [nodes |-> c.nodes, edges |-> c.edges]
      /\ c.edges \in SUBSET (Ids \X Ids) /\ DataFits(c) /\ EndsOn(c)
  BY SnapLemma
<1>2. PICK D \in SUBSET Ids : c.nodes \in [D -> QueryDatas \cup Texts]
  BY SnapLemma
<1>3. a \in Ids /\ b \in Ids
  BY <1>2 DEF On
<1>4. P = [nodes |-> c.nodes, edges |-> E]
  <2>1. P = [c EXCEPT !.edges = E]
    BY DEF Connect
  <2>2. c \in [nodes : {c.nodes}, edges : {c.edges}]
    BY <1>1
  <2> HIDE DEF E, P
  <2> QED
    BY <2>1, <2>2
<1>5. E \in SUBSET (Ids \X Ids)
  BY <1>1, <1>3
<1>6. \A e \in E : e[1] \in DOMAIN c.nodes /\ e[2] \in DOMAIN c.nodes
  BY <1>1 DEF EndsOn, On
<1> HIDE DEF E
<1>7. P.nodes = c.nodes /\ P.edges = E
  BY <1>4
<1> HIDE DEF P
<1>8. DataFits(P) /\ EndsOn(P)
  BY <1>1, <1>6, <1>7 DEF DataFits, EndsOn, On
<1>9. P \in Snaps
  BY <1>2, <1>4, <1>5, <1>7, <1>8, SnapLemma
<1>10. Running(P) = Running(c)
  BY <1>7 DEF Running, On
<1> QED
  BY <1>7, <1>9, <1>10 DEF P

\* A node goes with its edges.
LEMMA RemoveLemma ==
    ASSUME NEW c \in Snaps, NEW D
    PROVE  /\ Remove(c, D) \in Snaps
           /\ DOMAIN Remove(c, D).nodes = DOMAIN c.nodes \ D
           /\ Running(Remove(c, D)) = {q \in Running(c) : Query(q) \notin D}
<1> DEFINE P == Remove(c, D)
           N == [id \in DOMAIN c.nodes \ D |-> c.nodes[id]]
           E == {e \in c.edges : e[1] \notin D /\ e[2] \notin D}
<1>1. c.edges \in SUBSET (Ids \X Ids) /\ DataFits(c) /\ EndsOn(c)
  BY SnapLemma
<1>2. PICK A \in SUBSET Ids : c.nodes \in [A -> QueryDatas \cup Texts]
  BY SnapLemma
<1>3. P = [nodes |-> N, edges |-> E]
  BY DEF Remove
<1>4. N \in [A \ D -> QueryDatas \cup Texts] /\ A \ D \in SUBSET Ids
  BY <1>2
<1>5. DOMAIN N = DOMAIN c.nodes \ D /\ \A m \in DOMAIN N : N[m] = c.nodes[m]
  OBVIOUS
<1>6. E \in SUBSET (Ids \X Ids)
  BY <1>1
<1>7. \A e \in E : e[1] \in DOMAIN c.nodes \ D /\ e[2] \in DOMAIN c.nodes \ D
  BY <1>1 DEF EndsOn, On
<1> HIDE DEF N, E
<1>8. P.nodes = N /\ P.edges = E
  BY <1>3
<1> HIDE DEF P
<1>9. DataFits(P) /\ EndsOn(P)
  BY <1>1, <1>5, <1>7, <1>8 DEF DataFits, EndsOn, On
<1>10. P \in Snaps
  BY <1>3, <1>4, <1>6, <1>8, <1>9, SnapLemma
<1>11. Running(P) = {q \in Running(c) : Query(q) \notin D}
  BY <1>5, <1>8 DEF Running, On
<1> QED
  BY <1>5, <1>8, <1>10, <1>11 DEF P

\* Setting the flag of a query that is on the page.
LEMMA SetRunningLemma ==
    ASSUME NEW c \in Snaps, NEW q \in Queries, On(c, Query(q)),
           NEW flag \in BOOLEAN
    PROVE  /\ SetRunning(c, q, flag) \in Snaps
           /\ Running(SetRunning(c, q, flag)) =
                IF flag THEN Running(c) \cup {q} ELSE Running(c) \ {q}
<1> DEFINE d == [text |-> c.nodes[Query(q)].text, running |-> flag]
<1>1. Query(q) \in Queried
  BY NamesLemma
<1>2. c.nodes[Query(q)] \in QueryDatas
  BY <1>1, SnapLemma DEF DataFits, On
<1>3. d \in QueryDatas /\ d.running = flag
  BY <1>2 DEF QueryDatas
<1>4. SetRunning(c, q, flag) = Put(c, Query(q), d)
  BY DEF SetRunning
<1> HIDE DEF d
<1> QED
  BY <1>3, <1>4, PutQuery

\* The rows of an answer land next to a query that is on the page.
LEMMA PlaceResultLemma ==
    ASSUME NEW c \in Snaps, NEW q \in Queries, On(c, Query(q)), NEW t \in Texts
    PROVE  /\ PlaceResult(c, q, t) \in Snaps
           /\ On(PlaceResult(c, q, t), Query(q))
           /\ Running(PlaceResult(c, q, t)) = Running(c)
<1> DEFINE r == ResultOf(q)
           placed == Put(c, r, t)
           joined == IF On(c, r) THEN placed ELSE Connect(placed, Query(q), r)
<1>1. r \in Derived /\ ErrorOf(q) \in Derived
      /\ \A k \in Queries : Query(k) # ErrorOf(q)
  BY NamesLemma
<1> HIDE DEF r
<1>2. /\ placed \in Snaps /\ Running(placed) = Running(c)
      /\ DOMAIN placed.nodes = DOMAIN c.nodes \cup {r}
  BY <1>1, PutDerived
<1> HIDE DEF placed
<1>3. On(placed, Query(q)) /\ On(placed, r)
  BY <1>2 DEF On
<1>4. joined \in Snaps /\ Running(joined) = Running(c) /\ On(joined, Query(q))
  BY <1>2, <1>3, ConnectLemma DEF On
<1>5. PlaceResult(c, q, t) = Remove(joined, {ErrorOf(q)})
  BY DEF PlaceResult, r, placed
<1> HIDE DEF joined
<1>6. Query(q) \notin {ErrorOf(q)} /\ \A k \in Running(joined) : Query(k) \notin {ErrorOf(q)}
  BY <1>1 DEF Running
<1>7. /\ Remove(joined, {ErrorOf(q)}) \in Snaps
      /\ DOMAIN Remove(joined, {ErrorOf(q)}).nodes = DOMAIN joined.nodes \ {ErrorOf(q)}
      /\ Running(Remove(joined, {ErrorOf(q)}))
           = {k \in Running(joined) : Query(k) \notin {ErrorOf(q)}}
  BY <1>4, RemoveLemma
<1>8. Running(Remove(joined, {ErrorOf(q)})) = Running(c)
  BY <1>4, <1>6, <1>7
<1> QED
  BY <1>4, <1>5, <1>6, <1>7, <1>8 DEF On

\* The error of an answer lands next to its query in the same way.
LEMMA PlaceErrorLemma ==
    ASSUME NEW c \in Snaps, NEW q \in Queries, On(c, Query(q)), NEW t \in Texts
    PROVE  /\ PlaceError(c, q, t) \in Snaps
           /\ On(PlaceError(c, q, t), Query(q))
           /\ Running(PlaceError(c, q, t)) = Running(c)
<1> DEFINE r == ErrorOf(q)
           placed == Put(c, r, t)
<1>1. r \in Derived
  BY NamesLemma
<1> HIDE DEF r
<1>2. /\ placed \in Snaps /\ Running(placed) = Running(c)
      /\ DOMAIN placed.nodes = DOMAIN c.nodes \cup {r}
  BY <1>1, PutDerived
<1> HIDE DEF placed
<1>3. On(placed, Query(q)) /\ On(placed, r)
  BY <1>2 DEF On
<1>4. PlaceError(c, q, t) = IF On(c, r) THEN placed ELSE Connect(placed, r, Query(q))
  BY DEF PlaceError, r, placed
<1> QED
  BY <1>2, <1>3, <1>4, ConnectLemma DEF On

-----------------------------------------------------------------------------
(* The history.  *)

\* Pushing with a cap keeps a stack of snapshots one.
LEMMA PushLemma ==
    ASSUME NEW s \in Seq(Snaps), NEW x \in Snaps
    PROVE  PushCapped(s, x) \in Seq(Snaps)
<1>1. Append(s, x) \in Seq(Snaps) /\ Len(Append(s, x)) = Len(s) + 1
  OBVIOUS
<1>2. Append(s, x) # <<>>
  BY <1>1, LenProperties, EmptySeq
<1>3. Tail(Append(s, x)) \in Seq(Snaps)
  BY <1>1, <1>2, HeadTailProperties
<1> QED
  BY <1>1, <1>3 DEF PushCapped

\* Taking the last one off does too.
LEMMA PopLemma ==
    ASSUME NEW s \in Seq(Snaps), s # <<>>
    PROVE  FrontOf(s) \in Seq(Snaps) /\ LastOf(s) \in Snaps
<1>1. Len(s) \in Nat \ {0}
  BY EmptySeq, LenProperties
<1>2. \A i \in 1 .. Len(s) : s[i] \in Snaps
  BY ElementOfSeq
<1>3. \A i \in 1 .. Len(s) - 1 : s[i] \in Snaps
  BY <1>1, <1>2
<1>4. SubSeq(s, 1, Len(s) - 1) \in Seq(Snaps)
  BY <1>1, <1>3, SubSeqProperties
<1>5. s[Len(s)] \in Snaps
  BY <1>1, <1>2
<1> QED
  BY <1>4, <1>5 DEF FrontOf, LastOf

\* Sealing keeps the history of snapshots in order.
LEMMA SealLemma ==
    ASSUME NEW g, Good(g), NEW p \in Pages, NEW now
    PROVE  Good(Seal(g, p, now)) /\ Seal(g, p, now).pending = NoTx
<1>1. CASE g.pending = NoTx
  BY <1>1 DEF Seal
<1>2. CASE g.pending # NoTx /\ ChangedNothing(g, p, now)
  <2>1. Seal(g, p, now) = [past |-> g.past, future |-> g.future, pending |-> NoTx]
    BY <1>2 DEF Seal, Good
  <2> QED
    BY <2>1 DEF Good
<1>3. CASE g.pending # NoTx /\ ~ChangedNothing(g, p, now)
  <2> DEFINE q == g.pending.page
             P == [g.past EXCEPT ![q] = PushCapped(g.past[q], g.pending.before)]
             F == [g.future EXCEPT ![q] = <<>>]
  <2>1. Seal(g, p, now) = [past |-> P, future |-> F, pending |-> NoTx]
    BY <1>3 DEF Seal
  <2>2. q \in Pages /\ g.pending.before \in Snaps /\ g.past[q] \in Seq(Snaps)
    BY <1>3 DEF Good
  <2>3. PushCapped(g.past[q], g.pending.before) \in Seq(Snaps)
    BY <2>2, PushLemma
  <2>4. P \in [Pages -> Seq(Snaps)] /\ F \in [Pages -> Seq(Snaps)]
    BY <2>2, <2>3, EmptySeq DEF Good
  <2> HIDE DEF P, F
  <2> QED
    BY <2>1, <2>4 DEF Good
<1> QED
  BY <1>1, <1>2, <1>3

\* So does recording an edit that begins from a page in order.
LEMMA RecordLemma ==
    ASSUME NEW g, Good(g), NEW p \in Pages, NEW now \in Snaps, NEW kind, NEW within
    PROVE  Good(Record(g, p, now, kind, within))
<1>1. CASE Continues(g, p, kind, within)
  BY <1>1 DEF Record
<1>2. CASE ~Continues(g, p, kind, within)
  <2> DEFINE s  == Seal(g, p, now)
             tx == [page |-> p, kind |-> kind, before |-> now]
  <2>1. Good(s)
    BY SealLemma
  <2>2. tx.page = p /\ tx.before = now
    OBVIOUS
  <2>3. Record(g, p, now, kind, within) = [s EXCEPT !.pending = tx]
    BY <1>2 DEF Record
  <2> HIDE DEF s, tx
  <2>4. [s EXCEPT !.pending = tx] = [past |-> s.past, future |-> s.future, pending |-> tx]
    <3>1. s \in [past : {s.past}, future : {s.future}, pending : {s.pending}]
      BY <2>1 DEF Good
    <3> QED
      BY <3>1
  <2> QED
    BY <2>1, <2>2, <2>3, <2>4 DEF Good
<1> QED
  BY <1>1, <1>2

\* Undo brings back a page in order, and keeps the history so.
LEMMA StepBackLemma ==
    ASSUME NEW g, Good(g), NEW p \in Pages, NEW now \in Snaps,
           CanStepBack(g, p, now)
    PROVE  Good(StepBack(g, p, now)) /\ Undone(g, p, now) \in Snaps
<1> DEFINE s == Seal(g, p, now)
           P == [s.past EXCEPT ![p] = FrontOf(s.past[p])]
           F == [s.future EXCEPT ![p] = Append(s.future[p], now)]
<1>1. Good(s) /\ s.past[p] # <<>>
  BY SealLemma DEF CanStepBack
<1>2. StepBack(g, p, now) = [past |-> P, future |-> F, pending |-> NoTx]
  BY <1>1 DEF StepBack
<1>3. s.past[p] \in Seq(Snaps) /\ s.future[p] \in Seq(Snaps)
  BY <1>1 DEF Good
<1>4. FrontOf(s.past[p]) \in Seq(Snaps) /\ LastOf(s.past[p]) \in Snaps
  BY <1>1, <1>3, PopLemma
<1>5. Append(s.future[p], now) \in Seq(Snaps)
  BY <1>3
<1>6. P \in [Pages -> Seq(Snaps)] /\ F \in [Pages -> Seq(Snaps)]
  BY <1>1, <1>4, <1>5 DEF Good
<1> HIDE DEF P, F
<1> QED
  BY <1>2, <1>4, <1>6 DEF Good, Undone

\* And so does redo.
LEMMA StepForwardLemma ==
    ASSUME NEW g, Good(g), NEW p \in Pages, NEW now \in Snaps,
           CanStepForward(g, p)
    PROVE  Good(StepForward(g, p, now)) /\ Redone(g, p) \in Snaps
<1> DEFINE P == [g.past EXCEPT ![p] = Append(g.past[p], now)]
           F == [g.future EXCEPT ![p] = FrontOf(g.future[p])]
<1>1. StepForward(g, p, now) = [past |-> P, future |-> F, pending |-> g.pending]
  BY DEF StepForward
<1>2. g.past[p] \in Seq(Snaps) /\ g.future[p] \in Seq(Snaps) /\ g.future[p] # <<>>
  BY DEF Good, CanStepForward
<1>3. FrontOf(g.future[p]) \in Seq(Snaps) /\ LastOf(g.future[p]) \in Snaps
  BY <1>2, PopLemma
<1>4. Append(g.past[p], now) \in Seq(Snaps)
  BY <1>2
<1>5. P \in [Pages -> Seq(Snaps)] /\ F \in [Pages -> Seq(Snaps)]
  BY <1>3, <1>4 DEF Good
<1> HIDE DEF P, F
<1> QED
  BY <1>1, <1>3, <1>5 DEF Good, Redone

-----------------------------------------------------------------------------
(* The inductive invariant.  A run is settled on the active page: only its    *)
(* queries spin, and each for exactly one statement.                          *)

RunInv ==
    /\ content \in [Pages -> Snaps]
    /\ active \in Pages
    /\ Good(h)
    /\ flights \subseteq Flights
    /\ \A f, g \in flights : f.query = g.query => f = g
    /\ Running(Here) = InFlight
    /\ \A p \in Pages \ {active} : Running(content[p]) = {}

\* A step of the active page and of the runs.
LEMMA PageStep ==
    ASSUME RunInv, NEW c \in Snaps, SetPage(c), active' = active, Good(h'),
           flights' \subseteq Flights,
           \A f, g \in flights' : f.query = g.query => f = g,
           Running(c) = InFlight'
    PROVE  RunInv'
<1>1. /\ content \in [Pages -> Snaps] /\ active \in Pages
      /\ content' = [content EXCEPT ![active] = c]
      /\ \A p \in Pages \ {active} : Running(content[p]) = {}
  BY DEF RunInv, SetPage
<1>2. /\ content' \in [Pages -> Snaps] /\ content'[active] = c
      /\ \A p \in Pages \ {active} : content'[p] = content[p]
  BY <1>1
<1>3. Here' = c
  BY <1>2 DEF Here
<1>4. \A p \in Pages \ {active} : Running(content'[p]) = {}
  BY <1>1, <1>2
<1>5. Running(Here)' = Running(Here')
  BY DEF Running, On
<1> QED
  BY <1>1, <1>2, <1>3, <1>4, <1>5 DEF RunInv, Running, On

\* The fresh document is in order, with nothing out.
LEMMA InitRunInv == Init => RunInv
<1> SUFFICES ASSUME Init PROVE RunInv
  OBVIOUS
<1>1. FirstPage \in Pages /\ FirstText \in Texts
  BY QueryRunAssumption
<1> DEFINE Fresh(p) ==
             [nodes |-> [id \in IF p = FirstPage THEN Queried ELSE {} |->
                           [text |-> FirstText, running |-> FALSE]],
              edges |-> {}]
<1>2. ASSUME NEW p \in Pages
      PROVE  Fresh(p) \in Snaps /\ Running(Fresh(p)) = {}
  <2> DEFINE D == IF p = FirstPage THEN Queried ELSE {}
             d == [text |-> FirstText, running |-> FALSE]
             N == [id \in D |-> d]
             c == Fresh(p)
  <2>1. d \in QueryDatas /\ d.running = FALSE
    BY <1>1 DEF QueryDatas
  <2>2. D \in SUBSET Ids /\ D \subseteq Queried
    BY DEF Ids
  <2> HIDE DEF D, d
  <2>3. N \in [D -> QueryDatas \cup Texts] /\ \A id \in D : N[id] = d
    BY <2>1
  <2>4. c = [nodes |-> N, edges |-> {}]
    BY DEF D, d
  <2> HIDE DEF N, c
  <2>5. c.nodes = N /\ c.edges = {} /\ DOMAIN N = D
    BY <2>3, <2>4
  <2>6. DataFits(c) /\ EndsOn(c)
    BY <2>1, <2>2, <2>3, <2>5 DEF DataFits, EndsOn
  <2>7. c \in Snaps
    BY <2>2, <2>3, <2>4, <2>5, <2>6, SnapLemma
  <2>8. Running(c) = {}
    BY <2>1, <2>3, <2>5 DEF Running, On
  <2> QED
    BY <2>7, <2>8 DEF c
<1>3. content = [p \in Pages |-> Fresh(p)] /\ active = FirstPage /\ flights = {}
  BY DEF Init
<1> HIDE DEF Fresh
<1>4. content \in [Pages -> Snaps] /\ \A p \in Pages : Running(content[p]) = {}
  BY <1>2, <1>3
<1>5. Good(h)
  <2> DEFINE S == [p \in Pages |-> <<>>]
  <2>1. h = [past |-> S, future |-> S, pending |-> NoTx]
    BY DEF Init, EmptyHistory
  <2>2. S \in [Pages -> Seq(Snaps)]
    BY EmptySeq
  <2> HIDE DEF S
  <2> QED
    BY <2>1, <2>2 DEF Good
<1>6. InFlight = {}
  BY <1>3 DEF InFlight
<1> QED
  BY <1>1, <1>3, <1>4, <1>5, <1>6 DEF RunInv, Here

\* Every settled step keeps the invariant.
LEMMA NextRunInv == RunInv /\ [SettledNext]_vars => RunInv'
<1> SUFFICES ASSUME RunInv, [SettledNext]_vars PROVE RunInv'
  OBVIOUS
<1>0. /\ content \in [Pages -> Snaps] /\ active \in Pages /\ Here \in Snaps
      /\ Good(h) /\ flights \subseteq Flights
      /\ \A f, g \in flights : f.query = g.query => f = g
      /\ Running(Here) = InFlight
      /\ \A p \in Pages \ {active} : Running(content[p]) = {}
  BY DEF RunInv, Here
<1>a. ASSUME NEW q \in Queries, On(Here, Query(q))
      PROVE  Here.nodes[Query(q)] \in QueryDatas
  BY <1>0, <1>a, NamesLemma, SnapLemma DEF DataFits, On
<1>b. ASSUME flights' = flights PROVE InFlight' = InFlight
  BY <1>b DEF InFlight
<1>c. SetPage(Here) <=> content' = content
  BY <1>0 DEF SetPage, Here
<1>1. ASSUME NEW q \in Queries, NEW within \in BOOLEAN, Start(q, within)
      PROVE  RunInv'
  <2>1. /\ On(Here, Query(q)) /\ q \notin Running(Here)
        /\ h' = Record(h, active, Here, Data(q), within)
        /\ SetPage(SetRunning(Here, q, TRUE)) /\ active' = active
    BY <1>1 DEF Start
  <2>2. PICK slot \in Slots : flights' = flights \cup {[query |-> q, slot |-> slot,
                                       text |-> Here.nodes[Query(q)].text]}
    BY <1>1 DEF Start
  <2> DEFINE f == [query |-> q, slot |-> slot, text |-> Here.nodes[Query(q)].text]
             c == SetRunning(Here, q, TRUE)
  <2>3. f \in Flights /\ f.query = q
    BY <1>a, <2>1 DEF Flights, QueryDatas
  <2>4. c \in Snaps /\ Running(c) = Running(Here) \cup {q}
    BY <1>0, <2>1, SetRunningLemma
  <2>5. Good(h')
    BY <1>0, <2>1, RecordLemma
  <2> HIDE DEF f, c
  <2>6. flights' = flights \cup {f}
    BY <2>2 DEF f
  <2>7. InFlight' = InFlight \cup {q}
    BY <2>3, <2>6 DEF InFlight
  <2>8. q \notin InFlight
    BY <1>0, <2>1
  <2>9. \A g, k \in flights' : g.query = k.query => g = k
    BY <1>0, <2>3, <2>6, <2>8 DEF InFlight
  <2> QED
    BY <1>0, <2>1, <2>3, <2>4, <2>5, <2>6, <2>7, <2>9, PageStep DEF c
<1>2. ASSUME NEW q \in Queries, StartUndefined(q)
      PROVE  RunInv'
  <2> DEFINE t == Here.nodes[Query(q)].text
             c == PlaceError(Here, q, t)
  <2>1. /\ On(Here, Query(q)) /\ h' = Record(h, active, Here, Structure, FALSE)
        /\ SetPage(c) /\ active' = active /\ flights' = flights
    BY <1>2 DEF StartUndefined
  <2>2. t \in Texts
    BY <1>a, <2>1 DEF QueryDatas
  <2> HIDE DEF t
  <2>3. c \in Snaps /\ Running(c) = Running(Here)
    BY <1>0, <2>1, <2>2, PlaceErrorLemma
  <2>4. Good(h')
    BY <1>0, <2>1, RecordLemma
  <2> QED
    BY <1>0, <1>b, <2>1, <2>3, <2>4, PageStep
<1>3. ASSUME NEW q \in Queries, NEW t \in Texts, NEW within \in BOOLEAN,
             Type(q, t, within)
      PROVE  RunInv'
  <2> DEFINE d == [Here.nodes[Query(q)] EXCEPT !.text = t]
             c == Put(Here, Query(q), d)
  <2>1. /\ On(Here, Query(q)) /\ h' = Record(h, active, Here, Data(q), within)
        /\ SetPage(c) /\ active' = active /\ flights' = flights
    BY <1>3 DEF Type
  <2>2. d \in QueryDatas /\ d.running = Here.nodes[Query(q)].running
    BY <1>a, <2>1 DEF QueryDatas
  <2> HIDE DEF d
  <2>3. c \in Snaps /\ Running(c) = IF d.running THEN Running(Here) \cup {q}
                                    ELSE Running(Here) \ {q}
    BY <1>0, <2>2, PutQuery
  <2>4. q \in Running(Here) <=> d.running
    BY <2>1, <2>2 DEF Running
  <2>5. Running(c) = Running(Here)
    BY <2>3, <2>4
  <2>6. Good(h')
    BY <1>0, <2>1, RecordLemma
  <2> QED
    BY <1>0, <1>b, <2>1, <2>3, <2>5, <2>6, PageStep
<1>4. ASSUME NEW f \in flights, NEW ok \in BOOLEAN, Finish(f, ok)
      PROVE  RunInv'
  <2> DEFINE q      == f.query
             placed == IF ok THEN PlaceResult(Here, q, f.text)
                       ELSE PlaceError(Here, q, f.text)
             opened == Record(h, active, Here, Structure, FALSE)
             c      == SetRunning(placed, q, FALSE)
  <2>1. /\ flights' = flights \ {f} /\ SetPage(c) /\ active' = active
        /\ h' = IF On(Here, Query(q))
                  THEN Record(opened, active, placed, Data(q), FALSE)
                  ELSE opened
    BY <1>4 DEF Finish
  <2>2. q \in Queries /\ f.text \in Texts /\ q \in InFlight
    BY <1>0 DEF Flights, InFlight
  <2>3. On(Here, Query(q))
    BY <1>0, <2>2 DEF Running
  <2>4. /\ placed \in Snaps /\ On(placed, Query(q))
        /\ Running(placed) = Running(Here)
    BY <1>0, <2>2, <2>3, PlaceResultLemma, PlaceErrorLemma
  <2> HIDE DEF placed
  <2>5. c \in Snaps /\ Running(c) = Running(Here) \ {q}
    BY <2>2, <2>4, SetRunningLemma
  <2>6. Good(opened)
    BY <1>0, RecordLemma
  <2> HIDE DEF opened, c
  <2>7. Good(h')
    BY <1>0, <2>1, <2>3, <2>4, <2>6, RecordLemma
  <2>8. InFlight' = InFlight \ {q}
    BY <1>0, <2>1 DEF InFlight
  <2> QED
    BY <1>0, <2>1, <2>5, <2>7, <2>8, PageStep
<1>5. CASE Checkpoint
  <2>1. Good(h')
    BY <1>0, <1>5, SealLemma DEF Checkpoint
  <2> QED
    BY <1>0, <1>b, <1>c, <1>5, <2>1, PageStep DEF Checkpoint
<1>6. CASE Restart
  <2>1. /\ content' = [p \in Pages |-> Settle(content[p])]
        /\ h' = EmptyHistory(Pages) /\ flights' = {} /\ active' = active
    BY <1>6 DEF Restart
  <2>2. ASSUME NEW c \in Snaps
        PROVE  Settle(c) \in Snaps /\ Running(Settle(c)) = {}
    <3> DEFINE N == [id \in DOMAIN c.nodes |->
                       IF id \in Queried
                         THEN [text |-> c.nodes[id].text, running |-> FALSE]
                         ELSE c.nodes[id]]
               s == Settle(c)
    <3>1. /\ c = [nodes |-> c.nodes, edges |-> c.edges]
          /\ c.edges \in SUBSET (Ids \X Ids) /\ DataFits(c) /\ EndsOn(c)
      BY SnapLemma
    <3>2. PICK D \in SUBSET Ids : c.nodes \in [D -> QueryDatas \cup Texts]
      BY SnapLemma
    <3>3. \A id \in DOMAIN c.nodes :
             /\ N[id] \in (IF id \in Queried THEN QueryDatas ELSE Texts)
             /\ id \in Queried => N[id].running = FALSE
      BY <3>1 DEF DataFits, QueryDatas
    <3>4. s = [nodes |-> N, edges |-> c.edges]
      <4>1. s = [c EXCEPT !.nodes = N]
        BY DEF Settle
      <4>2. c \in [nodes : {c.nodes}, edges : {c.edges}]
        BY <3>1
      <4> HIDE DEF s, N
      <4> QED
        BY <4>1, <4>2
    <3>5. DOMAIN N = DOMAIN c.nodes
      OBVIOUS
    <3> HIDE DEF N, s
    <3>6. s.nodes = N /\ s.edges = c.edges
      BY <3>4
    <3>7. DataFits(s) /\ EndsOn(s)
      BY <3>1, <3>3, <3>5, <3>6 DEF DataFits, EndsOn, On
    <3>8. N \in [D -> QueryDatas \cup Texts]
      <4>1. N = [id \in D |-> N[id]]
        BY <3>2, <3>5 DEF N
      <4>2. \A id \in D : N[id] \in QueryDatas \cup Texts
        BY <3>2, <3>3
      <4> QED
        BY <4>1, <4>2
    <3>9. s \in Snaps
      BY <3>1, <3>2, <3>4, <3>6, <3>7, <3>8, SnapLemma
    <3>10. Running(s) = {}
      <4>1. \A q \in Queries : Query(q) \in Queried
        BY NamesLemma
      <4> QED
        BY <3>3, <3>5, <3>6, <4>1 DEF Running, On
    <3> QED
      BY <3>9, <3>10 DEF s
  <2>3. /\ content' \in [Pages -> Snaps]
        /\ \A p \in Pages : Running(content'[p]) = {}
    BY <1>0, <2>1, <2>2
  <2>4. Good(h')
    <3> DEFINE S == [p \in Pages |-> <<>>]
    <3>1. h' = [past |-> S, future |-> S, pending |-> NoTx]
      BY <2>1 DEF EmptyHistory
    <3>2. S \in [Pages -> Seq(Snaps)]
      BY EmptySeq
    <3> HIDE DEF S
    <3> QED
      BY <3>1, <3>2 DEF Good
  <2>5. InFlight' = {}
    BY <2>1 DEF InFlight
  <2>6. Running(Here)' = Running(Here')
    BY DEF Running, On
  <2>7. Running(Here') = {}
    BY <1>0, <2>1, <2>3 DEF Here
  <2> QED
    BY <1>0, <2>1, <2>3, <2>4, <2>5, <2>6, <2>7 DEF RunInv, Running, On
<1>7. ASSUME NEW D \in SUBSET Ids, DeleteIsSettled(D), DeleteNodes(D)
      PROVE  RunInv'
  <2> DEFINE c == Remove(Here, D)
             o == Record(h, active, Here, Structure, FALSE)
  <2>1. /\ SetPage(c) /\ active' = active /\ flights' = flights
        /\ h' = Seal(o, active, c)
    BY <1>7 DEF DeleteNodes
  <2>2. c \in Snaps /\ Running(c) = {q \in Running(Here) : Query(q) \notin D}
    BY <1>0, RemoveLemma
  <2>3. Good(o)
    BY <1>0, RecordLemma
  <2> HIDE DEF c, o
  <2>4. Good(h')
    BY <1>0, <2>1, <2>3, SealLemma
  <2>5. Running(c) = Running(Here)
    BY <1>0, <1>7, <2>2 DEF DeleteIsSettled
  <2> QED
    BY <1>0, <1>b, <2>1, <2>2, <2>4, <2>5, PageStep
<1>8. ASSUME SwitchIsSettled, NEW p \in Pages, SwitchPage(p)
      PROVE  RunInv'
  <2>1. /\ content' = content /\ active' = p /\ flights' = flights
        /\ flights = {} /\ h' = Seal(h, active, Here)
    BY <1>8 DEF SwitchPage, SwitchIsSettled
  <2>2. Good(h')
    BY <1>0, <2>1, SealLemma
  <2>3. InFlight = {} /\ InFlight' = {}
    BY <2>1 DEF InFlight
  <2>4. \A r \in Pages : Running(content[r]) = {}
    BY <1>0, <2>3 DEF Here
  <2>5. Here' = content[p]
    BY <2>1 DEF Here
  <2>6. Running(Here)' = Running(Here')
    BY DEF Running, On
  <2> QED
    BY <1>0, <2>1, <2>2, <2>3, <2>4, <2>5, <2>6 DEF RunInv, Running, On
<1>9. CASE UndoIsSettled /\ Undo
  <2>1. /\ flights = {} /\ flights' = flights /\ active' = active
        /\ CanStepBack(h, active, Here)
        /\ Running(Undone(h, active, Here)) = {}
        /\ h' = StepBack(h, active, Here) /\ SetPage(Undone(h, active, Here))
    BY <1>9 DEF UndoIsSettled, Undo
  <2>2. Good(h') /\ Undone(h, active, Here) \in Snaps
    BY <1>0, <2>1, StepBackLemma
  <2>3. InFlight' = {}
    BY <2>1 DEF InFlight
  <2> QED
    BY <1>0, <2>1, <2>2, <2>3, PageStep
<1>10. CASE RedoIsSettled /\ Redo
  <2>1. /\ flights = {} /\ flights' = flights /\ active' = active
        /\ CanStepForward(h, active)
        /\ Running(Redone(h, active)) = {}
        /\ h' = StepForward(h, active, Here) /\ SetPage(Redone(h, active))
    BY <1>10 DEF RedoIsSettled, Redo
  <2>2. Good(h') /\ Redone(h, active) \in Snaps
    BY <1>0, <2>1, StepForwardLemma
  <2>3. InFlight' = {}
    BY <2>1 DEF InFlight
  <2> QED
    BY <1>0, <2>1, <2>2, <2>3, PageStep
<1>11. CASE UNCHANGED vars
  BY <1>11 DEF vars, RunInv, Here, InFlight, Running, On
<1>12. CASE RunNext
  BY <1>1, <1>2, <1>3, <1>4, <1>5, <1>6, <1>12 DEF RunNext
<1> QED
  BY <1>7, <1>8, <1>9, <1>10, <1>11, <1>12 DEF SettledNext

-----------------------------------------------------------------------------
(* The theorems.  *)

\* The invariant holds of every settled run.
THEOREM Settledness == SettledSpec => []RunInv
<1>1. Init => RunInv
  BY InitRunInv
<1>2. RunInv /\ [SettledNext]_vars => RunInv'
  BY NextRunInv
<1> QED
  BY <1>1, <1>2, PTL DEF SettledSpec

\* A query spins exactly while its answer is awaited, and never for two.
THEOREM Awaited == SettledSpec => []RunningIsAwaited
<1>1. ASSUME RunInv PROVE RunningIsAwaited
  <2>1. /\ active \in Pages /\ Running(content[active]) = InFlight
        /\ \A p \in Pages \ {active} : Running(content[p]) = {}
    BY <1>1 DEF RunInv, Here
  <2>2. UNION {Running(content[p]) : p \in Pages} = InFlight
    BY <2>1
  <2> QED
    BY <1>1, <2>2 DEF RunningIsAwaited, RunInv
<1> QED
  BY <1>1, Settledness, PTL

\* No edge of a page is left without one of its ends, whatever is removed,
\* placed or undone.
THEOREM EdgesEnd == SettledSpec => []EdgesHaveEnds
<1>1. ASSUME RunInv PROVE EdgesHaveEnds
  BY <1>1, SnapLemma DEF RunInv, EndsOn, EdgesHaveEnds
<1> QED
  BY <1>1, Settledness, PTL

\* Every page, and every snapshot undo may bring back, is well typed.
THEOREM Typing == SettledSpec => []TypeOK
<1>1. ASSUME RunInv PROVE TypeOK
  <2>1. ASSUME NEW c \in Snaps PROVE IsPage(c)
    <3>1. /\ c = [nodes |-> c.nodes, edges |-> c.edges]
          /\ c.edges \in SUBSET (Ids \X Ids) /\ DataFits(c)
      BY SnapLemma
    <3>2. DOMAIN c.nodes \subseteq Ids
      BY SnapLemma
    <3>3. DOMAIN c = {"nodes", "edges"}
      BY <3>1
    <3> QED
      BY <3>1, <3>2, <3>3 DEF IsPage, DataFits
  <2>2. \A s \in Seq(Snaps) : \A i \in DOMAIN s : s[i] \in Snaps
    OBVIOUS
  <2>3. \A p \in Pages : h.past[p] \in Seq(Snaps) /\ h.future[p] \in Seq(Snaps)
    BY <1>1 DEF RunInv, Good
  <2>4. ASSUME NEW p \in Pages,
               NEW c \in {h.past[p][i] : i \in DOMAIN h.past[p]}
                            \cup {h.future[p][i] : i \in DOMAIN h.future[p]}
        PROVE  IsPage(c)
    BY <2>1, <2>2, <2>3
  <2>5. h.pending # NoTx => h.pending.page \in Pages /\ IsPage(h.pending.before)
    BY <1>1, <2>1 DEF RunInv, Good
  <2>6. DOMAIN content = Pages /\ \A p \in Pages : IsPage(content[p])
    BY <1>1, <2>1 DEF RunInv
  <2> QED
    BY <1>1, <2>4, <2>5, <2>6 DEF RunInv, TypeOK
<1> QED
  BY <1>1, Settledness, PTL
=============================================================================
