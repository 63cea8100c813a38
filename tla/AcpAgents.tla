------------------------------- MODULE AcpAgents -------------------------------
(***************************************************************************)
(* Agent nodes that talk to one agent process over ACP: the views and      *)
(* their turns (peek-ui node/agent: view.rs, acp.rs, backend.rs), the      *)
(* session pool (peek-acp session.rs), the connection's dispatch loop      *)
(* (connection.rs) and what the process does, which is external.           *)
(*                                                                         *)
(* The loop hands on one message at a time and waits inside the handler    *)
(* of a permission request (session.rs:243); updates travel to the window  *)
(* on one channel, the end of a turn on another.                           *)
(***************************************************************************)
EXTENDS TranscriptOps

CONSTANTS Nodes,        \* agent nodes
          None,
          Walkers,      \* the nodes that leave the active page, or the document, and return
          MaxSessions, MaxWords, MaxWalks   \* bounds: sessions, messages and requests begun,
                                            \* edits elsewhere

ASSUME BoundsAssumption == {MaxSessions, MaxWords, MaxWalks} \subseteq Nat
ASSUME NoneAssumption == None \notin Nat \cup Nodes /\ None \notin [id : Nat, session : Nat]
ASSUME WalkersAssumption == Walkers \subseteq Nodes

Sessions == 1..MaxSessions
Asks == 1..MaxWords

VARIABLES doc,       \* the turns each node has in the document, each one step of undo
          here,      \* the nodes of the active page
          view,      \* AgentView of each node that has one
          process,   \* the slot of the connection: none, up, dead in its place, or
                     \* unstarted: there is no runtime to spawn a process in
          running,   \* the sessions the agent works in
          wire,      \* what the process has sent and the loop has not read
          asked,     \* the permission request the loop waits in
          waiting,   \* ChannelHost::pending
          events,    \* AgentEvents: updates and permission requests for the window
          prompted,  \* sessions whose prompt is not answered
          replies,   \* answers to prompts the window has not seen
          route,     \* Agents::routes
          words, sessions, walks   \* counters

vars == <<doc, here, view, process, running, wire, asked, waiting, events, prompted, replies, route, words, sessions, walks>>
agent == <<process, running, wire, asked, waiting, prompted>>

Kinds == {"user", "assistant", "thought", "acp_tool", "plan", "system"}
Messages == [kind : Kinds, at : 0..MaxWords]
Text(n) == FlattenSeq(doc[n])   \* AgentData::messages
NoView == [live |-> FALSE]
NewView(n) == [live |-> TRUE, session |-> None, opening |-> FALSE, queued |-> FALSE,
               pending |-> None, loading |-> FALSE, t |-> NewTranscript(Text(n))]

TypeOK == /\ doc \in [Nodes -> Seq(Seq(Messages))] /\ here \subseteq Nodes
          /\ \A n \in Nodes : view[n] # NoView =>
               /\ view[n].session \in Sessions \cup {None} /\ view[n].pending \in Asks \cup {None}
               /\ view[n].t.staged \in Seq(Messages) /\ view[n].t.drawn \in Seq(Messages)
               /\ view[n].opening => view[n].queued /\ view[n].loading
               /\ view[n].queued => view[n].opening \/ process = "unstarted"
          /\ process \in {"none", "up", "dead", "unstarted"}
          /\ running \subseteq Sessions
          /\ asked \in waiting \cup {None}
          /\ waiting \subseteq [id : Asks, session : Sessions] /\ prompted \subseteq Sessions
          /\ route \in [Sessions -> Nodes \cup {None}]
          /\ words \in 0..MaxWords /\ sessions \in 0..MaxSessions
          /\ walks \in 0..MaxWalks

Init == /\ doc = [n \in Nodes |-> <<>>] /\ here = Nodes
        /\ view = [n \in Nodes |-> NoView]
        /\ process \in {"none", "unstarted"} /\ running = {} /\ wire = <<>>
        /\ asked = None /\ waiting = {} /\ events = <<>>
        /\ prompted = {} /\ replies = {} /\ route = [s \in Sessions |-> None]
        /\ words = 0 /\ sessions = 0 /\ walks = 0

Live(n) == view[n] # NoView
SetT(n, t) == [view EXCEPT ![n].t = t]

--------------------------------------------------------------------------------
(* The end of a turn (finish_turn): what was staged goes into the document, *)
(* if the node is still on the active page, as one step of undo.            *)
Closed(v, t) == [v EXCEPT !.loading = FALSE, !.t = Settled(t)]
FinishTurn(n, v, t) ==
  /\ view' = [view EXCEPT ![n] = Closed(v, t)]
  /\ doc' = IF n \in here /\ Finished(t).staged # <<>> THEN [doc EXCEPT ![n] = Append(@, Finished(t).staged)] ELSE doc

(* Session::prompt: refused at once when the process is gone. *)
Prompt(s) == /\ running' = IF process = "up" THEN running \cup {s} ELSE running
             /\ prompted' = IF process = "up" THEN prompted \cup {s} ELSE prompted
             /\ replies' = IF process = "up" THEN replies ELSE replies \cup {[session |-> s, ok |-> FALSE]}

(* send, ask and open: the question is staged before there is a session to send it  *)
(* to.  Without a runtime there will be none: the turn is over, the question stays  *)
(* where it is, and the document is not told of it.                                 *)
Unanswerable(v) == [v EXCEPT !.loading = FALSE, !.queued = TRUE]
Opening(v) == [v EXCEPT !.queued = TRUE, !.opening = TRUE]
Send(n) == /\ Live(n) /\ ~view[n].loading /\ words < MaxWords
           /\ words' = words + 1
           /\ LET asking == [view[n] EXCEPT !.loading = TRUE, !.t = Push(@, Message("user", words'))]
              IN IF view[n].session = None
                   THEN /\ view' = [view EXCEPT ![n] = IF process = "unstarted" THEN Unanswerable(asking) ELSE Opening(asking)]
                        /\ UNCHANGED <<running, prompted, replies>>
                   ELSE /\ view' = [view EXCEPT ![n] = asking]
                        /\ Prompt(view[n].session)
           /\ UNCHANGED <<doc, here, process, wire, asked, waiting, events, route, sessions, walks>>

(* open_session and opened: the process is spawned by the first that needs it.  The *)
(* answer to a new session comes through the loop, and waits while the loop waits.  *)
Opened(n) == /\ Live(n) /\ view[n].opening /\ process \in {"none", "up"} /\ asked = None
             /\ sessions < MaxSessions
             /\ sessions' = sessions + 1
             /\ process' = "up"
             /\ view' = [view EXCEPT ![n] = [@ EXCEPT !.opening = FALSE, !.queued = FALSE, !.session = sessions']]
             /\ route' = [route EXCEPT ![sessions'] = n]
             /\ running' = running \cup {sessions'}
             /\ prompted' = prompted \cup {sessions'}
             /\ UNCHANGED <<doc, here, wire, asked, waiting, events, replies, words, walks>>

OpenFailsQuietly(n) == /\ Live(n) /\ view[n].opening
                       /\ view' = [view EXCEPT ![n] = [@ EXCEPT !.opening = FALSE, !.queued = FALSE,
                                                        !.t = Push(@, Message("system", words))]]
                       /\ UNCHANGED <<doc, here, events, replies, route, words, sessions, walks, agent>>

(* failed: the process would not start, or is gone and keeps the slot (session.rs:113). *)
OpenFails(n) == /\ Live(n) /\ view[n].opening
                /\ FinishTurn(n, [view[n] EXCEPT !.opening = FALSE, !.queued = FALSE],
                              Push(view[n].t, Message("system", words)))
                /\ UNCHANGED <<here, events, replies, route, words, sessions, walks, agent>>

(* The prompt resolves in the window. *)
Reply(r) == /\ r \in replies
            /\ replies' = replies \ {r}
            /\ \/ \E n \in Nodes : /\ Live(n) /\ view[n].session = r.session /\ view[n].loading
                                   /\ FinishTurn(n, view[n], IF r.ok THEN view[n].t
                                                             ELSE Push(view[n].t, Message("system", words)))
               \/ /\ \A n \in Nodes : ~(Live(n) /\ view[n].session = r.session /\ view[n].loading)
                  /\ UNCHANGED <<view, doc>>
            /\ UNCHANGED <<here, events, route, words, sessions, walks, agent>>

(* Agents::route and receive: to the view of the session, or the route is swept. *)
Receive(v, e) == IF e.kind = "permission" THEN [v EXCEPT !.pending = e.at]
                 ELSE [v EXCEPT !.t = Apply(@, e.kind, e.at)]
Route == /\ events # <<>>
         /\ events' = Tail(events)
         /\ LET e == Head(events) n == route[Head(events).session]
            IN IF n # None /\ Live(n) THEN view' = [view EXCEPT ![n] = Receive(@, e)] /\ UNCHANGED route
               ELSE route' = [route EXCEPT ![e.session] = None] /\ UNCHANGED view
         /\ UNCHANGED <<doc, here, replies, words, sessions, walks, agent>>

(* answer_permission: the loop goes on if it still waits for this request. *)
Answer(n) == /\ Live(n) /\ view[n].pending # None
             /\ view' = [view EXCEPT ![n].pending = None]
             /\ waiting' = {w \in waiting : w.id # view[n].pending}
             /\ asked' = IF asked \in waiting' THEN asked ELSE None
             /\ UNCHANGED <<doc, here, process, running, wire, events, prompted, replies, route, words, sessions, walks>>

(* request_permission: five minutes without an answer are a cancel. *)
Timeout == /\ asked # None
           /\ waiting' = waiting \ {asked}
           /\ asked' = None
           /\ UNCHANGED <<doc, here, view, process, running, wire, events, prompted, replies, route, words, sessions, walks>>

--------------------------------------------------------------------------------
(* The agent process. *)
Speaking(s) == process = "up" /\ s \in running
Speak(s, kind) == /\ Speaking(s) /\ words < MaxWords
                  /\ words' = words + 1
                  /\ wire' = Append(wire, [kind |-> kind, session |-> s, at |-> words'])
                  /\ UNCHANGED <<doc, here, view, process, running, asked, waiting, events, prompted, replies, route, sessions, walks>>

Ask(s) == /\ Speaking(s) /\ words < MaxWords
          /\ words' = words + 1
          /\ wire' = Append(wire, [kind |-> "permission", session |-> s, at |-> words'])
          /\ UNCHANGED <<doc, here, view, process, running, asked, waiting, events, prompted, replies, route, sessions, walks>>

(* A turn ends when the agent is done, or, after a cancel, in the middle of a question. *)
End(s) == /\ Speaking(s)
          /\ wire' = Append(wire, [kind |-> "end", session |-> s, at |-> 0])
          /\ running' = running \ {s}
          /\ UNCHANGED <<doc, here, view, process, asked, waiting, events, prompted, replies, route, words, sessions, walks>>

(* The process dies: the loop and all it held end, and every prompt with an error. *)
Dies == /\ process = "up" /\ process' = "dead"
        /\ wire' = <<>> /\ asked' = None /\ prompted' = {}
        /\ running' = {}
        /\ replies' = replies \cup [session : prompted, ok : {FALSE}]
        /\ UNCHANGED <<doc, here, view, waiting, events, route, words, sessions, walks>>

(* drive_connection and the handlers: one message at a time. *)
Request(m) == [id |-> m.at, session |-> m.session]
DispatchSpawning ==
  /\ process = "up" /\ wire # <<>>
  /\ wire' = Tail(wire)
  /\ LET m == Head(wire)
     IN CASE m.kind = "end" -> /\ prompted' = prompted \ {m.session}
                               /\ replies' = replies \cup {[session |-> m.session, ok |-> TRUE]}
                               /\ UNCHANGED <<asked, waiting, events>>
          [] m.kind = "permission" -> /\ asked' = Request(m)
                                      /\ waiting' = waiting \cup {Request(m)}
                                      /\ events' = Append(events, m)
                                      /\ UNCHANGED <<prompted, replies>>
          [] OTHER -> /\ events' = Append(events, m)
                      /\ UNCHANGED <<asked, waiting, prompted, replies>>
  /\ UNCHANGED <<doc, here, view, process, running, route, words, sessions, walks>>

Dispatch == /\ process = "up" /\ wire # <<>> /\ asked = None
            /\ wire' = Tail(wire)
            /\ LET m == Head(wire)
               IN CASE m.kind = "end" -> /\ prompted' = prompted \ {m.session}
                                         /\ replies' = replies \cup {[session |-> m.session, ok |-> TRUE]}
                                         /\ UNCHANGED <<asked, waiting, events>>
                    [] m.kind = "permission" -> /\ asked' = Request(m)
                                                /\ waiting' = waiting \cup {Request(m)}
                                                /\ events' = Append(events, m)
                                                /\ UNCHANGED <<prompted, replies>>
                    [] OTHER -> /\ events' = Append(events, m)
                                /\ UNCHANGED <<asked, waiting, prompted, replies>>
            /\ UNCHANGED <<doc, here, view, process, running, route, words, sessions, walks>>

--------------------------------------------------------------------------------
(* A frame: a node that left the page loses its view, which cancels its turn and its *)
(* route (retain_live, close); one that came gets a new one; others reconcile.       *)
Unrouted(n) == [s \in Sessions |-> IF view[n].session = s THEN None ELSE route[s]]
Drop(n) == /\ n \notin here /\ Live(n)
           /\ view' = [view EXCEPT ![n] = NoView]
           /\ route' = Unrouted(n)
           /\ UNCHANGED <<doc, here, events, replies, words, sessions, walks, agent>>
Draw(n) == /\ n \in here
           /\ view' = IF Live(n) THEN SetT(n, Adopt(view[n].t, Text(n))) ELSE [view EXCEPT ![n] = NewView(n)]
           /\ UNCHANGED <<doc, here, events, replies, route, words, sessions, walks, agent>>

(* The page changes, the node is deleted or its deletion undone. *)
Staled(n) == IF Live(n) THEN [view EXCEPT ![n].t.stale = TRUE] ELSE view
Leave(n) == n \in here /\ walks < MaxWalks /\ walks' = walks + 1
            /\ here' = here \ {n} /\ view' = Staled(n)
            /\ UNCHANGED <<doc, events, replies, route, words, sessions, agent>>
Return(n) == n \notin here /\ here' = here \cup {n} /\ view' = Staled(n)
             /\ UNCHANGED <<doc, events, replies, route, words, sessions, walks, agent>>

(* Undo takes the last turn of the node out of the document. *)
Undo(n) == /\ n \in here /\ doc[n] # <<>> /\ walks < MaxWalks /\ walks' = walks + 1
           /\ doc' = [doc EXCEPT ![n] = Front(@)]
           /\ view' = Staled(n)
           /\ UNCHANGED <<here, events, replies, route, words, sessions, agent>>

Replies == [session : Sessions, ok : BOOLEAN]
Spoken == {"assistant", "thought", "acp_tool", "plan"}
AgentNext == Dispatch \/ Dies \/ Timeout \/ \E s \in Sessions : Ask(s) \/ End(s) \/ \E k \in Spoken : Speak(s, k)
WindowNext == \/ \E n \in Nodes : Send(n) \/ Opened(n) \/ Answer(n) \/ Draw(n) \/ Drop(n) \/ Undo(n)
              \/ \E n \in Walkers : Leave(n) \/ Return(n)
              \/ Route
Next == \/ AgentNext \/ WindowNext
        \/ \E r \in Replies : Reply(r)
        \/ \E n \in Nodes : OpenFails(n)
Spec == Init /\ [][Next]_vars

(* The end of a turn is seen after the updates sent before it, and a frame is *)
(* drawn between an undo and the end of a turn of that node.                  *)
SeenAll(s) == \A i \in DOMAIN events : events[i].session # s
Fresh(n) == n \in here => ~view[n].t.stale
CalmReply(r) == /\ SeenAll(r.session)
                /\ \A n \in Nodes : Live(n) /\ view[n].session = r.session => Fresh(n)
                /\ Reply(r)
CalmOpenFails(n) == Live(n) /\ Fresh(n) /\ OpenFails(n)
CalmNext == \/ AgentNext \/ WindowNext
            \/ \E r \in Replies : CalmReply(r)
            \/ \E n \in Nodes : CalmOpenFails(n)

Fairness == /\ WF_vars(Dispatch) /\ WF_vars(Route) /\ WF_vars(Timeout)
            /\ \A r \in Replies : WF_vars(CalmReply(r))
            /\ \A n \in Nodes : WF_vars(Draw(n)) /\ WF_vars(Drop(n)) /\ WF_vars(CalmOpenFails(n))
            /\ \A s \in Sessions : WF_vars(End(s))
CalmSpec == Init /\ [][CalmNext]_vars /\ Fairness

--------------------------------------------------------------------------------
(* What a node shows is what the document holds and then what its turn has  *)
(* produced, once it has looked; a staged message is drawn at its place     *)
(* after the base, which is how a patch of a tool call finds its row; and   *)
(* when no turn runs nothing is left that the document does not have,       *)
(* unless no runtime could be started: the questions asked of it stay with  *)
(* the view (reconcile, absorb and finish_turn each keep a part of this by  *)
(* hand, and open leaves without any of them).                              *)
DrawnIsWhole == \A n \in Nodes : Live(n) =>
  LET t == view[n].t
  IN /\ n \in here /\ ~t.stale => t.drawn = Text(n) \o t.staged
     /\ Len(t.drawn) = t.base + Len(t.staged)
     /\ ~view[n].loading => /\ t.answer = NoText /\ t.thought = NoText
                            /\ t.staged = <<>> \/ process = "unstarted"

(* A conversation reads in the order it happened, over any mixture of       *)
(* answers, thoughts, tool calls and failures, and over turns.              *)
ReadsInOrder == \A n \in here : Live(n) /\ ~view[n].t.stale => Chronological(view[n].t, Text(n))

(* A permission request the agent waits for is on its node, on its way      *)
(* there, or its node is gone: a later request never takes its place.       *)
AskedIsShown == process = "up" => \A w \in waiting :
  \/ \E i \in DOMAIN events : events[i].kind = "permission" /\ events[i].at = w.id
  \/ \E n \in Nodes : Live(n) /\ view[n].session = w.session /\ view[n].pending = w.id
  \/ \A n \in Nodes : Live(n) => view[n].session # w.session

(* Updates go to the node of their session and to no other, and not to one  *)
(* that opened another session since.                                       *)
RoutesAreOwn == \A s \in Sessions, n \in Nodes :
  route[s] = n <=> Live(n) /\ view[n].session = s

(* Every turn ends, also when the process dies, the user never answers a    *)
(* permission prompt, or the node that was asked is gone.                   *)
TurnsEnd == \A n \in Nodes : (Live(n) /\ view[n].loading) ~> ~(Live(n) /\ view[n].loading)
================================================================================
