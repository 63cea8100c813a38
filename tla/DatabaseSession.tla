---------------------------- MODULE DatabaseSession ----------------------------
(***************************************************************************)
(* The one database connection of the process: Database, the global the    *)
(* window reads (peek-ui database.rs), over Session, whose calls are tasks *)
(* of a runtime with two threads that race for one lock (peek-db           *)
(* session.rs), over the SSH tunnel of a connection (tunnel.rs).           *)
(*                                                                         *)
(* No call carries a token: an answer is taken for whatever the window     *)
(* asked last.  Calls are told apart here by the connection that was shown *)
(* when they were made (for) and the one they ran on (on).                 *)
(***************************************************************************)
EXTENDS Naturals, Sequences, SequencesExt

CONSTANTS Conns,       \* the connections of the settings
          Tunnelled,   \* those with a tunnel; all name the same local port
          None,        \* no connection
          MaxCalls     \* bound: calls and answers under way at once

ASSUME ConnsAssumption == Tunnelled \subseteq Conns /\ None \notin Conns
ASSUME CallsAssumption == MaxCalls \in Nat \ {0}

VARIABLES ui,       \* Database: connected, name, error, schema
          calls,    \* tasks that are to take the lock, in the order of their spawning
          holder,   \* the task that holds the lock, and how far it has come
          inner,    \* Inner: connection and tunnel
          port,     \* the shared local port
          answers   \* what the tasks have sent and the window has not seen

vars == <<ui, calls, holder, inner, port, answers>>

Maybe == Conns \cup {None}
Call == [kind : {"connect", "query", "schema"}, for : Maybe]
Idle == [kind |-> "none", for |-> None]
Held == [call : Call \cup {Idle}, tunnelled : BOOLEAN]
Free == [call |-> Idle, tunnelled |-> FALSE]
Answer == [kind : {"connect", "query", "schema"}, for : Maybe, on : Maybe]

TypeOK == /\ ui \in [connected : BOOLEAN, name : Maybe, error : BOOLEAN, schema : Maybe]
          /\ calls \in Seq(Call)
          /\ holder \in Held
          /\ inner \in [connection : Maybe, tunnel : BOOLEAN]
          /\ port \in {"free", "bound", "dying"}
          /\ answers \in Seq(Answer)
          /\ Len(calls) + Len(answers) <= MaxCalls + 1

Room == Len(calls) + Len(answers) < MaxCalls

Init == /\ ui = [connected |-> FALSE, name |-> None, error |-> FALSE, schema |-> None]
        /\ calls = <<>> /\ answers = <<>>
        /\ holder = Free
        /\ inner = [connection |-> None, tunnel |-> FALSE]
        /\ port = "free"

(* Database::connect: what the old connection left goes at once, and the new one is asked for. *)
ForgottenButSchema == [connected |-> FALSE, name |-> None, error |-> FALSE, schema |-> ui.schema]
Forgotten == [connected |-> FALSE, name |-> None, error |-> FALSE, schema |-> None]
Press(c) == /\ Room
            /\ ui' = Forgotten
            /\ calls' = Append(calls, [kind |-> "connect", for |-> c])
            /\ UNCHANGED <<holder, inner, port, answers>>

(* A query, an edit of a result, a deletion: gated on the flag the window holds. *)
Send == /\ Room /\ ui.connected
        /\ calls' = Append(calls, [kind |-> "query", for |-> ui.name])
        /\ UNCHANGED <<ui, holder, inner, port, answers>>

(* A task takes the lock.  A connect first drops the connection and waits *)
(* for the listener of the old tunnel to be gone (SshTunnel::close).      *)
ClosedNever == port
Closed == IF inner.tunnel THEN "free" ELSE port
Lock(i) == /\ holder = Free
           /\ i \in DOMAIN calls
           /\ holder' = [call |-> calls[i], tunnelled |-> FALSE]
           /\ calls' = RemoveAt(calls, i)
           /\ IF calls[i].kind = "connect"
                THEN inner' = [connection |-> None, tunnel |-> FALSE] /\ port' = Closed
                ELSE UNCHANGED <<inner, port>>
           /\ UNCHANGED <<ui, answers>>

Finish(on) == /\ answers' = Append(answers, [kind |-> holder.call.kind, for |-> holder.call.for, on |-> on])
              /\ holder' = Free

Connecting == holder.call.kind = "connect"
NeedsTunnel == holder.call.for \in Tunnelled /\ ~holder.tunnelled

(* open_tunnel: key, host key, sign-in and the bind of the local port. *)
OpenTunnel == /\ Connecting /\ NeedsTunnel
              /\ port = "free"
              /\ port' = "bound"
              /\ holder' = [holder EXCEPT !.tunnelled = TRUE]
              /\ UNCHANGED <<ui, calls, inner, answers>>

TunnelFails == /\ Connecting /\ NeedsTunnel
               /\ Finish(None)
               /\ UNCHANGED <<ui, calls, inner, port>>

OpenConnection == /\ Connecting /\ ~NeedsTunnel
                  /\ inner' = [connection |-> holder.call.for, tunnel |-> holder.tunnelled]
                  /\ Finish(holder.call.for)
                  /\ UNCHANGED <<ui, calls, port>>

(* Connection::open fails: the tunnel just opened is dropped, not closed, *)
(* and its listener outlives it for a moment.                             *)
ConnectionFails == /\ Connecting /\ ~NeedsTunnel
                   /\ port' = IF holder.tunnelled THEN "dying" ELSE port
                   /\ Finish(None)
                   /\ UNCHANGED <<ui, calls, inner>>

Reap == /\ port = "dying" /\ port' = "free"
        /\ UNCHANGED <<ui, calls, holder, inner, answers>>

(* query, execute and schema: on the connection that is there now, or not connected. *)
Run == /\ holder.call.kind \in {"query", "schema"}
       /\ \E on \in {inner.connection, None} : Finish(on)
       /\ UNCHANGED <<ui, calls, inner, port>>

(* What the window makes of an answer: record_failure, the fields of the new *)
(* connection and then load_schema, or the schema.                           *)
Opened(a) == /\ ui' = [ui EXCEPT !.connected = TRUE, !.name = a.for, !.error = FALSE]
             /\ calls' = Append(calls, [kind |-> "schema", for |-> a.for])
FailedSilently == ui' = [ui EXCEPT !.connected = FALSE] /\ UNCHANGED calls
Failed == ui' = [ui EXCEPT !.connected = FALSE, !.error = TRUE] /\ UNCHANGED calls
Learned(a) == ui' = (IF a.on = None THEN ui ELSE [ui EXCEPT !.schema = a.on]) /\ UNCHANGED calls
Deliver(i) == /\ i \in DOMAIN answers
              /\ answers' = RemoveAt(answers, i)
              /\ CASE answers[i].kind = "connect" /\ answers[i].on # None -> Opened(answers[i])
                   [] answers[i].kind = "connect" /\ answers[i].on = None -> Failed
                   [] answers[i].kind = "schema" -> Learned(answers[i])
                   [] answers[i].kind = "query" -> UNCHANGED <<ui, calls>>
              /\ UNCHANGED <<holder, inner, port>>

Works == \/ OpenTunnel \/ TunnelFails \/ OpenConnection \/ ConnectionFails \/ Run

(* The two threads take what was spawned, and the window wakes the tasks of *)
(* its own that wait for answers, in no order of its making.                *)
Acquire == \E i \in DOMAIN calls : Lock(i)
Hear    == \E i \in DOMAIN answers : Deliver(i)

Next == (\E c \in Conns : Press(c)) \/ Send \/ Acquire \/ Hear \/ Works \/ Reap

Spec == Init /\ [][Next]_vars

(* Nobody asks for a connection while one is being opened or its schema read. *)
Underway(kind) == \/ holder.call.kind = kind
                  \/ \E i \in DOMAIN calls : calls[i].kind = kind
                  \/ \E i \in DOMAIN answers : answers[i].kind = kind
PressCalmly == ~Underway("connect") /\ ~Underway("schema") /\ \E c \in Conns : Press(c)
CalmNext == PressCalmly \/ Send \/ Acquire \/ Hear \/ Works \/ Reap

(* Who waits for the lock gets it (the mutex is fair), though not in turn.  *)
Fairness == WF_vars(Acquire) /\ WF_vars(Hear) /\ WF_vars(Works) /\ WF_vars(Reap)
CalmSpec == Init /\ [][CalmNext]_vars /\ Fairness

--------------------------------------------------------------------------------
(* Once the answers to every connect are in, the connection the window     *)
(* calls open is the one statements run on, and the tables offered for     *)
(* completion, and told to an agent, are of that connection; a failed      *)
(* connect leaves none of the last one (Database::connect against          *)
(* Session::connect, which share nothing but the answers).                 *)
ShownIsOpen == /\ ui.connected /\ ~Underway("connect") => inner.connection = ui.name
               /\ ui.schema # None => ui.connected /\ ui.schema = ui.name

(* A statement runs on the connection that was shown when it was sent, or  *)
(* not at all, whatever is connected to in the meantime.  It does not hold: *)
(* a connect that was spawned later may be the first to take the lock, and *)
(* connected() asks for a connection, not for which.                       *)
RunsWhereShown == \A i \in DOMAIN answers :
  answers[i].kind = "query" => answers[i].on \in {answers[i].for, None}

(* The local port is held by the tunnel in use or by the one being opened, *)
(* so a bind meets at worst a listener on its way out (session.rs:82).     *)
PortHasOwner == port = "bound" <=> inner.tunnel \/ holder.tunnelled

(* Every press ends in the connection being shown, an error, or another press. *)
PressSettles == Underway("connect") ~> (ui.connected \/ ui.error)
================================================================================
