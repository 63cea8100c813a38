------------------------------ MODULE ToolChannel ------------------------------
(***************************************************************************)
(* Tool calls of an agent over MCP (peek-mcp channel.rs): each is a        *)
(* request on an unbounded queue, which one loop of the window drains      *)
(* (peek-ui mcp.rs) while the caller waits no longer than five seconds.    *)
(* Two of the tools are answered by the app from what it knows of the      *)
(* connection (canvas/tools.rs); the others edit the document, of which    *)
(* only the order of the edits is kept.                                    *)
(***************************************************************************)
EXTENDS DatabaseSession

CONSTANTS Requests,   \* bound: the calls an agent makes, 1 to Requests, one after the other
          Reads       \* those that ask for the schema

ASSUME RequestsAssumption == Requests \in Nat /\ Reads \subseteq 1..Requests

VARIABLES queue,     \* McpRequests
          callers,   \* what became of each call
          applied,   \* the calls run on the document, in order
          told,      \* the connection whose tables a read was told
          window     \* the window and its drain are there

channel == <<queue, callers, applied, told, window>>

Indices == 1..Requests

ChannelTypeOK == /\ TypeOK
                 /\ \A i \in DOMAIN queue : queue[i] \in Indices
                 /\ callers \in [Indices -> {"idle", "waiting", "done", "failed"}]
                 /\ \A i \in DOMAIN applied : applied[i] \in Indices \ Reads
                 /\ told \in [Indices -> Maybe]
                 /\ window \in BOOLEAN
                 /\ ~window => queue = <<>> /\ \A r \in Indices : callers[r] # "waiting"

ChannelInit == /\ Init
               /\ queue = <<>> /\ applied = <<>> /\ window = TRUE
               /\ callers = [r \in Indices |-> "idle"]
               /\ told = [r \in Indices |-> None]

Turn(r) == callers[r] = "idle" /\ \A q \in 1..r - 1 : callers[q] \in {"done", "failed"}

(* request: refused at once when nobody will ever drain the queue. *)
Request(r) == /\ Turn(r)
              /\ queue' = IF window THEN Append(queue, r) ELSE queue
              /\ callers' = [callers EXCEPT ![r] = IF window THEN "waiting" ELSE "failed"]
              /\ UNCHANGED <<applied, told, window>>

(* db_schema: what the window knows now. *)
Tables(r) == ui.schema

(* A slip: each request is handled by a task of its own. *)
DrainSpawned == \E i \in DOMAIN queue :
  /\ queue' = RemoveAt(queue, i)
  /\ applied' = IF queue[i] \in Reads THEN applied ELSE Append(applied, queue[i])
  /\ told' = IF queue[i] \in Reads THEN [told EXCEPT ![queue[i]] = Tables(queue[i])] ELSE told
  /\ callers' = IF callers[queue[i]] = "waiting" THEN [callers EXCEPT ![queue[i]] = "done"] ELSE callers
  /\ UNCHANGED window

(* One request is handled to its end before the next is taken; who asked may be gone. *)
Drain == LET r == Head(queue)
         IN /\ queue # <<>>
            /\ queue' = Tail(queue)
            /\ applied' = IF r \in Reads THEN applied ELSE Append(applied, r)
            /\ told' = IF r \in Reads THEN [told EXCEPT ![r] = Tables(r)] ELSE told
            /\ callers' = IF callers[r] = "waiting" THEN [callers EXCEPT ![r] = "done"] ELSE callers
            /\ UNCHANGED window

TimeoutRetracts(r) == /\ callers[r] = "waiting" /\ queue # <<>>
                      /\ queue' = SelectSeq(queue, LAMBDA q : q # r)
                      /\ UNCHANGED <<callers, applied, told, window>>
Timeout(r) == /\ callers[r] = "waiting"
              /\ callers' = [callers EXCEPT ![r] = "failed"]
              /\ UNCHANGED <<queue, applied, told, window>>

(* The window closes: requests are dropped, and with each the answer its caller waits for. *)
Close == /\ window /\ window' = FALSE /\ queue' = <<>>
         /\ callers' = [r \in Indices |-> IF callers[r] = "waiting" THEN "failed" ELSE callers[r]]
         /\ UNCHANGED <<applied, told>>

ChannelNext == Drain \/ Close \/ \E r \in Indices : Request(r) \/ Timeout(r)
AppNext == \/ CalmNext /\ UNCHANGED channel
           \/ ChannelNext /\ UNCHANGED vars

(* The clock of a caller runs whatever the window does. *)
AppFairness == /\ WF_<<vars, channel>>(Acquire /\ UNCHANGED channel)
               /\ WF_<<vars, channel>>(Hear /\ UNCHANGED channel)
               /\ WF_<<vars, channel>>(Works /\ UNCHANGED channel)
               /\ WF_<<vars, channel>>(Reap /\ UNCHANGED channel)
               /\ \A r \in Indices : WF_<<vars, channel>>(Timeout(r) /\ UNCHANGED vars)
AppSpec == ChannelInit /\ [][AppNext]_<<vars, channel>> /\ AppFairness

--------------------------------------------------------------------------------
(* Calls are applied in the order they were made, also when the agent gave *)
(* up on one and went on to the next, and a call that was told done has    *)
(* been applied (the drain is sequential on purpose, mcp.rs).              *)
AppliedInOrder ==
  /\ \A i, j \in DOMAIN applied : i < j => applied[i] < applied[j]
  /\ \A r \in Indices \ Reads : callers[r] = "done" => \E i \in DOMAIN applied : applied[i] = r

(* The tables an agent is told are those of the connection shown to the    *)
(* user at that moment, or none.                                           *)
ToldIsShown == [][\A r \in Reads : told'[r] # told[r] => ui.connected /\ told'[r] = ui.name]_told

(* A call returns, also when nothing drains the queue or the window closes. *)
CallsReturn == \A r \in Indices : callers[r] = "waiting" ~> callers[r] # "waiting"
================================================================================
