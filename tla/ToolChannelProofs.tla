--------------------------- MODULE ToolChannelProofs ---------------------------
(***************************************************************************)
(* What the window shows of the connection, for any connections and any    *)
(* number of calls under way (DatabaseSession, as ToolChannel uses it).    *)
(*                                                                         *)
(* No call carries a token, so the invariant says where the calls are: at  *)
(* most one connect is anywhere, and while there is one nothing is shown   *)
(* and no schema is on its way.  In which order tasks take the lock and    *)
(* answers are heard does not matter to it.                                *)
(*                                                                         *)
(* Of the calls of an agent, for any number of them, that they are applied *)
(* in order and told what is shown.                                        *)
(***************************************************************************)
EXTENDS ToolChannel, SequenceTheorems, TLAPS

Busy == IF holder = Free THEN 0 ELSE 1
Counted == Len(calls) + Len(answers) + Busy <= MaxCalls + 1

(* The tunnel belongs to a connect, which has closed the one before. *)
PortInv == /\ PortHasOwner
           /\ holder.tunnelled => Connecting
           /\ Connecting => ~inner.tunnel

Waits(kind) == \E i \in DOMAIN calls : calls[i].kind = kind
Told(kind) == \E i \in DOMAIN answers : answers[i].kind = kind

OneConnect == /\ \A i, j \in DOMAIN calls : calls[i].kind = "connect" /\ calls[j].kind = "connect" => i = j
              /\ \A i, j \in DOMAIN answers : answers[i].kind = "connect" /\ answers[j].kind = "connect" => i = j
              /\ Waits("connect") => ~Connecting /\ ~Told("connect")
              /\ Connecting => ~Told("connect")

ShownInv == /\ Underway("connect") => ~ui.connected /\ ui.schema = None
            /\ ui.connected => inner.connection = ui.name
            /\ ui.schema # None => ui.connected /\ ui.schema = ui.name
            /\ \A i \in DOMAIN answers : answers[i].kind = "connect" /\ answers[i].on # None =>
                 answers[i].on = answers[i].for /\ answers[i].on = inner.connection

SchemaInv == /\ Underway("schema") => ui.connected
             /\ \A i \in DOMAIN answers : answers[i].kind = "schema" => answers[i].on \in {ui.name, None}

SessionInv == TypeOK /\ Counted /\ PortInv /\ OneConnect /\ ShownInv /\ SchemaInv

--------------------------------------------------------------------------------
(* Where the i-th of what is left was, before the k-th was taken out. *)
Before(k, i) == IF i < k THEN i ELSE i + 1

LEMMA OneOut ==
  ASSUME NEW S, NEW s \in Seq(S), NEW k \in DOMAIN s
  PROVE  /\ RemoveAt(s, k) \in Seq(S)
         /\ s[k] \in S
         /\ Len(RemoveAt(s, k)) = Len(s) - 1
         /\ DOMAIN RemoveAt(s, k) = 1..Len(s) - 1
         /\ DOMAIN s = 1..Len(s)
         /\ \A i \in 1..Len(s) - 1 : RemoveAt(s, k)[i] = s[Before(k, i)]
         /\ \A i \in 1..Len(s) - 1 : Before(k, i) \in DOMAIN s \ {k}
         /\ \A i, j \in 1..Len(s) - 1 : Before(k, i) = Before(k, j) => i = j
<1>1. /\ Len(s) \in Nat \ {0} /\ DOMAIN s = 1..Len(s) /\ k \in 1..Len(s)
      /\ \A i \in 1..Len(s) : s[i] \in S
  OBVIOUS
<1> DEFINE front == SubSeq(s, 1, k - 1)
           rest  == SubSeq(s, k + 1, Len(s))
<1>2. /\ front \in Seq(S) /\ Len(front) = k - 1
      /\ \A i \in 1..k - 1 : front[i] = s[i]
  BY <1>1, SubSeqProperties
<1>3. /\ rest \in Seq(S) /\ Len(rest) = Len(s) - k
      /\ \A i \in 1..Len(s) - k : rest[i] = s[k + i]
  BY <1>1, SubSeqProperties
<1>4. RemoveAt(s, k) = front \o rest
  BY DEF RemoveAt
<1> HIDE DEF front, rest
<1>5. /\ front \o rest \in Seq(S) /\ Len(front \o rest) = Len(s) - 1
      /\ \A i \in 1..Len(s) - 1 : (front \o rest)[i] = IF i <= k - 1 THEN front[i] ELSE rest[i - (k - 1)]
  <2>1. /\ front \in Seq(S) /\ rest \in Seq(S)
        /\ Len(front) = k - 1 /\ Len(rest) = Len(s) - k
    BY <1>2, <1>3
  <2>2. /\ front \o rest \in Seq(S)
        /\ Len(front \o rest) = Len(front) + Len(rest)
        /\ \A i \in 1..Len(front) + Len(rest) :
             (front \o rest)[i] = IF i <= Len(front) THEN front[i] ELSE rest[i - Len(front)]
    BY ONLY <2>1, ConcatProperties
  <2>3. (k - 1) + (Len(s) - k) = Len(s) - 1
    BY <1>1
  <2> QED
    BY <2>1, <2>2, <2>3
<1>6. \A i \in 1..Len(s) - 1 : (front \o rest)[i] = s[Before(k, i)]
  <2> TAKE i \in 1..Len(s) - 1
  <2>1. CASE i < k
    BY <1>1, <1>2, <1>5, <2>1 DEF Before
  <2>2. CASE ~(i < k)
    <3>1. i - (k - 1) \in 1..Len(s) - k /\ k + (i - (k - 1)) = i + 1 /\ ~(i <= k - 1)
      BY <1>1, <2>2
    <3> QED
      BY <1>3, <1>5, <2>2, <3>1 DEF Before
  <2> QED
    BY <2>1, <2>2
<1>7. /\ \A i \in 1..Len(s) - 1 : Before(k, i) \in DOMAIN s \ {k}
      /\ \A i, j \in 1..Len(s) - 1 : Before(k, i) = Before(k, j) => i = j
  BY <1>1 DEF Before
<1>8. /\ RemoveAt(s, k) \in Seq(S) /\ Len(RemoveAt(s, k)) = Len(s) - 1
      /\ \A i \in 1..Len(s) - 1 : RemoveAt(s, k)[i] = s[Before(k, i)]
  BY <1>4, <1>5, <1>6
<1>9. DOMAIN RemoveAt(s, k) = 1..Len(s) - 1
  BY <1>8
<1> QED
  BY <1>1, <1>7, <1>8, <1>9

LEMMA LastIn ==
  ASSUME NEW S, NEW s \in Seq(S), NEW e \in S
  PROVE  /\ Append(s, e) \in Seq(S)
         /\ Len(Append(s, e)) = Len(s) + 1
         /\ DOMAIN Append(s, e) = 1..Len(s) + 1
         /\ DOMAIN s = 1..Len(s)
         /\ \A i \in 1..Len(s) : Append(s, e)[i] = s[i]
         /\ Append(s, e)[Len(s) + 1] = e
OBVIOUS

--------------------------------------------------------------------------------
LEMMA InitInv == Init => SessionInv
BY ConnsAssumption, CallsAssumption
   DEF Init, SessionInv, TypeOK, Counted, Busy, Free, Idle, Held, Maybe, PortInv, PortHasOwner, Connecting,
       OneConnect, ShownInv, SchemaInv, Underway, Waits, Told

LEMMA PressLemma == ASSUME SessionInv, PressCalmly PROVE SessionInv'
<1> PICK c \in Conns : Press(c)
  BY DEF PressCalmly
<1> DEFINE call == [kind |-> "connect", for |-> c]
<1>1. call \in Call /\ calls \in Seq(Call)
  BY DEF Call, Maybe, SessionInv, TypeOK
<1>2. /\ calls' \in Seq(Call) /\ Len(calls') = Len(calls) + 1
      /\ DOMAIN calls' = 1..Len(calls) + 1 /\ DOMAIN calls = 1..Len(calls)
      /\ \A i \in 1..Len(calls) : calls'[i] = calls[i]
      /\ calls'[Len(calls) + 1] = call
  BY <1>1, LastIn DEF Press
<1>3. Len(calls) \in Nat /\ Len(answers) \in Nat
  BY DEF SessionInv, TypeOK
<1>4. /\ ui' = [connected |-> FALSE, name |-> None, error |-> FALSE, schema |-> None]
      /\ UNCHANGED <<holder, inner, port, answers>>
      /\ Len(calls) + Len(answers) < MaxCalls
      /\ ~Underway("connect") /\ ~Underway("schema")
  BY DEF Press, PressCalmly, Forgotten, Room
<1> HIDE DEF call
<1>5. TypeOK' /\ Counted' /\ PortInv'
  BY <1>2, <1>3, <1>4, CallsAssumption
     DEF SessionInv, TypeOK, Counted, Busy, PortInv, PortHasOwner, Connecting, Maybe
<1>6. OneConnect' /\ ShownInv' /\ SchemaInv'
  BY <1>2, <1>3, <1>4 DEF SessionInv, OneConnect, ShownInv, SchemaInv, Underway, Waits, Told, Connecting, call
<1> QED
  BY <1>5, <1>6 DEF SessionInv

LEMMA SendLemma == ASSUME SessionInv, Send PROVE SessionInv'
<1> DEFINE call == [kind |-> "query", for |-> ui.name]
<1>1. call \in Call /\ calls \in Seq(Call)
  BY DEF Call, Maybe, SessionInv, TypeOK
<1>2. /\ calls' \in Seq(Call) /\ Len(calls') = Len(calls) + 1
      /\ DOMAIN calls' = 1..Len(calls) + 1 /\ DOMAIN calls = 1..Len(calls)
      /\ \A i \in 1..Len(calls) : calls'[i] = calls[i]
      /\ calls'[Len(calls) + 1] = call
  BY <1>1, LastIn DEF Send
<1>3. Len(calls) \in Nat /\ Len(answers) \in Nat
  BY DEF SessionInv, TypeOK
<1>4. /\ UNCHANGED <<ui, holder, inner, port, answers>>
      /\ ui.connected /\ Len(calls) + Len(answers) < MaxCalls
  BY DEF Send, Room
<1> HIDE DEF call
<1>5. TypeOK' /\ Counted' /\ PortInv'
  BY <1>2, <1>3, <1>4, CallsAssumption
     DEF SessionInv, TypeOK, Counted, Busy, PortInv, PortHasOwner, Connecting, Maybe
<1>6. OneConnect' /\ ShownInv' /\ SchemaInv'
  BY <1>2, <1>3, <1>4 DEF SessionInv, OneConnect, ShownInv, SchemaInv, Underway, Waits, Told, Connecting, call
<1> QED
  BY <1>5, <1>6 DEF SessionInv

LEMMA LockLemma == ASSUME SessionInv, NEW k \in DOMAIN calls, Lock(k) PROVE SessionInv'
<1>1. calls \in Seq(Call) /\ k \in DOMAIN calls /\ calls' = RemoveAt(calls, k)
  BY DEF Lock, SessionInv, TypeOK
<1>2. /\ calls' \in Seq(Call) /\ calls[k] \in Call
      /\ Len(calls') = Len(calls) - 1
      /\ DOMAIN calls' = 1..Len(calls) - 1 /\ DOMAIN calls = 1..Len(calls)
      /\ \A i \in 1..Len(calls) - 1 : /\ Before(k, i) \in DOMAIN calls \ {k}
                                      /\ calls'[i] = calls[Before(k, i)]
      /\ \A i, j \in 1..Len(calls) - 1 : Before(k, i) = Before(k, j) => i = j
  <2>0. calls \in Seq(Call) /\ k \in DOMAIN calls
    BY <1>1
  <2>1. /\ RemoveAt(calls, k) \in Seq(Call) /\ calls[k] \in Call
        /\ Len(RemoveAt(calls, k)) = Len(calls) - 1
        /\ DOMAIN RemoveAt(calls, k) = 1..Len(calls) - 1
        /\ DOMAIN calls = 1..Len(calls)
    BY ONLY <2>0, OneOut
  <2>2. \A i \in 1..Len(calls) - 1 : RemoveAt(calls, k)[i] = calls[Before(k, i)]
    BY ONLY <2>0, OneOut
  <2>4. \A i \in 1..Len(calls) - 1 : Before(k, i) \in DOMAIN calls \ {k}
    BY ONLY <2>0, OneOut
  <2>3. \A i, j \in 1..Len(calls) - 1 : Before(k, i) = Before(k, j) => i = j
    BY ONLY <2>0, OneOut
  <2> QED
    BY <1>1, <2>1, <2>2, <2>3, <2>4
<1>3. Len(calls) \in Nat \ {0} /\ Len(answers) \in Nat
  BY <1>1, <1>2 DEF SessionInv, TypeOK
<1>12. \A i \in DOMAIN calls' : /\ Before(k, i) \in DOMAIN calls /\ Before(k, i) # k
                                /\ calls'[i] = calls[Before(k, i)]
  BY <1>2, <1>3
<1>4. /\ holder = Free /\ holder' = [call |-> calls[k], tunnelled |-> FALSE]
      /\ UNCHANGED <<ui, answers>>
  BY DEF Lock
<1>5. Busy = 0 /\ Busy' = 1
  BY <1>2, <1>4 DEF Busy, Free, Idle, Call
<1>6. IF calls[k].kind = "connect"
        THEN inner' = [connection |-> None, tunnel |-> FALSE] /\ port' = Closed
        ELSE UNCHANGED <<inner, port>>
  BY DEF Lock
<1>7. TypeOK' /\ Counted'
  <2>1. holder' \in Held
    BY <1>2, <1>4 DEF Held
  <2>2. inner' \in [connection : Maybe, tunnel : BOOLEAN] /\ port' \in {"free", "bound", "dying"}
    <3>1. /\ inner \in [connection : Maybe, tunnel : BOOLEAN] /\ port \in {"free", "bound", "dying"}
          /\ None \in Maybe
      BY DEF SessionInv, TypeOK, Maybe
    <3>2. CASE calls[k].kind = "connect"
      <4>1. inner' = [connection |-> None, tunnel |-> FALSE] /\ port' = Closed
        BY <1>6, <3>2
      <4>2. Closed \in {"free", "bound", "dying"}
        BY <3>1 DEF Closed
      <4> QED
        BY <3>1, <4>1, <4>2
    <3>3. CASE calls[k].kind # "connect"
      BY <1>6, <3>1, <3>3
    <3> QED
      BY <3>2, <3>3
  <2>3. Len(calls') + Len(answers') + Busy' <= MaxCalls + 1 /\ Len(calls') + Len(answers') <= MaxCalls + 1
    BY <1>2, <1>3, <1>4, <1>5, CallsAssumption DEF SessionInv, Counted
  <2> QED
    BY <1>2, <1>4, <2>1, <2>2, <2>3 DEF SessionInv, TypeOK, Counted
<1>8. PortInv'
  BY <1>4, <1>6 DEF SessionInv, TypeOK, PortInv, PortHasOwner, Connecting, Closed, Free, Idle
<1>9. /\ OneConnect'
      /\ \A kind \in {"connect", "schema"} : Underway(kind)' => Underway(kind)
  <2>1. ASSUME NEW kind PROVE /\ Waits(kind)' => Waits(kind)
                              /\ holder'.call.kind = kind => Waits(kind)
                              /\ Told(kind)' = Told(kind)
    <3>1. Waits(kind)' => Waits(kind)
      BY <1>12 DEF Waits
    <3>2. holder'.call.kind = kind => Waits(kind)
      BY <1>1, <1>4 DEF Waits
    <3> QED
      BY <1>4, <3>1, <3>2 DEF Told
  <2>2. \A kind \in {"connect", "schema"} : Underway(kind)' => Underway(kind)
    BY <2>1 DEF Underway, Waits, Told
  <2>3. ASSUME NEW i \in DOMAIN calls', NEW j \in DOMAIN calls',
               calls'[i].kind = "connect", calls'[j].kind = "connect"
        PROVE  i = j
    <3>1. Before(k, i) = Before(k, j)
      BY <1>12, <2>3 DEF SessionInv, OneConnect
    <3> QED
      BY <1>2, <2>3, <3>1
  <2>4. Waits("connect")' => ~Connecting'
    <3>1. SUFFICES ASSUME NEW i \in DOMAIN calls', calls'[i].kind = "connect", calls[k].kind = "connect"
                   PROVE  FALSE
      BY <1>4 DEF Connecting, Waits
    <3>2. Before(k, i) = k
      BY <1>1, <1>12, <3>1 DEF SessionInv, OneConnect
    <3> QED
      BY <1>12, <3>2
  <2>5. OneConnect'
    <3>1. Waits("connect")' => ~Told("connect")'
      BY <2>1 DEF SessionInv, OneConnect
    <3>2. Connecting' => ~Told("connect")'
      BY <1>4, <2>1 DEF SessionInv, OneConnect, Connecting
    <3> QED
      BY <1>4, <2>3, <2>4, <3>1, <3>2 DEF SessionInv, OneConnect
  <2> QED
    BY <2>2, <2>5
<1>10. ShownInv' /\ SchemaInv'
  <2>1. CASE calls[k].kind = "connect"
    <3>1. ~ui.connected /\ ui.schema = None /\ ~Told("connect")
      BY <1>1, <2>1 DEF SessionInv, ShownInv, OneConnect, Underway, Waits
    <3> QED
      BY <1>4, <1>9, <3>1 DEF SessionInv, ShownInv, SchemaInv, Told
  <2>2. CASE calls[k].kind # "connect"
    BY <1>4, <1>6, <1>9, <2>2 DEF SessionInv, ShownInv, SchemaInv
  <2> QED
    BY <2>1, <2>2
<1> QED
  BY <1>7, <1>8, <1>9, <1>10 DEF SessionInv

LEMMA DeliverLemma == ASSUME SessionInv, NEW k \in DOMAIN answers, Deliver(k) PROVE SessionInv'
<1> DEFINE a == answers[k]
<1>1. answers \in Seq(Answer) /\ k \in DOMAIN answers /\ answers' = RemoveAt(answers, k)
  BY DEF Deliver, SessionInv, TypeOK
<1>2. /\ answers' \in Seq(Answer) /\ a \in Answer
      /\ Len(answers') = Len(answers) - 1
      /\ DOMAIN answers' = 1..Len(answers) - 1 /\ DOMAIN answers = 1..Len(answers)
      /\ \A i \in 1..Len(answers) - 1 : /\ Before(k, i) \in DOMAIN answers \ {k}
                                      /\ answers'[i] = answers[Before(k, i)]
      /\ \A i, j \in 1..Len(answers) - 1 : Before(k, i) = Before(k, j) => i = j
  <2>0. answers \in Seq(Answer) /\ k \in DOMAIN answers
    BY <1>1
  <2>1. /\ RemoveAt(answers, k) \in Seq(Answer) /\ answers[k] \in Answer
        /\ Len(RemoveAt(answers, k)) = Len(answers) - 1
        /\ DOMAIN RemoveAt(answers, k) = 1..Len(answers) - 1
        /\ DOMAIN answers = 1..Len(answers)
    BY ONLY <2>0, OneOut
  <2>2. \A i \in 1..Len(answers) - 1 : RemoveAt(answers, k)[i] = answers[Before(k, i)]
    BY ONLY <2>0, OneOut
  <2>4. \A i \in 1..Len(answers) - 1 : Before(k, i) \in DOMAIN answers \ {k}
    BY ONLY <2>0, OneOut
  <2>3. \A i, j \in 1..Len(answers) - 1 : Before(k, i) = Before(k, j) => i = j
    BY ONLY <2>0, OneOut
  <2> QED
    BY <1>1, <2>1, <2>2, <2>3, <2>4
<1>3. Len(answers) \in Nat \ {0} /\ Len(calls) \in Nat
  BY <1>1, <1>2 DEF SessionInv, TypeOK
<1>4. \A i \in DOMAIN answers' : /\ Before(k, i) \in DOMAIN answers /\ Before(k, i) # k
                                 /\ answers'[i] = answers[Before(k, i)]
  BY <1>2, <1>3
<1>5. UNCHANGED <<holder, inner, port>>
  BY DEF Deliver
<1>6. \A kind : Told(kind)' => Told(kind)
  BY <1>4 DEF Told
<1>7. PortInv'
  BY <1>4, <1>5 DEF SessionInv, PortInv, PortHasOwner, Connecting
<1>8. ASSUME NEW i \in DOMAIN answers', NEW j \in DOMAIN answers',
             answers'[i].kind = "connect", answers'[j].kind = "connect"
      PROVE  i = j
  <2>1. Before(k, i) = Before(k, j)
    BY <1>4, <1>8 DEF SessionInv, OneConnect
  <2> QED
    BY <1>2, <1>8, <2>1
<1>9. a.kind = "connect" => ~Told("connect")'
  <2>1. SUFFICES ASSUME NEW i \in DOMAIN answers', answers'[i].kind = "connect", answers[k].kind = "connect"
                 PROVE  FALSE
    BY DEF Told
  <2>2. Before(k, i) = k
    BY <1>1, <1>4, <2>1 DEF SessionInv, OneConnect
  <2> QED
    BY <1>4, <2>2
<1>10. a.kind = "connect" => /\ ~Waits("connect") /\ ~Connecting /\ ~ui.connected /\ ui.schema = None
                             /\ ~Underway("schema")
  BY <1>1 DEF SessionInv, OneConnect, ShownInv, SchemaInv, Underway, Waits, Told
<1>11. \A i \in DOMAIN answers' : answers'[i].kind = "connect" /\ answers'[i].on # None =>
         answers'[i].on = answers'[i].for /\ answers'[i].on = inner'.connection
  BY <1>4, <1>5 DEF SessionInv, ShownInv
<1>12. \A i \in DOMAIN answers' : answers'[i].kind = "schema" => answers'[i].on \in {ui.name, None}
  BY <1>4 DEF SessionInv, SchemaInv
<1> HIDE DEF a
<1>13. CASE UNCHANGED calls
  <2>1. OneConnect' /\ Counted'
    <3>1. Waits("connect")' = Waits("connect") /\ Connecting' = Connecting /\ Busy' = Busy
      BY <1>5, <1>13 DEF Waits, Connecting, Busy
    <3>2. OneConnect'
      BY <1>6, <1>8, <1>13, <3>1 DEF SessionInv, OneConnect
    <3>4. Busy \in {0, 1} /\ Len(calls') = Len(calls)
      BY <1>13 DEF Busy
    <3>5. Counted'
      BY <1>2, <1>3, <3>1, <3>4, CallsAssumption DEF SessionInv, Counted
    <3> QED
      BY <3>2, <3>5
  <2>2. Len(calls') + Len(answers') <= MaxCalls + 1
    BY <1>2, <1>3, <1>13, CallsAssumption DEF SessionInv, TypeOK
  <2>3. \A kind : Underway(kind)' => Underway(kind)
    BY <1>5, <1>6, <1>13 DEF Underway, Told
  <2>4. CASE a.kind = "connect" /\ a.on = None
    <3>1. ui' = [ui EXCEPT !.connected = FALSE, !.error = TRUE]
      BY <2>4 DEF Deliver, Failed, a
    <3>2. /\ ui' \in [connected : BOOLEAN, name : Maybe, error : BOOLEAN, schema : Maybe]
          /\ ~ui'.connected /\ ui'.schema = None /\ ui'.name = ui.name
      BY <1>10, <2>4, <3>1 DEF SessionInv, TypeOK
    <3>3. TypeOK'
      BY <1>2, <1>5, <1>13, <2>2, <3>2 DEF SessionInv, TypeOK
    <3>4. ShownInv' /\ SchemaInv'
      BY <1>10, <1>11, <1>12, <2>3, <2>4, <3>2 DEF ShownInv, SchemaInv
    <3> QED
      BY <1>7, <2>1, <3>3, <3>4 DEF SessionInv
  <2>5. CASE a.kind = "schema"
    <3>1. a.on \in {ui.name, None} /\ ui.connected /\ a.on \in Maybe
      BY <1>1, <1>2, <2>5 DEF SessionInv, SchemaInv, Underway, a, Answer
    <3>2. ui' = IF a.on = None THEN ui ELSE [ui EXCEPT !.schema = a.on]
      BY <2>5 DEF Deliver, Learned, a
    <3>3. /\ ui' \in [connected : BOOLEAN, name : Maybe, error : BOOLEAN, schema : Maybe]
          /\ ui'.connected /\ ui'.name = ui.name /\ ui'.schema \in {ui.schema, ui.name}
      BY <3>1, <3>2 DEF SessionInv, TypeOK
    <3>4. TypeOK'
      BY <1>2, <1>5, <1>13, <2>2, <3>3 DEF SessionInv, TypeOK
    <3>5. ShownInv' /\ SchemaInv'
      BY <1>5, <1>11, <1>12, <2>3, <3>1, <3>3 DEF SessionInv, ShownInv, SchemaInv
    <3> QED
      BY <1>7, <2>1, <3>4, <3>5 DEF SessionInv
  <2>6. CASE UNCHANGED ui
    <3>1. TypeOK'
      BY <1>2, <1>5, <1>13, <2>2, <2>6 DEF SessionInv, TypeOK
    <3>2. ShownInv' /\ SchemaInv'
      BY <1>5, <1>11, <1>12, <2>3, <2>6 DEF SessionInv, ShownInv, SchemaInv
    <3> QED
      BY <1>7, <2>1, <3>1, <3>2 DEF SessionInv
  <2>7. (a.kind = "connect" /\ a.on = None) \/ a.kind = "schema" \/ UNCHANGED ui
    <3>1. CASE a.kind = "connect" /\ a.on # None
      <4>1. calls' = Append(calls, [kind |-> "schema", for |-> a.for])
        BY <3>1 DEF Deliver, Opened, a
      <4>2. [kind |-> "schema", for |-> a.for] \in Call /\ calls \in Seq(Call)
        BY <1>2 DEF Answer, Call, SessionInv, TypeOK
      <4>3. Len(calls') = Len(calls) + 1
        BY <4>1, <4>2, LastIn
      <4> QED
        BY <1>3, <1>13, <4>3
    <3>2. CASE a.kind = "query"
      BY <3>2 DEF Deliver, a
    <3> QED
      BY <1>2, <3>1, <3>2 DEF Answer
  <2> QED
    BY <2>4, <2>5, <2>6, <2>7
<1>14. CASE a.kind = "connect" /\ a.on # None
  <2> DEFINE call == [kind |-> "schema", for |-> a.for]
  <2>1. calls' = Append(calls, call) /\ ui' = [ui EXCEPT !.connected = TRUE, !.name = a.for, !.error = FALSE]
    BY <1>14 DEF Deliver, Opened, a
  <2>2. call \in Call /\ calls \in Seq(Call) /\ a.for \in Maybe
    BY <1>2 DEF Answer, Call, SessionInv, TypeOK
  <2>3. /\ calls' \in Seq(Call) /\ Len(calls') = Len(calls) + 1
        /\ DOMAIN calls' = 1..Len(calls) + 1 /\ DOMAIN calls = 1..Len(calls)
        /\ \A i \in 1..Len(calls) : calls'[i] = calls[i]
        /\ calls'[Len(calls) + 1] = call
    BY <2>1, <2>2, LastIn
  <2>4. /\ ui' \in [connected : BOOLEAN, name : Maybe, error : BOOLEAN, schema : Maybe]
        /\ ui'.connected /\ ui'.name = a.for /\ ui'.schema = None
    BY <1>10, <1>14, <2>1, <2>2 DEF SessionInv, TypeOK
  <2>5. call.kind = "schema"
    OBVIOUS
  <2> HIDE DEF call
  <2>6. ~Underway("connect")'
    BY <1>3, <1>5, <1>9, <1>10, <1>14, <2>3, <2>5 DEF Underway, Waits, Told, Connecting
  <2>7. TypeOK' /\ Counted'
    <3>1. Busy' = Busy /\ Busy \in {0, 1}
      BY <1>5 DEF Busy
    <3>2. Len(calls') + Len(answers') = Len(calls) + Len(answers)
      BY <1>2, <1>3, <2>3
    <3> QED
      BY <1>2, <1>5, <2>3, <2>4, <3>1, <3>2 DEF SessionInv, TypeOK, Counted
  <2>8. OneConnect'
    BY <1>8, <2>6, <1>3, <1>10, <1>14, <2>3, <2>5 DEF OneConnect, Underway, Waits, Told, Connecting
  <2>9. a.for = inner.connection
    BY <1>1, <1>14 DEF SessionInv, ShownInv, a
  <2>10. ShownInv'
    BY <1>5, <1>11, <2>4, <2>6, <2>9 DEF ShownInv
  <2>11. SchemaInv'
    BY <1>4, <1>10, <1>14, <2>4 DEF SchemaInv, Underway
  <2> QED
    BY <1>7, <2>7, <2>8, <2>10, <2>11 DEF SessionInv
<1>15. (a.kind = "connect" /\ a.on # None) \/ UNCHANGED calls
  <2>1. CASE a.kind = "connect" /\ a.on = None
    BY <2>1 DEF Deliver, Failed, a
  <2>2. CASE a.kind = "schema"
    BY <2>2 DEF Deliver, Learned, a
  <2>3. CASE a.kind = "query"
    BY <2>3 DEF Deliver, a
  <2> QED
    BY <1>2, <2>1, <2>2, <2>3 DEF Answer
<1> QED
  BY <1>13, <1>14, <1>15

(* A task ends: it frees the session and leaves its answer. *)
LEMMA FinishLemma ==
  ASSUME SessionInv, NEW on \in Maybe, Finish(on), UNCHANGED <<ui, calls>>,
         holder.call.kind \in {"connect", "query", "schema"},
         inner' \in [connection : Maybe, tunnel : BOOLEAN], port' \in {"free", "bound", "dying"},
         holder.call.kind # "connect" => UNCHANGED inner /\ on \in {inner.connection, None},
         holder.call.kind = "connect" /\ on # None => on = holder.call.for /\ inner'.connection = on,
         port' = "bound" <=> inner'.tunnel
  PROVE  SessionInv'
<1> DEFINE a == [kind |-> holder.call.kind, for |-> holder.call.for, on |-> on]
<1>1. a \in Answer /\ answers \in Seq(Answer)
  BY DEF SessionInv, TypeOK, Held, Call, Answer, Idle
<1>2. /\ answers' \in Seq(Answer) /\ Len(answers') = Len(answers) + 1
      /\ DOMAIN answers' = 1..Len(answers) + 1 /\ DOMAIN answers = 1..Len(answers)
      /\ \A i \in 1..Len(answers) : answers'[i] = answers[i]
      /\ answers'[Len(answers) + 1] = a
  BY <1>1, LastIn DEF Finish
<1>3. Len(calls) \in Nat /\ Len(answers) \in Nat
  BY DEF SessionInv, TypeOK
<1>4. /\ holder' = Free /\ a.kind = holder.call.kind /\ a.for = holder.call.for /\ a.on = on
      /\ Busy = 1 /\ Busy' = 0 /\ ~Connecting'
  BY DEF Finish, Busy, Free, Idle, Connecting
<1> HIDE DEF a
<1>5. TypeOK' /\ Counted'
  BY <1>2, <1>3, <1>4, CallsAssumption DEF SessionInv, TypeOK, Counted, Held, Free, Maybe, Idle
<1>6. PortInv'
  BY <1>4 DEF PortInv, PortHasOwner, Connecting, Free
<1>7. \A kind : Told(kind)' => Told(kind) \/ a.kind = kind
  BY <1>2, <1>3 DEF Told
<1>8. \A kind \in {"connect", "schema"} : Underway(kind)' => Underway(kind)
  <2>1. holder'.call.kind \notin {"connect", "schema"}
    BY <1>4 DEF Free, Idle
  <2> QED
    BY <1>4, <1>7, <2>1 DEF Underway, Told
<1>9. OneConnect'
  BY <1>2, <1>3, <1>4, <1>7 DEF SessionInv, OneConnect, Connecting, Waits, Told
<1>10. ShownInv'
  BY <1>2, <1>3, <1>4, <1>8 DEF SessionInv, ShownInv, OneConnect, Connecting, Told, Underway
<1>11. SchemaInv'
  <2>1. a.kind = "schema" => a.on \in {ui.name, None}
    BY <1>4 DEF SessionInv, ShownInv, SchemaInv, Underway
  <2>2. \A i \in DOMAIN answers' : answers'[i].kind = "schema" => answers'[i].on \in {ui'.name, None}
    BY <1>2, <1>3, <2>1 DEF SessionInv, SchemaInv
  <2>3. Underway("schema")' => ui'.connected
    BY <1>8 DEF SessionInv, SchemaInv
  <2> QED
    BY <2>2, <2>3 DEF SchemaInv
<1> QED
  BY <1>5, <1>6, <1>9, <1>10, <1>11 DEF SessionInv

LEMMA WorksLemma == ASSUME SessionInv, Works PROVE SessionInv'
<1>1. CASE OpenTunnel
  <2>1. /\ holder' \in Held /\ holder'.call = holder.call /\ holder'.tunnelled
        /\ UNCHANGED <<ui, calls, inner, answers>> /\ port' = "bound"
    BY <1>1 DEF OpenTunnel, SessionInv, TypeOK, Held
  <2>2. Busy = 1 /\ Busy' = 1
    BY <1>1, <2>1 DEF OpenTunnel, Connecting, Busy, Free, Idle
  <2>3. TypeOK' /\ Counted' /\ PortInv'
    BY <1>1, <2>1, <2>2 DEF OpenTunnel, SessionInv, TypeOK, Counted, PortInv, PortHasOwner, Connecting
  <2>4. \A kind : /\ Waits(kind)' = Waits(kind) /\ Told(kind)' = Told(kind)
                  /\ Underway(kind)' = Underway(kind)
    BY <2>1 DEF Waits, Told, Underway
  <2>5. OneConnect' /\ ShownInv' /\ SchemaInv'
    BY <2>1, <2>4 DEF SessionInv, OneConnect, ShownInv, SchemaInv, Connecting
  <2> QED
    BY <2>3, <2>5 DEF SessionInv
<1>2. CASE TunnelFails
  BY <1>2, FinishLemma DEF TunnelFails, NeedsTunnel, Connecting, SessionInv, TypeOK, Maybe, PortInv, PortHasOwner
<1>3. CASE OpenConnection
  BY <1>3, FinishLemma DEF OpenConnection, Connecting, SessionInv, TypeOK, Held, Call, Maybe, PortInv, PortHasOwner, Idle
<1>4. CASE ConnectionFails
  BY <1>4, FinishLemma DEF ConnectionFails, Connecting, SessionInv, TypeOK, Maybe, PortInv, PortHasOwner
<1>5. CASE Run
  BY <1>5, FinishLemma DEF Run, Connecting, SessionInv, TypeOK, Maybe, PortInv, PortHasOwner
<1> QED
  BY <1>1, <1>2, <1>3, <1>4, <1>5 DEF Works

LEMMA ReapLemma == ASSUME SessionInv, Reap PROVE SessionInv'
BY DEF Reap, SessionInv, TypeOK, Counted, Busy, PortInv, PortHasOwner, Connecting,
       OneConnect, ShownInv, SchemaInv, Underway, Waits, Told

--------------------------------------------------------------------------------
(* Whichever task gets the session next, what it does for the window keeps *)
(* the invariant, whatever the agent's calls do beside it (Database,       *)
(* Session, SshTunnel).                                                    *)
THEOREM Session == AppSpec => []SessionInv
<1>1. SessionInv /\ [AppNext]_<<vars, channel>> => SessionInv'
  <2>1. SessionInv /\ CalmNext => SessionInv'
    BY PressLemma, SendLemma, LockLemma, DeliverLemma, WorksLemma, ReapLemma DEF CalmNext, Acquire, Hear
  <2>2. SessionInv /\ UNCHANGED vars => SessionInv'
    BY DEF vars, SessionInv, TypeOK, Counted, Busy, PortInv, PortHasOwner, Connecting,
           OneConnect, ShownInv, SchemaInv, Underway, Waits, Told
  <2> QED
    BY <2>1, <2>2 DEF AppNext
<1>2. ChannelInit => Init
  BY DEF ChannelInit
<1> QED
  BY <1>1, <1>2, InitInv, PTL DEF AppSpec

(* The local port is bound exactly while a tunnel of the session holds it: *)
(* a connect closes the old tunnel before it binds, and one that fails     *)
(* gives its own up (session.rs: connect; tunnel.rs: close, drop).         *)
THEOREM Port == AppSpec => []PortHasOwner
<1>1. SessionInv => PortHasOwner
  BY DEF SessionInv, PortInv
<1> QED
  BY <1>1, Session, PTL

(* What is called open, with its tables, is the connection statements run  *)
(* on once no connect is under way (database.rs: connect, load_schema).    *)
THEOREM Shown == AppSpec => []ShownIsOpen
<1>1. SessionInv => ShownIsOpen
  BY DEF SessionInv, ShownInv, ShownIsOpen
<1> QED
  BY <1>1, Session, PTL

--------------------------------------------------------------------------------
(* The queue and what came of it: a request is in the queue at most once,  *)
(* after everything applied before it, whoever still waits for it, and its *)
(* answer has not been written before it is taken.                         *)
Increasing(s) == \A i, j \in DOMAIN s : i < j => s[i] < s[j]

ChannelInv ==
  /\ queue \in Seq(Indices) /\ applied \in Seq(Indices)
  /\ callers \in [Indices -> {"idle", "waiting", "done", "failed"}]
  /\ told \in [Indices -> Maybe]
  /\ \A q \in Indices : callers[q] # "idle" => \A p \in 1..q - 1 : callers[p] \in {"done", "failed"}
  /\ \A i \in DOMAIN queue : callers[queue[i]] # "idle" /\ told[queue[i]] = None
  /\ \A r \in Indices : callers[r] = "idle" => told[r] = None
  /\ \A i \in DOMAIN applied : callers[applied[i]] # "idle"
  /\ Increasing(queue) /\ Increasing(applied)
  /\ \A i \in DOMAIN applied, j \in DOMAIN queue : applied[i] < queue[j]
  /\ \A r \in Indices \ Reads : callers[r] = "done" => \E i \in DOMAIN applied : applied[i] = r

LEMMA ChannelInitLemma == ChannelInit => ChannelInv
BY RequestsAssumption DEF ChannelInit, ChannelInv, Increasing, Indices, Maybe

LEMMA RequestLemma ==
  ASSUME ChannelInv, NEW r \in Indices, Request(r)
  PROVE  ChannelInv'
<1>1. CASE window
  <2>1. /\ queue' = Append(queue, r) /\ callers' = [callers EXCEPT ![r] = "waiting"]
        /\ UNCHANGED <<applied, told>> /\ Turn(r)
    BY <1>1 DEF Request
  <2>2. /\ queue' \in Seq(Indices) /\ DOMAIN queue' = 1..Len(queue) + 1 /\ DOMAIN queue = 1..Len(queue)
        /\ \A i \in 1..Len(queue) : queue'[i] = queue[i]
        /\ queue'[Len(queue) + 1] = r /\ Len(queue) \in Nat
    BY <2>1, LastIn DEF ChannelInv
  (* What is not idle comes before the call whose turn it is. *)
  <2>3. \A q \in Indices : callers[q] # "idle" => q < r
    <3> SUFFICES ASSUME NEW q \in Indices, callers[q] # "idle", ~(q < r) PROVE FALSE
      OBVIOUS
    <3>1. q \in Nat /\ r \in 1..Requests /\ Requests \in Nat /\ callers[r] = "idle" /\ q # r
      BY <2>1, RequestsAssumption DEF Indices, Turn
    <3>2. r \in 1..q - 1
      BY <3>1
    <3>3. callers[r] \in {"done", "failed"}
      BY <3>2 DEF ChannelInv
    <3> QED
      BY <3>1, <3>3
  <2>4. \A i \in DOMAIN queue : queue[i] \in Indices /\ queue[i] < r
    BY <2>2, <2>3 DEF ChannelInv
  <2>5. \A i \in DOMAIN applied : applied[i] \in Indices /\ applied[i] < r
    BY <2>3 DEF ChannelInv
  <2>6. Increasing(queue')
    BY <2>2, <2>4 DEF ChannelInv, Increasing
  <2>7. \A i \in DOMAIN applied', j \in DOMAIN queue' : applied'[i] < queue'[j]
    BY <2>1, <2>2, <2>5 DEF ChannelInv
  <2>8. \A q \in Indices : callers'[q] # "idle" => \A p \in 1..q - 1 : callers'[p] \in {"done", "failed"}
    BY <2>1, <2>3, RequestsAssumption DEF ChannelInv, Turn, Indices
  <2>9. \A i \in DOMAIN queue' : callers'[queue'[i]] # "idle" /\ told'[queue'[i]] = None
    BY <2>1, <2>2 DEF ChannelInv, Turn
  <2>10. \A i \in DOMAIN applied' : callers'[applied'[i]] # "idle"
    BY <2>1, <2>5 DEF ChannelInv
  <2>11. callers' \in [Indices -> {"idle", "waiting", "done", "failed"}]
         /\ \A q \in Indices : callers'[q] = IF q = r THEN "waiting" ELSE callers[q]
    BY <2>1 DEF ChannelInv
  <2> QED
    BY <2>1, <2>2, <2>6, <2>7, <2>8, <2>9, <2>10, <2>11 DEF ChannelInv, Increasing
<1>2. CASE ~window
  <2>1. /\ callers' = [callers EXCEPT ![r] = "failed"]
        /\ UNCHANGED <<queue, applied, told>> /\ Turn(r)
    BY <1>2 DEF Request
  <2> QED
    BY <2>1, RequestsAssumption DEF ChannelInv, Turn, Indices, Increasing
<1> QED
  BY <1>1, <1>2

LEMMA DrainLemma == ASSUME SessionInv, ChannelInv, Drain PROVE ChannelInv'
<1> DEFINE r == queue[1]
<1>1. /\ queue \in Seq(Indices) /\ queue # <<>> /\ DOMAIN queue = 1..Len(queue) /\ 1 \in DOMAIN queue
      /\ r = Head(queue) /\ r \in Indices /\ queue' = Tail(queue)
  BY DEF Drain, ChannelInv
<1>2. /\ queue' \in Seq(Indices) /\ DOMAIN queue' = 1..Len(queue) - 1
      /\ \A i \in DOMAIN queue' : i + 1 \in DOMAIN queue /\ i \in Nat /\ queue'[i] = queue[i + 1]
  BY <1>1
<1>3. \A i \in DOMAIN queue' : queue'[i] \in Indices /\ r < queue'[i]
  BY <1>1, <1>2 DEF ChannelInv, Increasing
<1>4. /\ callers' \in [Indices -> {"idle", "waiting", "done", "failed"}]
      /\ \A q \in Indices : callers'[q] = IF q = r /\ callers[r] = "waiting" THEN "done" ELSE callers[q]
  BY <1>1 DEF Drain, ChannelInv
<1>5. /\ told' \in [Indices -> Maybe]
      /\ \A q \in Indices : q # r => told'[q] = told[q]
  BY <1>1 DEF Drain, ChannelInv, Tables, SessionInv, TypeOK
<1>6. applied' = IF r \in Reads THEN applied ELSE Append(applied, r)
  BY <1>1 DEF Drain
<1>7. \A i \in DOMAIN applied : applied[i] \in Indices /\ applied[i] < r /\ i \in 1..Len(applied)
  BY <1>1 DEF ChannelInv
<1> HIDE DEF r
<1>8. /\ applied' \in Seq(Indices) /\ Increasing(applied')
      /\ \A i \in DOMAIN applied' : applied'[i] = r \/ \E j \in DOMAIN applied : applied'[i] = applied[j]
      /\ \A j \in DOMAIN applied : j \in DOMAIN applied' /\ applied'[j] = applied[j]
      /\ r \notin Reads => \E i \in DOMAIN applied' : applied'[i] = r
  <2>1. CASE r \in Reads
    BY <1>6, <2>1 DEF ChannelInv
  <2>2. CASE r \notin Reads
    <3>1. /\ applied' \in Seq(Indices) /\ DOMAIN applied' = 1..Len(applied) + 1
          /\ \A i \in 1..Len(applied) : applied'[i] = applied[i]
          /\ applied'[Len(applied) + 1] = r /\ DOMAIN applied = 1..Len(applied) /\ Len(applied) \in Nat
      BY <1>1, <1>6, <2>2, LastIn DEF ChannelInv
    <3>2. Increasing(applied')
      BY <3>1, <1>7 DEF ChannelInv, Increasing
    <3> QED
      BY <3>1, <3>2
  <2> QED
    BY <2>1, <2>2
<1>9. Increasing(queue')
  BY <1>1, <1>2 DEF ChannelInv, Increasing
<1>10. \A i \in DOMAIN applied', j \in DOMAIN queue' : applied'[i] < queue'[j]
  <2> TAKE i \in DOMAIN applied', j \in DOMAIN queue'
  <2>1. r \in Int /\ queue'[j] \in Int /\ r < queue'[j]
    BY <1>1, <1>3, RequestsAssumption DEF Indices
  <2>2. CASE applied'[i] = r
    BY <2>1, <2>2
  <2>3. CASE \E k \in DOMAIN applied : applied'[i] = applied[k]
    <3> PICK k \in DOMAIN applied : applied'[i] = applied[k]
      BY <2>3
    <3>1. applied[k] \in Int /\ applied[k] < r
      BY <1>7, RequestsAssumption DEF Indices
    <3> QED
      BY <2>1, <3>1
  <2> QED
    BY <1>8, <2>2, <2>3
<1>11. callers[r] # "idle"
  BY <1>1 DEF ChannelInv, r
<1>12. \A q \in Indices : callers'[q] # "idle" => \A p \in 1..q - 1 : callers'[p] \in {"done", "failed"}
  <2> TAKE q \in Indices
  <2> HAVE callers'[q] # "idle"
  <2> TAKE p \in 1..q - 1
  <2>1. p \in Indices
    BY RequestsAssumption DEF Indices
  <2>2. callers[q] # "idle"
    BY <1>4, <1>11
  <2>3. callers[p] \in {"done", "failed"}
    BY <2>2 DEF ChannelInv
  <2> QED
    BY <2>1, <2>3, <1>4
<1>13. \A i \in DOMAIN queue' : callers'[queue'[i]] # "idle" /\ told'[queue'[i]] = None
  <2> TAKE i \in DOMAIN queue'
  <2>1. queue'[i] \in Indices /\ queue'[i] # r
    BY <1>1, <1>3, RequestsAssumption DEF Indices
  <2>2. callers[queue'[i]] # "idle" /\ told[queue'[i]] = None
    BY <1>2 DEF ChannelInv
  <2> QED
    BY <2>1, <2>2, <1>4, <1>5
<1>14. \A q \in Indices : callers'[q] = "idle" => told'[q] = None
  BY <1>1, <1>4, <1>5, <1>11 DEF ChannelInv
<1>15. \A i \in DOMAIN applied' : callers'[applied'[i]] # "idle"
  BY <1>1, <1>4, <1>7, <1>8, <1>11 DEF ChannelInv
<1>16. \A q \in Indices \ Reads : callers'[q] = "done" => \E i \in DOMAIN applied' : applied'[i] = q
  BY <1>1, <1>4, <1>8 DEF ChannelInv
<1> QED
  BY <1>2, <1>4, <1>5, <1>8, <1>9, <1>10, <1>12, <1>13, <1>14, <1>15, <1>16 DEF ChannelInv

LEMMA TimeoutLemma ==
  ASSUME ChannelInv, NEW r \in Indices, Timeout(r)
  PROVE  ChannelInv'
BY RequestsAssumption DEF ChannelInv, Timeout, Indices, Increasing

LEMMA CloseLemma == ASSUME ChannelInv, Close PROVE ChannelInv'
<1>1. /\ queue' = <<>> /\ UNCHANGED <<applied, told>>
      /\ callers' = [r \in Indices |-> IF callers[r] = "waiting" THEN "failed" ELSE callers[r]]
  BY DEF Close
<1> QED
  BY <1>1, RequestsAssumption DEF ChannelInv, Indices, Increasing

(* The queue of the tool calls, for any number of calls. *)
THEOREM Channel == AppSpec => []ChannelInv
<1>1. ChannelInit => ChannelInv
  BY ChannelInitLemma
<1>2. SessionInv /\ ChannelInv /\ [AppNext]_<<vars, channel>> => ChannelInv'
  <2> SUFFICES ASSUME SessionInv, ChannelInv, [AppNext]_<<vars, channel>> PROVE ChannelInv'
    OBVIOUS
  <2>1. CASE UNCHANGED channel
    BY <2>1 DEF channel, ChannelInv, Increasing
  <2>2. CASE ChannelNext
    BY <2>2, DrainLemma, CloseLemma, RequestLemma, TimeoutLemma DEF ChannelNext
  <2> QED
    BY <2>1, <2>2 DEF AppNext, vars, channel
<1> QED
  BY <1>1, <1>2, Session, PTL DEF AppSpec

(* The edits of an agent are applied in the order they were called, also    *)
(* when it gave up on one and went on, and what it was told done is.        *)
THEOREM Order == AppSpec => []AppliedInOrder
<1>1. ChannelInv => AppliedInOrder
  BY DEF ChannelInv, AppliedInOrder, Increasing
<1> QED
  BY <1>1, Channel, PTL

(* What an agent is told of the schema is of the connection then shown.     *)
THEOREM TellsShown == AppSpec => ToldIsShown
<1>1. SessionInv /\ ChannelInv /\ [AppNext]_<<vars, channel>>
        => [\A r \in Reads : told'[r] # told[r] => ui.connected /\ told'[r] = ui.name]_told
  <2> SUFFICES ASSUME SessionInv, ChannelInv, [AppNext]_<<vars, channel>>,
                      NEW r \in Reads, told'[r] # told[r]
               PROVE  ui.connected /\ told'[r] = ui.name
    OBVIOUS
  <2>1. Drain
    BY DEF AppNext, ChannelNext, channel, Request, Timeout, Close
  <2>2. queue \in Seq(Indices) /\ queue # <<>> /\ Head(queue) = queue[1] /\ 1 \in DOMAIN queue
    BY <2>1 DEF Drain, ChannelInv
  <2>3. r \in Indices /\ told \in [Indices -> Maybe]
    BY RequestsAssumption DEF ChannelInv, Indices
  <2>4. r = queue[1] /\ told'[r] = ui.schema /\ told[r] = None
    BY <2>1, <2>2, <2>3 DEF Drain, Tables, ChannelInv
  <2> QED
    BY <2>4 DEF SessionInv, ShownInv
<1> QED
  BY <1>1, Session, Channel, PTL DEF AppSpec, ToldIsShown
================================================================================
