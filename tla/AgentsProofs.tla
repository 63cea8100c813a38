---- MODULE AgentsProofs ----
(* What holds of agent conversations for every number of boxes, agents,      *)
(* words and walks, by an inductive invariant of the calm specification, and *)
(* of the rounds of the local model, by one of theirs.                       *)
EXTENDS AcpAgents, ToolRounds, Integers, FiniteSetTheorems, WellFoundedInduction, SequenceTheorems, TLAPS

\* Natural numbers are well ordered.
LEMMA Least ==
    ASSUME NEW T, T \subseteq Nat, T # {}
    PROVE  \E x \in T : \A y \in T : x <= y
<1> DEFINE R == OpToRel(<, Nat)
<1>1. IsWellFoundedOn(R, Nat)
  BY NatLessThanWellFounded, Zenon
<1>2. \A x, y \in Nat : y < x => <<y, x>> \in R
  BY DEF OpToRel
<1> HIDE DEF R
<1>3. PICK x \in T : \A y \in T : ~ (<<y, x>> \in R)
  BY <1>1, WFMin
<1>4. \A y \in T : ~ (y < x)
  BY <1>2, <1>3
<1>5. \A y \in T : x <= y
  BY <1>4
<1> QED
  BY <1>5

\* What holds of zero, and of the next number with each, holds of all.
LEMMA SetInduction ==
    ASSUME NEW S, 0 \in S, \A n \in Nat : n \in S => n + 1 \in S
    PROVE  Nat \subseteq S
<1> SUFFICES ASSUME Nat \ S # {} PROVE FALSE
  OBVIOUS
<1>1. PICK x \in Nat \ S : \A y \in Nat \ S : x <= y
  BY Least
<1>2. x # 0 /\ x - 1 \in Nat /\ x - 1 \in S
  BY <1>1
<1> QED
  BY <1>2

\* A value per step: the first is given, and each makes the next.
IsRun(f, n, b, F) == f = [i \in 0..n |-> IF i = 0 THEN b ELSE F[i][f[i - 1]]]

\* There is such a run, and its values stay where its steps do.
LEMMA RunExists ==
    ASSUME NEW S, NEW b \in S, NEW F \in [Nat -> [S -> S]], NEW n \in Nat
    PROVE  \E f \in [0..n -> S] : IsRun(f, n, b, F)
<1> DEFINE A == {m \in Nat : \E f \in [0..m -> S] : IsRun(f, m, b, F)}
<1>1. 0 \in A
  <2> DEFINE f == [i \in 0..0 |-> b]
  <2>1. f \in [0..0 -> S] /\ IsRun(f, 0, b, F)
    BY DEF IsRun
  <2> QED
    BY <2>1
<1>2. ASSUME NEW m \in Nat, m \in A
      PROVE  m + 1 \in A
  <2>1. PICK f \in [0..m -> S] : IsRun(f, m, b, F)
    BY <1>2
  <2> DEFINE g == [i \in 0..m + 1 |-> IF i = m + 1 THEN F[m + 1][f[m]] ELSE f[i]]
  <2>2. f[m] \in S /\ F[m + 1][f[m]] \in S /\ \A i \in 0..m + 1 : i = m + 1 \/ i \in 0..m
    OBVIOUS
  <2>3. g \in [0..m + 1 -> S]
    BY <2>2
  <2>4. \A i \in 0..m : f[i] = IF i = 0 THEN b ELSE F[i][f[i - 1]]
    BY <2>1 DEF IsRun
  <2>5. \A i \in 0..m + 1 : g[i] = IF i = 0 THEN b ELSE F[i][g[i - 1]]
    <3> SUFFICES ASSUME NEW i \in 0..m + 1
                 PROVE  g[i] = IF i = 0 THEN b ELSE F[i][g[i - 1]]
      OBVIOUS
    <3>1. CASE i = 0
      <4>1. 0 \in 0..m /\ g[0] = f[0] /\ f[0] = b
        BY <2>4
      <4> QED
        BY <3>1, <4>1
    <3>2. CASE i = m + 1
      <4>1. m \in 0..m + 1 /\ m # m + 1 /\ i - 1 = m /\ i # 0
        BY <3>2
      <4>2. g[i - 1] = f[m] /\ g[i] = F[m + 1][f[m]]
        BY <3>2, <4>1
      <4> QED
        BY <3>2, <4>1, <4>2
    <3>3. CASE i # 0 /\ i # m + 1
      <4>1. i \in 0..m /\ i - 1 \in 0..m + 1 /\ i - 1 # m + 1
        BY <3>3
      <4>2. g[i] = f[i] /\ g[i - 1] = f[i - 1]
        BY <3>3, <4>1
      <4> QED
        BY <2>4, <3>3, <4>1, <4>2
    <3> QED
      BY <3>1, <3>2, <3>3
  <2> HIDE DEF g
  <2>6. IsRun(g, m + 1, b, F)
    <3>1. g = [i \in 0..m + 1 |-> g[i]]
      BY <2>3
    <3> QED
      BY <2>5, <3>1 DEF IsRun
  <2> QED
    BY <2>3, <2>6
<1> HIDE DEF A
<1>3. Nat \subseteq A
  BY <1>1, <1>2, SetInduction
<1> QED
  BY <1>3 DEF A

-----------------------------------------------------------------------------
(* The inductive invariant.                                                  *)

\* What each variable holds: a type that names no bound but those of the sessions.
Msgs == [kind : Kinds, at : Nat]
Streams == Nat \cup {NoText}
Ts == [staged : Seq(Msgs), answer : Streams, thought : Streams,
       drawn : Seq(Msgs), base : Nat, stale : BOOLEAN]
Views == [live : {TRUE}, session : Nat \cup {None}, opening : BOOLEAN, queued : BOOLEAN,
          pending : Nat \cup {None}, loading : BOOLEAN, t : Ts]
Updates == [kind : Spoken \cup {"permission"}, session : Nat, at : Nat]
Ends == [kind : {"end"}, session : Nat, at : Nat]
Requests == [id : Nat, session : Nat]

Typed == /\ doc \in [Nodes -> Seq(Seq(Msgs))] /\ here \subseteq Nodes
         /\ view \in [Nodes -> Views \cup {NoView}]
         /\ process \in {"none", "up", "dead", "unstarted"}
         /\ running \subseteq Nat /\ prompted \subseteq Nat
         /\ wire \in Seq(Updates \cup Ends) /\ events \in Seq(Updates)
         /\ asked \in Requests \cup {None} /\ waiting \subseteq Requests
         /\ replies \subseteq [session : Nat, ok : BOOLEAN]
         /\ route \in [Sessions -> Nodes \cup {None}]
         /\ words \in Nat /\ sessions \in 0..MaxSessions

\* Messages in the order they were said, by some moment, and before those of another list.
AtMost(s, a) == \A i \in DOMAIN s : Said(s[i]) => s[i].at <= a
InOrder(s) == \A i, j \in DOMAIN s : Said(s[i]) /\ Said(s[j]) /\ i < j => s[i].at <= s[j].at
Before(s, r) == \A i \in DOMAIN s, j \in DOMAIN r : Said(s[i]) /\ Said(r[j]) => s[i].at <= r[j].at

\* All a turn holds over the committed messages c was begun by moment a; it is in order,
\* and only one text streams in; it is drawn.
UpTo(t, c, a) == /\ AtMost(c \o t.staged, a)
                 /\ t.answer # NoText => t.answer <= a
                 /\ t.thought # NoText => t.thought <= a
Fits(t, c) == /\ InOrder(c \o t.staged)
              /\ t.answer # NoText => AtMost(c \o t.staged, t.answer)
              /\ t.thought # NoText => AtMost(c \o t.staged, t.thought)
              /\ t.answer = NoText \/ t.thought = NoText
              /\ Len(t.drawn) = t.base + Len(t.staged)
Shows(t, c) == t.drawn = c \o t.staged

\* A prompt is answered once: what the process still says is of a turn that runs, nothing
\* follows the end of one, and no answer is there before its prompt is through.
Turns ==
  /\ running \subseteq prompted /\ prompted \subseteq 1..sessions
  /\ process # "up" => wire = <<>> /\ prompted = {}
  /\ \A r \in replies : r.session \in 1..sessions /\ r.session \notin prompted
  /\ \A r, q \in replies : r.session = q.session => r = q
  /\ \A i \in DOMAIN wire : wire[i].session \in prompted
  /\ \A i \in DOMAIN wire : wire[i].kind = "end" =>
        /\ wire[i].session \notin running
        /\ \A j \in DOMAIN wire : j > i => wire[j].session # wire[i].session
  /\ \A i \in DOMAIN events : events[i].session \in 1..sessions

\* A view that does not load holds nothing of a turn, but for the questions that no
\* runtime could take, and nothing is on its way to it.
Idle(v) == /\ v.t.staged = <<>> \/ process = "unstarted"
           /\ v.t.answer = NoText /\ v.t.thought = NoText
Answerable(s) == \/ s \in prompted
                 \/ \E r \in replies : r.session = s
                 \/ \E i \in DOMAIN events : events[i].session = s
Own(v) ==
  /\ v.session # None => v.session \in 1..sessions
  /\ v.opening => v.session = None /\ v.loading
  /\ ~v.loading => Idle(v) /\ (v.session # None => ~Answerable(v.session))
Owned == RoutesAreOwn /\ \A n \in Nodes : Live(n) => Own(view[n])

\* Updates travel in the order they were sent, on the wire and then to the window.
Queued ==
  /\ \A i, j \in DOMAIN events : i < j => events[i].at < events[j].at
  /\ \A i, j \in DOMAIN wire : i < j /\ wire[i].kind # "end" /\ wire[j].kind # "end" => wire[i].at < wire[j].at
  /\ \A i \in DOMAIN events, j \in DOMAIN wire : wire[j].kind # "end" => events[i].at < wire[j].at
  /\ \A i \in DOMAIN events : events[i].at <= words
  /\ \A i \in DOMAIN wire : wire[i].at <= words

\* What a view holds was begun before anything that is on its way to it.
Timed(v, c) ==
  /\ Fits(v.t, c) /\ UpTo(v.t, c, words)
  /\ \A i \in DOMAIN events : events[i].session = v.session => UpTo(v.t, c, events[i].at)
  /\ \A i \in DOMAIN wire : wire[i].kind # "end" /\ wire[i].session = v.session => UpTo(v.t, c, wire[i].at)
InTime == \A n \in Nodes : IF Live(n) THEN Timed(view[n], Text(n))
                           ELSE InOrder(Text(n)) /\ AtMost(Text(n), words)

\* A view that has looked shows the document and its turn.
Whole == \A n \in here : Live(n) /\ ~view[n].t.stale => Shows(view[n].t, Text(n))

\* The one request the loop waits in is the last permission among the updates, or it was
\* received by the view of its session and nothing took its place.
IsPermission(e) == e.kind = "permission"
OnItsWay(w) == /\ \E i \in DOMAIN events : IsPermission(events[i]) /\ events[i].at = w.id /\ events[i].session = w.session
               /\ \A i \in DOMAIN events : IsPermission(events[i]) => events[i].at <= w.id
Arrived(w) == /\ \A i \in DOMAIN events : ~IsPermission(events[i])
              /\ \/ \E n \in Nodes : Live(n) /\ view[n].session = w.session /\ view[n].pending = w.id
                 \/ \A n \in Nodes : Live(n) => view[n].session # w.session
Permits == process # "dead" =>
  /\ waiting \subseteq {asked}
  /\ asked = None => waiting = {}
  /\ process = "none" => asked = None
  /\ \A w \in waiting : w.session \in 1..sessions /\ (OnItsWay(w) \/ Arrived(w))

AInvariant == Typed /\ Turns /\ Owned /\ Queued /\ InTime /\ Whole /\ Permits

-----------------------------------------------------------------------------
(* A conversation, turn by turn.  *)

\* The conversation up to each turn.
IsFlat(f, ds) == f = [i \in 1..Len(ds) |-> IF i = 1 THEN ds[i] ELSE f[i - 1] \o ds[i]]

\* There is such a function.
LEMMA FlatExists ==
    ASSUME NEW C, NEW ds \in Seq(Seq(C))
    PROVE  \E f : IsFlat(f, ds)
<1> DEFINE S == Seq(C)
           n == Len(ds)
           F == [i \in Nat |-> [x \in S |-> IF i \in 1..n THEN x \o ds[i] ELSE x]]
<1>1. n \in Nat /\ <<>> \in S /\ \A i \in 1..n : ds[i] \in S
  OBVIOUS
<1>2. \A x \in S : \A y \in S : x \o y \in S
  OBVIOUS
<1>3. \A x \in S : <<>> \o x = x
  OBVIOUS
<1> HIDE DEF S, n
<1>4. F \in [Nat -> [S -> S]]
  BY <1>1, <1>2
<1>5. \A i \in 1..n : \A x \in S : F[i][x] = x \o ds[i]
  BY <1>1
<1> HIDE DEF F
<1>6. PICK g \in [0..n -> S] : IsRun(g, n, <<>>, F)
  BY <1>1, <1>4, RunExists
<1> DEFINE f == [i \in 1..n |-> g[i]]
<1>7. g[0] = <<>> /\ \A i \in 1..n : i \in 0..n /\ i - 1 \in 0..n /\ g[i] = F[i][g[i - 1]]
  BY <1>1, <1>6 DEF IsRun
<1>8. \A i \in 1..n : g[i] = g[i - 1] \o ds[i]
  BY <1>5, <1>6, <1>7
<1>9. \A i \in 1..n : f[i] = IF i = 1 THEN ds[i] ELSE f[i - 1] \o ds[i]
  <2> SUFFICES ASSUME NEW i \in 1..n
               PROVE  f[i] = IF i = 1 THEN ds[i] ELSE f[i - 1] \o ds[i]
    OBVIOUS
  <2>1. CASE i = 1
    <3>1. f[i] = g[i] /\ g[i - 1] = <<>>
      BY <1>7, <2>1
    <3>2. g[i] = <<>> \o ds[i] /\ ds[i] \in S
      BY <1>1, <1>8, <3>1
    <3> HIDE DEF f
    <3>3. f[i] = ds[i]
      BY <1>3, <3>1, <3>2
    <3> QED
      BY <2>1, <3>3, Zenon
  <2>2. CASE i # 1
    <3>1. i - 1 \in 1..n
      BY <1>1, <2>2
    <3>2. f[i] = g[i] /\ f[i - 1] = g[i - 1]
      BY <3>1
    <3>3. g[i] = g[i - 1] \o ds[i]
      BY <1>8
    <3> HIDE DEF f
    <3>4. f[i] = f[i - 1] \o ds[i]
      BY <3>2, <3>3
    <3> QED
      BY <2>2, <3>4, Zenon
  <2> QED
    BY <2>1, <2>2
<1>10. f = [i \in 1..n |-> IF i = 1 THEN ds[i] ELSE f[i - 1] \o ds[i]]
  <2>1. f = [i \in 1..n |-> f[i]]
    OBVIOUS
  <2> HIDE DEF f
  <2> QED
    BY <1>9, <2>1
<1> HIDE DEF f
<1> QED
  BY <1>10 DEF IsFlat, n

\* Where two agree on their turns, they agree.
LEMMA FlatAgree ==
    ASSUME NEW C, NEW ds \in Seq(C), NEW es \in Seq(C), NEW f, NEW g, NEW k \in Nat,
           IsFlat(f, ds), IsFlat(g, es), k <= Len(ds), k <= Len(es),
           \A i \in 1..k : ds[i] = es[i]
    PROVE  \A i \in 1..k : f[i] = g[i]
<1> DEFINE A == {m \in Nat : m \in 1..k => f[m] = g[m]}
<1>1. 0 \in A
  OBVIOUS
<1>2. ASSUME NEW m \in Nat, m \in A
      PROVE  m + 1 \in A
  <2> SUFFICES ASSUME m + 1 \in 1..k PROVE f[m + 1] = g[m + 1]
    OBVIOUS
  <2>1. m + 1 \in 1..Len(ds) /\ m + 1 \in 1..Len(es) /\ (m + 1) - 1 = m
    OBVIOUS
  <2>2. /\ f[m + 1] = IF m + 1 = 1 THEN ds[m + 1] ELSE f[m] \o ds[m + 1]
        /\ g[m + 1] = IF m + 1 = 1 THEN es[m + 1] ELSE g[m] \o es[m + 1]
    BY <2>1 DEF IsFlat
  <2>3. CASE m = 0
    BY <2>2, <2>3
  <2>4. CASE m # 0
    BY <1>2, <2>2, <2>4
  <2> QED
    BY <2>3, <2>4
<1> HIDE DEF A
<1>3. Nat \subseteq A
  BY <1>1, <1>2, SetInduction
<1> QED
  BY <1>3 DEF A

\* The conversation is the one up to its last turn.
LEMMA FlatLast ==
    ASSUME NEW C, NEW ds \in Seq(Seq(C)), ds # <<>>
    PROVE  \E f : IsFlat(f, ds) /\ FlattenSeq(ds) = f[Len(ds)]
<1> DEFINE f == CHOOSE f : IsFlat(f, ds)
<1>1. IsFlat(f, ds)
  BY FlatExists
<1>2. Len(ds) # 0
  BY EmptySeq
<1>3. FlattenSeq(ds) = f[Len(ds)]
  BY <1>2 DEF FlattenSeq, IsFlat
<1> QED
  BY <1>1, <1>3

\* Every turn is added at the end.
LEMMA FlattenAppend ==
    ASSUME NEW C, NEW ds \in Seq(Seq(C)), NEW s \in Seq(C)
    PROVE  FlattenSeq(Append(ds, s)) = IF ds = <<>> THEN s ELSE FlattenSeq(ds) \o s
<1> DEFINE es == Append(ds, s)
           n == Len(ds)
<1>1. /\ es \in Seq(Seq(C)) /\ es # <<>> /\ n \in Nat /\ Len(es) = n + 1
      /\ es[n + 1] = s /\ \A i \in 1..n : es[i] = ds[i]
  <2> DEFINE T == Seq(C)
  <2>1. s \in T /\ ds \in Seq(T)
    OBVIOUS
  <2> HIDE DEF T
  <2>2. /\ es \in Seq(T) /\ es # <<>> /\ n \in Nat /\ Len(es) = n + 1
        /\ es[n + 1] = s /\ \A i \in 1..n : es[i] = ds[i]
    BY <2>1
  <2> HIDE DEF es, n
  <2> QED
    BY <2>2 DEF T
<1> HIDE DEF es
<1>2. PICK g : IsFlat(g, es) /\ FlattenSeq(es) = g[Len(es)]
  BY <1>1, FlatLast
<1>3. g[n + 1] = IF n + 1 = 1 THEN s ELSE g[n] \o s
  <2>1. n + 1 \in 1..Len(es) /\ (n + 1) - 1 = n
    BY <1>1
  <2> QED
    BY <1>1, <1>2, <2>1 DEF IsFlat
<1>4. CASE ds = <<>>
  <2>1. n = 0
    BY <1>4
  <2> QED
    BY <1>1, <1>2, <1>3, <1>4, <2>1 DEF es
<1>5. CASE ds # <<>>
  <2>1. PICK f : IsFlat(f, ds) /\ FlattenSeq(ds) = f[n]
    BY <1>5, FlatLast
  <2>2. n # 0
    BY <1>5, EmptySeq
  <2>3. n <= Len(ds) /\ n <= Len(es) /\ n \in 1..n
    BY <1>1, <2>2
  <2>4. \A i \in 1..n : f[i] = g[i]
    <3> DEFINE T == Seq(C)
    <3>1. /\ IsFlat(f, ds) /\ IsFlat(g, es) /\ ds \in Seq(T) /\ es \in Seq(T)
          /\ n \in Nat /\ \A i \in 1..n : ds[i] = es[i]
      BY <1>1, <1>2, <2>1
    <3>2. n <= Len(ds) /\ n <= Len(es)
      BY <2>3
    <3> HIDE DEF n, T
    <3> QED
      BY <3>1, <3>2, FlatAgree
  <2>5. n + 1 # 1
    BY <1>1, <2>2
  <2> QED
    BY <1>1, <1>2, <1>3, <1>5, <2>1, <2>3, <2>4, <2>5 DEF es
<1> QED
  BY <1>4, <1>5

\* It is made of what the turns are made of.
LEMMA FlattenType ==
    ASSUME NEW C, NEW ds \in Seq(Seq(C))
    PROVE  FlattenSeq(ds) \in Seq(C)
<1> DEFINE n == Len(ds)
<1>0. n \in Nat /\ \A i \in 1..n : ds[i] \in Seq(C)
  OBVIOUS
<1>1. CASE ds = <<>>
  BY <1>1 DEF FlattenSeq
<1>2. CASE ds # <<>>
  <2>1. PICK f : IsFlat(f, ds) /\ FlattenSeq(ds) = f[n]
    BY <1>2, FlatLast
  <2> DEFINE A == {m \in Nat : m \in 1..n => f[m] \in Seq(C)}
  <2>2. 0 \in A
    OBVIOUS
  <2>3. ASSUME NEW m \in Nat, m \in A
        PROVE  m + 1 \in A
    <3> SUFFICES ASSUME m + 1 \in 1..n PROVE f[m + 1] \in Seq(C)
      OBVIOUS
    <3>1. (m + 1) - 1 = m /\ (m # 0 => m \in 1..n) /\ ds[m + 1] \in Seq(C)
      BY <1>0
    <3>2. f[m + 1] = IF m + 1 = 1 THEN ds[m + 1] ELSE f[m] \o ds[m + 1]
      BY <2>1, <3>1 DEF IsFlat
    <3>3. m # 0 => f[m] \in Seq(C) /\ f[m] \o ds[m + 1] \in Seq(C)
      BY <2>3, <3>1
    <3> QED
      BY <3>1, <3>2, <3>3
  <2> HIDE DEF A
  <2>4. Nat \subseteq A
    BY <2>2, <2>3, SetInduction
  <2>5. n # 0
    BY <1>2, EmptySeq
  <2> QED
    BY <1>0, <2>1, <2>4, <2>5 DEF A
<1> QED
  BY <1>1, <1>2

\* The last turn of a conversation and those before it.
LEMMA LastTurn ==
    ASSUME NEW T, NEW ds \in Seq(T), ds # <<>>
    PROVE  /\ Front(ds) \in Seq(T) /\ Len(Front(ds)) = Len(ds) - 1 /\ Len(ds) \in Nat \ {0}
           /\ \E s \in T : ds = Append(Front(ds), s)
<1> DEFINE es == Front(ds)
           s == ds[Len(ds)]
           as == Append(es, s)
<1>1. Len(ds) \in Nat \ {0} /\ \A i \in 1..Len(ds) : ds[i] \in T
  BY EmptySeq
<1>2. es \in Seq(T) /\ Len(es) = Len(ds) - 1 /\ \A i \in 1..Len(ds) - 1 : es[i] = ds[i]
  <2>1. es = [i \in 1..Len(ds) - 1 |-> ds[i]]
    BY <1>1, SubSeqProperties DEF Front
  <2>2. Len(ds) - 1 \in Nat /\ \A i \in 1..Len(ds) - 1 : i \in 1..Len(ds)
    BY <1>1
  <2> HIDE DEF es
  <2>3. es \in [1..Len(ds) - 1 -> T]
    BY <1>1, <2>1, <2>2
  <2> QED
    BY <2>1, <2>2, <2>3
<1>3. s \in T
  BY <1>1
<1> HIDE DEF es, s
<1>4. /\ as \in Seq(T) /\ Len(as) = Len(ds)
      /\ \A i \in 1..Len(ds) - 1 : as[i] = es[i]
      /\ as[Len(ds)] = s
  BY <1>1, <1>2, <1>3
<1> HIDE DEF as
<1>5. \A i \in 1..Len(ds) : as[i] = ds[i]
  <2>1. \A i \in 1..Len(ds) : i \in 1..Len(ds) - 1 \/ i = Len(ds)
    BY <1>1
  <2> QED
    BY <1>2, <1>4, <2>1 DEF s
<1>6. as = ds
  BY <1>4, <1>5, SeqEqual
<1> QED
  BY <1>1, <1>2, <1>3, <1>6 DEF as, es

\* And without its last turn it is the rest of it.
LEMMA FlattenFront ==
    ASSUME NEW C, NEW ds \in Seq(Seq(C)), ds # <<>>
    PROVE  /\ Front(ds) \in Seq(Seq(C))
           /\ FlattenSeq(Front(ds)) \in Seq(C)
           /\ \E s \in Seq(C) : FlattenSeq(ds) = FlattenSeq(Front(ds)) \o s
<1> DEFINE es == Front(ds)
<1>1. es \in Seq(Seq(C)) /\ \E s \in Seq(C) : ds = Append(es, s)
  <2> DEFINE T == Seq(C)
  <2> HIDE DEF T
  <2>1. ds \in Seq(T)
    BY DEF T
  <2>2. es \in Seq(T) /\ \E s \in T : ds = Append(es, s)
    BY <2>1, LastTurn
  <2> QED
    BY <2>2 DEF T
<1> HIDE DEF es
<1>2. PICK s \in Seq(C) : ds = Append(es, s)
  BY <1>1
<1>5. FlattenSeq(ds) = IF es = <<>> THEN s ELSE FlattenSeq(es) \o s
  BY <1>1, <1>2, FlattenAppend
<1>6. FlattenSeq(es) \in Seq(C)
  BY <1>1, FlattenType
<1>7. es = <<>> => FlattenSeq(es) = <<>>
  BY DEF FlattenSeq
<1>8. <<>> \o s = s
  OBVIOUS
<1>9. FlattenSeq(ds) = FlattenSeq(es) \o s
  BY <1>5, <1>7, <1>8
<1> QED
  BY <1>1, <1>6, <1>9 DEF es

\* What is in time stays so when a later moment is meant.
LEMMA LaterMost ==
    ASSUME NEW s \in Seq(Msgs), NEW a \in Nat, NEW b \in Nat, a <= b, AtMost(s, a)
    PROVE  AtMost(s, b)
<1>1. \A i \in DOMAIN s : s[i].at \in Nat
  <2>1. \A i \in DOMAIN s : s[i] \in Msgs
    OBVIOUS
  <2>2. \A m \in Msgs : m.at \in Nat
    BY DEF Msgs
  <2> QED
    BY <2>1, <2>2
<1> QED
  BY <1>1 DEF AtMost

\* A conversation in two parts is in time when both are.
LEMMA MostOfBoth ==
    ASSUME NEW s \in Seq(Msgs), NEW r \in Seq(Msgs), NEW a \in Nat
    PROVE  AtMost(s \o r, a) <=> AtMost(s, a) /\ AtMost(r, a)
<1> DEFINE q == s \o r
<1>1. /\ q \in Seq(Msgs) /\ DOMAIN q = 1..Len(s) + Len(r) /\ DOMAIN s = 1..Len(s) /\ DOMAIN r = 1..Len(r)
      /\ Len(s) \in Nat /\ Len(r) \in Nat
      /\ \A i \in 1..Len(s) : q[i] = s[i]
      /\ \A i \in 1..Len(r) : q[i + Len(s)] = r[i]
  OBVIOUS
<1> HIDE DEF q
<1>2. \A i \in 1..Len(r) : i + Len(s) \in DOMAIN q
  BY <1>1
<1>3. \A i \in DOMAIN q : i \in 1..Len(s) \/ (i - Len(s) \in 1..Len(r) /\ (i - Len(s)) + Len(s) = i)
  BY <1>1
<1>4. \A i \in 1..Len(s) : i \in DOMAIN q
  BY <1>1
<1>5. ASSUME AtMost(q, a) PROVE AtMost(s, a) /\ AtMost(r, a)
  BY <1>1, <1>2, <1>4, <1>5 DEF AtMost
<1>6. ASSUME AtMost(s, a), AtMost(r, a) PROVE AtMost(q, a)
  <2> SUFFICES ASSUME NEW i \in DOMAIN q, Said(q[i]) PROVE q[i].at <= a
    BY DEF AtMost
  <2>1. CASE i \in 1..Len(s)
    BY <1>1, <1>6, <2>1 DEF AtMost
  <2>2. CASE i - Len(s) \in 1..Len(r) /\ (i - Len(s)) + Len(s) = i
    <3> DEFINE k == i - Len(s)
    <3>1. q[i] = r[k] /\ k \in DOMAIN r
      BY <1>1, <2>2
    <3> HIDE DEF k
    <3> QED
      BY <1>6, <3>1 DEF AtMost
  <2> QED
    BY <1>3, <2>1, <2>2
<1> QED
  BY <1>5, <1>6 DEF q

\* It is in order when both are, and the one is before the other.
LEMMA OrderOfBoth ==
    ASSUME NEW s \in Seq(Msgs), NEW r \in Seq(Msgs)
    PROVE  InOrder(s \o r) <=> InOrder(s) /\ InOrder(r) /\ Before(s, r)
<1> DEFINE q == s \o r
           n == Len(s)
           m == Len(r)
<1>1. /\ q \in Seq(Msgs) /\ DOMAIN q = 1..n + m /\ DOMAIN s = 1..n /\ DOMAIN r = 1..m
      /\ n \in Nat /\ m \in Nat
      /\ \A i \in 1..n : q[i] = s[i]
      /\ \A i \in 1..m : q[i + n] = r[i]
  OBVIOUS
<1> HIDE DEF q, n, m
<1>2. \A i \in 1..m : i + n \in DOMAIN q /\ \A j \in 1..n : j < i + n
  BY <1>1
<1>3. \A i \in DOMAIN q : i \in 1..n \/ \E k \in 1..m : i = k + n
  <2> SUFFICES ASSUME NEW i \in DOMAIN q, i \notin 1..n PROVE \E k \in 1..m : i = k + n
    OBVIOUS
  <2>1. i - n \in 1..m /\ i = (i - n) + n
    BY <1>1
  <2> QED
    BY <2>1
<1>4. \A i \in 1..n : i \in DOMAIN q
  BY <1>1
<1>5. ASSUME InOrder(q) PROVE InOrder(s) /\ InOrder(r) /\ Before(s, r)
  <2>1. InOrder(s)
    BY <1>1, <1>4, <1>5 DEF InOrder
  <2>2. InOrder(r)
    <3> SUFFICES ASSUME NEW i \in 1..m, NEW j \in 1..m, Said(r[i]), Said(r[j]), i < j
                 PROVE  r[i].at <= r[j].at
      BY <1>1 DEF InOrder
    <3>1. i + n < j + n /\ i + n \in DOMAIN q /\ j + n \in DOMAIN q
      BY <1>1, <1>2
    <3>2. q[i + n] = r[i] /\ q[j + n] = r[j]
      BY <1>1
    <3> QED
      BY <1>5, <3>1, <3>2 DEF InOrder
  <2>3. Before(s, r)
    <3> SUFFICES ASSUME NEW i \in 1..n, NEW j \in 1..m, Said(s[i]), Said(r[j])
                 PROVE  s[i].at <= r[j].at
      BY <1>1 DEF Before
    <3>1. i < j + n /\ i \in DOMAIN q /\ j + n \in DOMAIN q
      BY <1>2, <1>4
    <3>2. q[i] = s[i] /\ q[j + n] = r[j]
      BY <1>1
    <3> QED
      BY <1>5, <3>1, <3>2 DEF InOrder
  <2> QED
    BY <2>1, <2>2, <2>3
<1>6. ASSUME InOrder(s), InOrder(r), Before(s, r) PROVE InOrder(q)
  <2> SUFFICES ASSUME NEW i \in DOMAIN q, NEW j \in DOMAIN q, Said(q[i]), Said(q[j]), i < j
               PROVE  q[i].at <= q[j].at
    BY DEF InOrder
  <2>1. CASE i \in 1..n /\ j \in 1..n
    BY <1>1, <1>6, <2>1 DEF InOrder
  <2>2. CASE i \in 1..n /\ \E k \in 1..m : j = k + n
    <3>1. PICK k \in 1..m : j = k + n
      BY <2>2
    <3>2. q[i] = s[i] /\ q[j] = r[k] /\ i \in DOMAIN s /\ k \in DOMAIN r
      BY <1>1, <2>2, <3>1
    <3> QED
      BY <1>6, <3>2 DEF Before
  <2>3. CASE (\E k \in 1..m : i = k + n) /\ (\E k \in 1..m : j = k + n)
    <3>1. PICK k \in 1..m : i = k + n
      BY <2>3
    <3>2. PICK l \in 1..m : j = l + n
      BY <2>3
    <3>3. k < l /\ q[i] = r[k] /\ q[j] = r[l]
      BY <1>1, <3>1, <3>2
    <3> QED
      BY <1>1, <1>6, <3>3 DEF InOrder
  <2>4. CASE (\E k \in 1..m : i = k + n) /\ j \in 1..n
    <3>1. PICK k \in 1..m : i = k + n
      BY <2>4
    <3> QED
      BY <1>1, <2>4, <3>1
  <2> QED
    BY <1>3, <2>1, <2>2, <2>3, <2>4
<1> QED
  BY <1>5, <1>6 DEF q

\* Both parts of a conversation are before what the whole is before.
LEMMA BeforeBoth ==
    ASSUME NEW s \in Seq(Msgs), NEW p \in Seq(Msgs), NEW r \in Seq(Msgs), Before(s \o p, r)
    PROVE  Before(s, r)
<1> DEFINE q == s \o p
<1>1. \A i \in DOMAIN s : i \in DOMAIN q /\ q[i] = s[i]
  OBVIOUS
<1> HIDE DEF q
<1>2. Before(q, r)
  BY DEF q
<1> QED
  BY <1>1, <1>2 DEF Before

\* What is left of a conversation when a turn is taken out of the middle.
LEMMA TakenOut ==
    ASSUME NEW s \in Seq(Msgs), NEW p \in Seq(Msgs), NEW r \in Seq(Msgs)
    PROVE  /\ InOrder((s \o p) \o r) => InOrder(s \o r)
           /\ \A a \in Nat : AtMost((s \o p) \o r, a) => AtMost(s \o r, a)
<1> DEFINE q == s \o p
<1>1. q \in Seq(Msgs)
  OBVIOUS
<1>2. Before(q, r) => Before(s, r)
  BY BeforeBoth
<1>3. InOrder(q) => InOrder(s)
  BY OrderOfBoth
<1>4. \A a \in Nat : AtMost(q, a) => AtMost(s, a)
  BY MostOfBoth
<1> HIDE DEF q
<1>5. InOrder(q \o r) => InOrder(s \o r)
  BY <1>1, <1>2, <1>3, OrderOfBoth
<1>6. \A a \in Nat : AtMost(q \o r, a) => AtMost(s \o r, a)
  BY <1>1, <1>4, MostOfBoth
<1> QED
  BY <1>5, <1>6 DEF q

\* One message more.
LEMMA OneMore ==
    ASSUME NEW s \in Seq(Msgs), NEW m \in Msgs, Said(m) => AtMost(s, m.at)
    PROVE  /\ InOrder(s) => InOrder(Append(s, m))
           /\ \A a \in Nat : AtMost(s, a) /\ (Said(m) => m.at <= a) => AtMost(Append(s, m), a)
<1> DEFINE q == Append(s, m)
           n == Len(s)
<1>1. /\ DOMAIN q = 1..n + 1 /\ DOMAIN s = 1..n /\ n \in Nat
      /\ \A i \in 1..n : q[i] = s[i]
      /\ q[n + 1] = m
  OBVIOUS
<1> HIDE DEF q, n
<1>2. \A i \in DOMAIN q : i \in 1..n \/ i = n + 1
  BY <1>1
<1>3. \A a \in Nat : AtMost(s, a) /\ (Said(m) => m.at <= a) => AtMost(q, a)
  BY <1>1, <1>2 DEF AtMost
<1>4. ASSUME InOrder(s) PROVE InOrder(q)
  <2> SUFFICES ASSUME NEW i \in DOMAIN q, NEW j \in DOMAIN q, Said(q[i]), Said(q[j]), i < j
               PROVE  q[i].at <= q[j].at
    BY DEF InOrder
  <2>1. i \in 1..n
    BY <1>1
  <2>2. CASE j \in 1..n
    BY <1>1, <1>4, <2>1, <2>2 DEF InOrder
  <2>3. CASE j = n + 1
    BY <1>1, <2>1, <2>3 DEF AtMost
  <2> QED
    BY <1>2, <2>2, <2>3
<1> QED
  BY <1>3, <1>4 DEF q

\* What becomes of a turn while it goes on, over what the document holds.
Goes(t, u, c) == /\ u \in Ts /\ Fits(u, c) /\ u.stale = t.stale
                 /\ Shows(t, c) => Shows(u, c)

\* The parts of the state of a turn.
LEMMA TParts ==
    ASSUME NEW t \in Ts
    PROVE  /\ t.staged \in Seq(Msgs) /\ t.drawn \in Seq(Msgs)
           /\ t.answer \in Streams /\ t.thought \in Streams
           /\ t.base \in Nat /\ t.stale \in BOOLEAN
BY DEF Ts

\* And the state of a turn made of its parts.
LEMMA TMade ==
    ASSUME NEW st \in Seq(Msgs), NEW a \in Streams, NEW th \in Streams,
           NEW d \in Seq(Msgs), NEW b \in Nat, NEW x \in BOOLEAN
    PROVE  [staged |-> st, answer |-> a, thought |-> th, drawn |-> d, base |-> b, stale |-> x] \in Ts
BY DEF Ts

\* Push: one message at the end of both.
LEMMA Pushed ==
    ASSUME NEW t \in Ts, NEW m \in Msgs
    PROVE  /\ Push(t, m) \in Ts
           /\ Push(t, m).staged = Append(t.staged, m) /\ Push(t, m).drawn = Append(t.drawn, m)
           /\ Push(t, m).answer = t.answer /\ Push(t, m).thought = t.thought
           /\ Push(t, m).base = t.base /\ Push(t, m).stale = t.stale
<1>1. Append(t.staged, m) \in Seq(Msgs) /\ Append(t.drawn, m) \in Seq(Msgs)
  BY TParts
<1> HIDE DEF Msgs, Streams
<1> QED
  BY <1>1 DEF Push, Ts

\* A message at the end of a conversation in two parts.
LEMMA AtTheEnd ==
    ASSUME NEW s \in Seq(Msgs), NEW r \in Seq(Msgs), NEW m \in Msgs
    PROVE  s \o Append(r, m) = Append(s \o r, m)
<1> DEFINE p == s \o Append(r, m)
           q == Append(s \o r, m)
           n == Len(s)
           k == Len(r)
<1>1. p \in Seq(Msgs) /\ q \in Seq(Msgs) /\ Len(p) = n + k + 1 /\ Len(q) = n + k + 1 /\ n \in Nat /\ k \in Nat
  OBVIOUS
<1>2. \A i \in 1..n + k + 1 : p[i] = q[i]
  <2> SUFFICES ASSUME NEW i \in 1..n + k + 1 PROVE p[i] = q[i]
    OBVIOUS
  <2>1. CASE i \in 1..n
    BY <2>1
  <2>2. CASE i = n + k + 1
    BY <2>2
  <2>3. CASE i \in n + 1..n + k
    BY <2>3
  <2> QED
    BY <1>1, <2>1, <2>2, <2>3
<1>3. p = q
  <2> HIDE DEF p, q
  <2> QED
    BY <1>1, <1>2, SeqEqual
<1> QED
  BY <1>3

\* A message keeps the order when everything before it, and nothing that still
\* streams in, was begun before it.
LEMMA PushGoes ==
    ASSUME NEW t \in Ts, NEW c \in Seq(Msgs), NEW m \in Msgs, Fits(t, c),
           Said(m) => /\ AtMost(c \o t.staged, m.at)
                      /\ t.answer # NoText => m.at <= t.answer
                      /\ t.thought # NoText => m.at <= t.thought
    PROVE  /\ Goes(t, Push(t, m), c)
           /\ \A a \in Nat : UpTo(t, c, a) /\ (Said(m) => m.at <= a) => UpTo(Push(t, m), c, a)
<1> DEFINE u == Push(t, m)
           all == c \o t.staged
<1>1. /\ u \in Ts /\ u.staged = Append(t.staged, m) /\ u.drawn = Append(t.drawn, m)
      /\ u.answer = t.answer /\ u.thought = t.thought /\ u.base = t.base /\ u.stale = t.stale
  BY Pushed
<1>2. /\ t.staged \in Seq(Msgs) /\ t.drawn \in Seq(Msgs) /\ all \in Seq(Msgs) /\ t.base \in Nat
      /\ t.answer \in Streams /\ t.thought \in Streams
  BY TParts
<1> HIDE DEF u
<1>3. c \o u.staged = Append(all, m)
  BY <1>1, <1>2, AtTheEnd
<1>4. all = c \o t.staged
  OBVIOUS
<1> HIDE DEF all
<1>5. InOrder(Append(all, m)) /\ \A a \in Nat : AtMost(all, a) /\ (Said(m) => m.at <= a) => AtMost(Append(all, m), a)
  BY <1>2, <1>4, OneMore DEF Fits
<1>6. t.answer # NoText => t.answer \in Nat /\ AtMost(Append(all, m), t.answer)
  BY <1>2, <1>4, <1>5 DEF Streams, Fits
<1>7. t.thought # NoText => t.thought \in Nat /\ AtMost(Append(all, m), t.thought)
  BY <1>2, <1>4, <1>5 DEF Streams, Fits
<1>8. Len(u.drawn) = u.base + Len(u.staged)
  <2>1. Len(u.drawn) = Len(t.drawn) + 1 /\ Len(u.staged) = Len(t.staged) + 1
    BY <1>1, <1>2
  <2>2. Len(t.drawn) = t.base + Len(t.staged) /\ Len(t.staged) \in Nat
    BY <1>2 DEF Fits
  <2> QED
    BY <1>1, <1>2, <2>1, <2>2
<1>9. Fits(u, c)
  BY <1>1, <1>3, <1>5, <1>6, <1>7, <1>8 DEF Fits
<1>10. Shows(t, c) => Shows(u, c)
  BY <1>1, <1>3, <1>4 DEF Shows
<1>11. \A a \in Nat : UpTo(t, c, a) /\ (Said(m) => m.at <= a) => UpTo(u, c, a)
  BY <1>1, <1>3, <1>4, <1>5 DEF UpTo
<1> QED
  BY <1>1, <1>9, <1>10, <1>11 DEF Goes, u

\* What has streamed in becomes the last message.
LEMMA FlushAnswerGoes ==
    ASSUME NEW t \in Ts, NEW c \in Seq(Msgs), Fits(t, c)
    PROVE  /\ Goes(t, FlushAnswer(t), c)
           /\ \A a \in Nat : UpTo(t, c, a) => UpTo(FlushAnswer(t), c, a)
           /\ FlushAnswer(t).answer = NoText
           /\ FlushAnswer(t).thought = t.thought
<1>1. CASE t.answer = NoText
  BY <1>1 DEF Goes, FlushAnswer
<1>2. CASE t.answer # NoText
  <2> DEFINE m == Message("assistant", t.answer)
             p == Push(t, m)
             u == [p EXCEPT !.answer = NoText]
  <2>1. t.answer \in Nat /\ t.thought = NoText
    BY <1>2, TParts DEF Streams, Fits
  <2>2. m \in Msgs /\ m.at = t.answer
    BY <2>1 DEF Message, Msgs, Kinds
  <2> HIDE DEF m
  <2>3. Goes(t, p, c) /\ \A a \in Nat : UpTo(t, c, a) /\ (Said(m) => m.at <= a) => UpTo(p, c, a)
    BY <1>2, <2>1, <2>2, PushGoes DEF Fits
  <2>4. p \in Ts /\ p.thought = NoText
    BY <2>1, <2>2, Pushed
  <2>5. p.staged = p.staged /\ \A a \in Nat : UpTo(t, c, a) => UpTo(p, c, a)
    BY <1>2, <2>2, <2>3 DEF UpTo
  <2> HIDE DEF p
  <2>6. /\ u \in Ts /\ u.staged = p.staged /\ u.drawn = p.drawn /\ u.base = p.base /\ u.stale = p.stale
        /\ u.answer = NoText /\ u.thought = NoText
    <3> HIDE DEF Msgs
    <3> QED
      BY <2>4 DEF Ts, Streams
  <2> HIDE DEF u
  <2>7. Goes(t, u, c)
    BY <2>3, <2>6 DEF Goes, Fits, Shows
  <2>8. \A a \in Nat : UpTo(t, c, a) => UpTo(u, c, a)
    BY <2>5, <2>6 DEF UpTo
  <2>9. FlushAnswer(t) = u
    BY <1>2 DEF FlushAnswer, u, p, m
  <2> QED
    BY <2>1, <2>6, <2>7, <2>8, <2>9
<1> QED
  BY <1>1, <1>2

\* And so does what was thought.
LEMMA FlushThoughtGoes ==
    ASSUME NEW t \in Ts, NEW c \in Seq(Msgs), Fits(t, c)
    PROVE  /\ Goes(t, FlushThought(t), c)
           /\ \A a \in Nat : UpTo(t, c, a) => UpTo(FlushThought(t), c, a)
           /\ FlushThought(t).thought = NoText
           /\ FlushThought(t).answer = t.answer
<1>1. CASE t.thought = NoText
  BY <1>1 DEF Goes, FlushThought
<1>2. CASE t.thought # NoText
  <2> DEFINE m == Message("thought", t.thought)
             p == Push(t, m)
             u == [p EXCEPT !.thought = NoText]
  <2>1. t.thought \in Nat /\ t.answer = NoText
    BY <1>2, TParts DEF Streams, Fits
  <2>2. m \in Msgs /\ m.at = t.thought
    BY <2>1 DEF Message, Msgs, Kinds
  <2> HIDE DEF m
  <2>3. Goes(t, p, c) /\ \A a \in Nat : UpTo(t, c, a) /\ (Said(m) => m.at <= a) => UpTo(p, c, a)
    BY <1>2, <2>1, <2>2, PushGoes DEF Fits
  <2>4. p \in Ts /\ p.answer = NoText
    BY <2>1, <2>2, Pushed
  <2>5. \A a \in Nat : UpTo(t, c, a) => UpTo(p, c, a)
    BY <1>2, <2>2, <2>3 DEF UpTo
  <2> HIDE DEF p
  <2>6. /\ u \in Ts /\ u.staged = p.staged /\ u.drawn = p.drawn /\ u.base = p.base /\ u.stale = p.stale
        /\ u.answer = NoText /\ u.thought = NoText
    <3> HIDE DEF Msgs
    <3> QED
      BY <2>4 DEF Ts, Streams
  <2> HIDE DEF u
  <2>7. Goes(t, u, c)
    BY <2>3, <2>6 DEF Goes, Fits, Shows
  <2>8. \A a \in Nat : UpTo(t, c, a) => UpTo(u, c, a)
    BY <2>5, <2>6 DEF UpTo
  <2>9. FlushThought(t) = u
    BY <1>2 DEF FlushThought, u, p, m
  <2> QED
    BY <2>1, <2>6, <2>7, <2>8, <2>9
<1> QED
  BY <1>1, <1>2

\* The flush of both.
LEMMA FlushAllGoes ==
    ASSUME NEW t \in Ts, NEW c \in Seq(Msgs), Fits(t, c)
    PROVE  /\ Goes(t, FlushAll(t), c)
           /\ \A a \in Nat : UpTo(t, c, a) => UpTo(FlushAll(t), c, a)
           /\ FlushAll(t).answer = NoText /\ FlushAll(t).thought = NoText
<1> DEFINE f == FlushThought(t)
<1>1. /\ Goes(t, f, c) /\ \A a \in Nat : UpTo(t, c, a) => UpTo(f, c, a)
      /\ f.thought = NoText
  BY FlushThoughtGoes
<1> HIDE DEF f
<1>2. f \in Ts /\ Fits(f, c)
  BY <1>1 DEF Goes
<1>3. /\ Goes(f, FlushAnswer(f), c) /\ \A a \in Nat : UpTo(f, c, a) => UpTo(FlushAnswer(f), c, a)
      /\ FlushAnswer(f).answer = NoText /\ FlushAnswer(f).thought = f.thought
  BY <1>2, FlushAnswerGoes
<1> QED
  BY <1>1, <1>3 DEF Goes, FlushAll, f

\* A word begins a text, or goes on with the one that streams in.
LEMMA BeginAnswer ==
    ASSUME NEW t \in Ts, NEW c \in Seq(Msgs), NEW at \in Nat, Fits(t, c), UpTo(t, c, at), t.thought = NoText
    PROVE  LET u == [t EXCEPT !.answer = Begun(@, at)]
           IN /\ Goes(t, u, c)
              /\ \A a \in Nat : UpTo(t, c, a) /\ at <= a => UpTo(u, c, a)
<1> DEFINE b == Begun(t.answer, at)
           u == [t EXCEPT !.answer = b]
<1>1. b \in Nat /\ (t.answer # NoText => b = t.answer) /\ (t.answer = NoText => b = at)
  BY TParts DEF Begun, Streams
<1> HIDE DEF b
<1>2. /\ u \in Ts /\ u.staged = t.staged /\ u.drawn = t.drawn /\ u.base = t.base /\ u.stale = t.stale
      /\ u.answer = b /\ u.thought = t.thought
  <2> HIDE DEF Msgs
  <2> QED
    BY <1>1 DEF Ts, Streams
<1> HIDE DEF u
<1>3. AtMost(c \o t.staged, b)
  BY <1>1 DEF Fits, UpTo
<1>4. Goes(t, u, c)
  BY <1>2, <1>3 DEF Goes, Fits, Shows
<1>5. \A a \in Nat : UpTo(t, c, a) /\ at <= a => UpTo(u, c, a)
  BY <1>1, <1>2 DEF UpTo
<1> QED
  BY <1>4, <1>5 DEF u, b

LEMMA BeginThought ==
    ASSUME NEW t \in Ts, NEW c \in Seq(Msgs), NEW at \in Nat, Fits(t, c), UpTo(t, c, at), t.answer = NoText
    PROVE  LET u == [t EXCEPT !.thought = Begun(@, at)]
           IN /\ Goes(t, u, c)
              /\ \A a \in Nat : UpTo(t, c, a) /\ at <= a => UpTo(u, c, a)
<1> DEFINE b == Begun(t.thought, at)
           u == [t EXCEPT !.thought = b]
<1>1. b \in Nat /\ (t.thought # NoText => b = t.thought) /\ (t.thought = NoText => b = at)
  BY TParts DEF Begun, Streams
<1> HIDE DEF b
<1>2. /\ u \in Ts /\ u.staged = t.staged /\ u.drawn = t.drawn /\ u.base = t.base /\ u.stale = t.stale
      /\ u.answer = t.answer /\ u.thought = b
  <2> HIDE DEF Msgs
  <2> QED
    BY <1>1 DEF Ts, Streams
<1> HIDE DEF u
<1>3. AtMost(c \o t.staged, b)
  BY <1>1 DEF Fits, UpTo
<1>4. Goes(t, u, c)
  BY <1>2, <1>3 DEF Goes, Fits, Shows
<1>5. \A a \in Nat : UpTo(t, c, a) /\ at <= a => UpTo(u, c, a)
  BY <1>1, <1>2 DEF UpTo
<1> QED
  BY <1>4, <1>5 DEF u, b

\* Every update keeps the order, when what it brings is later than what is there.
LEMMA ApplyGoes ==
    ASSUME NEW t \in Ts, NEW c \in Seq(Msgs), NEW kind \in Spoken, NEW at \in Nat,
           Fits(t, c), UpTo(t, c, at)
    PROVE  /\ Goes(t, Apply(t, kind, at), c)
           /\ \A a \in Nat : UpTo(t, c, a) /\ at <= a => UpTo(Apply(t, kind, at), c, a)
<1>1. CASE kind = "assistant"
  <2> DEFINE f == FlushThought(t)
  <2>1. /\ Goes(t, f, c) /\ \A a \in Nat : UpTo(t, c, a) => UpTo(f, c, a)
        /\ f.thought = NoText
    BY FlushThoughtGoes
  <2>2. Apply(t, kind, at) = [f EXCEPT !.answer = Begun(@, at)]
    BY <1>1 DEF Apply, Stream
  <2> HIDE DEF f
  <2>3. f \in Ts /\ Fits(f, c) /\ UpTo(f, c, at)
    BY <2>1 DEF Goes
  <2>4. /\ Goes(f, Apply(t, kind, at), c)
        /\ \A a \in Nat : UpTo(f, c, a) /\ at <= a => UpTo(Apply(t, kind, at), c, a)
    BY <2>1, <2>2, <2>3, BeginAnswer
  <2> QED
    BY <2>1, <2>4 DEF Goes
<1>2. CASE kind = "thought"
  <2> DEFINE f == FlushAnswer(t)
  <2>1. /\ Goes(t, f, c) /\ \A a \in Nat : UpTo(t, c, a) => UpTo(f, c, a)
        /\ f.answer = NoText
    BY FlushAnswerGoes
  <2>2. Apply(t, kind, at) = [f EXCEPT !.thought = Begun(@, at)]
    BY <1>2 DEF Apply, Stream
  <2> HIDE DEF f
  <2>3. f \in Ts /\ Fits(f, c) /\ UpTo(f, c, at)
    BY <2>1 DEF Goes
  <2>4. /\ Goes(f, Apply(t, kind, at), c)
        /\ \A a \in Nat : UpTo(f, c, a) /\ at <= a => UpTo(Apply(t, kind, at), c, a)
    BY <2>1, <2>2, <2>3, BeginThought
  <2> QED
    BY <2>1, <2>4 DEF Goes
<1>3. CASE kind = "acp_tool"
  <2> DEFINE f == FlushAll(t)
             m == Message("acp_tool", at)
  <2>1. /\ Goes(t, f, c) /\ \A a \in Nat : UpTo(t, c, a) => UpTo(f, c, a)
        /\ f.answer = NoText /\ f.thought = NoText
    BY FlushAllGoes
  <2>2. Apply(t, kind, at) = Push(f, m)
    BY <1>3 DEF Apply
  <2>3. m \in Msgs /\ m.at = at
    BY DEF Message, Msgs, Kinds
  <2> HIDE DEF f, m
  <2>4. f \in Ts /\ Fits(f, c) /\ UpTo(f, c, at)
    BY <2>1 DEF Goes
  <2>5. AtMost(c \o f.staged, m.at)
    BY <2>3, <2>4 DEF UpTo
  <2>6. /\ Goes(f, Push(f, m), c)
        /\ \A a \in Nat : UpTo(f, c, a) /\ (Said(m) => m.at <= a) => UpTo(Push(f, m), c, a)
    BY <2>1, <2>3, <2>4, <2>5, PushGoes
  <2> QED
    BY <2>1, <2>2, <2>3, <2>6 DEF Goes
<1>4. CASE kind = "plan"
  <2> DEFINE m == Message("plan", at)
  <2>1. Apply(t, kind, at) = UpsertPlan(t, at)
    BY <1>4 DEF Apply
  <2>2. CASE \E i \in DOMAIN t.staged : t.staged[i].kind = "plan"
    <3>1. UpsertPlan(t, at) = t
      BY <2>2 DEF UpsertPlan
    <3> QED
      BY <2>1, <3>1 DEF Goes
  <2>3. CASE ~\E i \in DOMAIN t.staged : t.staged[i].kind = "plan"
    <3>1. UpsertPlan(t, at) = Push(t, m)
      BY <2>3 DEF UpsertPlan
    <3>2. m \in Msgs /\ ~Said(m)
      BY DEF Message, Msgs, Kinds, Said
    <3> HIDE DEF m
    <3> QED
      BY <2>1, <3>1, <3>2, PushGoes
  <2> QED
    BY <2>2, <2>3
<1> QED
  BY <1>1, <1>2, <1>3, <1>4 DEF Spoken

\* The note of a failure, which is not part of the order.
LEMMA NoteGoes ==
    ASSUME NEW t \in Ts, NEW c \in Seq(Msgs), NEW at \in Nat, Fits(t, c)
    PROVE  /\ Goes(t, Push(t, Message("system", at)), c)
           /\ \A a \in Nat : UpTo(t, c, a) => UpTo(Push(t, Message("system", at)), c, a)
<1> DEFINE m == Message("system", at)
<1>1. m \in Msgs /\ ~Said(m)
  BY DEF Message, Msgs, Kinds, Said
<1> HIDE DEF m
<1>2. Goes(t, Push(t, m), c) /\ \A a \in Nat : UpTo(t, c, a) => UpTo(Push(t, m), c, a)
  BY <1>1, PushGoes
<1> QED
  BY <1>2 DEF m

\* The question that begins a turn.
LEMMA QuestionGoes ==
    ASSUME NEW t \in Ts, NEW c \in Seq(Msgs), NEW at \in Nat, Fits(t, c), UpTo(t, c, at),
           t.answer = NoText, t.thought = NoText
    PROVE  /\ Goes(t, Push(t, Message("user", at)), c)
           /\ \A a \in Nat : UpTo(t, c, a) /\ at <= a => UpTo(Push(t, Message("user", at)), c, a)
<1> DEFINE m == Message("user", at)
<1>1. m \in Msgs /\ m.at = at
  BY DEF Message, Msgs, Kinds
<1>2. AtMost(c \o t.staged, m.at)
  BY <1>1 DEF UpTo
<1> HIDE DEF m
<1>3. Goes(t, Push(t, m), c) /\ \A a \in Nat : UpTo(t, c, a) /\ (Said(m) => m.at <= a) => UpTo(Push(t, m), c, a)
  BY <1>1, <1>2, PushGoes
<1> QED
  BY <1>1, <1>3 DEF m

\* What is left when the turn is over, and what it leaves for the document.
LEMMA SettledParts ==
    ASSUME NEW t \in Ts, NEW c \in Seq(Msgs), Fits(t, c)
    PROVE  /\ Settled(t) \in Ts
           /\ Settled(t).staged = <<>> /\ Settled(t).answer = NoText /\ Settled(t).thought = NoText
           /\ ~Settled(t).stale
           /\ Finished(t).staged \in Seq(Msgs)
           /\ InOrder(c \o Finished(t).staged) /\ InOrder(c)
           /\ \A a \in Nat : UpTo(t, c, a) => AtMost(c \o Finished(t).staged, a) /\ AtMost(c, a)
           /\ Len(Settled(t).drawn) = Settled(t).base
           /\ Shows(t, c) => Settled(t).drawn = c \o Finished(t).staged
<1> DEFINE f == FlushAll(t)
           u == [f EXCEPT !.staged = <<>>, !.stale = FALSE, !.base = Len(f.drawn)]
<1>1. /\ Goes(t, f, c) /\ \A a \in Nat : UpTo(t, c, a) => UpTo(f, c, a)
      /\ f.answer = NoText /\ f.thought = NoText
  BY FlushAllGoes
<1>2. Settled(t) = u /\ Finished(t) = f
  BY DEF Settled, Finished
<1> HIDE DEF f
<1>3. f \in Ts /\ f.staged \in Seq(Msgs) /\ f.drawn \in Seq(Msgs) /\ Len(f.drawn) \in Nat /\ <<>> \in Seq(Msgs)
  BY <1>1, TParts DEF Goes
<1>4. /\ u \in Ts /\ u.staged = <<>> /\ u.answer = NoText /\ u.thought = NoText /\ ~u.stale
      /\ u.drawn = f.drawn /\ u.base = Len(f.drawn)
  <2> HIDE DEF Msgs, Streams
  <2> QED
    BY <1>1, <1>3 DEF Ts
<1> HIDE DEF u
<1>5. InOrder(c \o f.staged) /\ \A a \in Nat : UpTo(t, c, a) => AtMost(c \o f.staged, a)
  BY <1>1 DEF Goes, Fits, UpTo
<1>6. InOrder(c)
  BY <1>3, <1>5, OrderOfBoth
<1>7. \A a \in Nat : UpTo(t, c, a) => AtMost(c, a)
  BY <1>3, <1>5, MostOfBoth
<1>8. Shows(t, c) => u.drawn = c \o f.staged
  BY <1>1, <1>4 DEF Goes, Shows
<1>9. Len(u.drawn) = u.base
  BY <1>4
<1> QED
  BY <1>2, <1>3, <1>4, <1>5, <1>6, <1>7, <1>8, <1>9

\* A turn that is over, over any conversation in order.
LEMMA IdleFits ==
    ASSUME NEW t \in Ts, NEW c \in Seq(Msgs), t.staged = <<>>, t.answer = NoText, t.thought = NoText,
           Len(t.drawn) = t.base, InOrder(c)
    PROVE  /\ Fits(t, c)
           /\ \A a \in Nat : AtMost(c, a) => UpTo(t, c, a)
           /\ c \o t.staged = c
<1>1. c \o t.staged = c
  <2>1. c \o <<>> = c
    OBVIOUS
  <2> QED
    BY <2>1
<1>2. Len(t.drawn) = t.base + Len(t.staged)
  <2>1. Len(<<>>) = 0 /\ t.base \in Nat /\ t.base + 0 = t.base
    BY TParts
  <2> QED
    BY <2>1
<1> QED
  BY <1>1, <1>2 DEF Fits, UpTo

\* What is drawn when the document is adopted.
LEMMA AdoptGoes ==
    ASSUME NEW t \in Ts, NEW c \in Seq(Msgs), Fits(t, c), ~t.stale => Shows(t, c)
    PROVE  LET u == Adopt(t, c)
           IN /\ u \in Ts /\ Fits(u, c) /\ ~u.stale /\ Shows(u, c)
              /\ \A a \in Nat : UpTo(t, c, a) => UpTo(u, c, a)
              /\ u.staged = t.staged /\ u.answer = t.answer /\ u.thought = t.thought
<1>1. CASE ~t.stale
  BY <1>1 DEF Adopt
<1>2. CASE t.stale
  <2> DEFINE d == c \o t.staged
             u == [t EXCEPT !.stale = FALSE, !.drawn = d, !.base = Len(c)]
  <2>1. d \in Seq(Msgs) /\ Len(d) = Len(c) + Len(t.staged) /\ Len(c) \in Nat
    BY TParts
  <2>2. Adopt(t, c) = u
    BY <1>2 DEF Adopt
  <2>3. d = c \o t.staged
    OBVIOUS
  <2> HIDE DEF d
  <2>4. /\ u \in Ts /\ u.staged = t.staged /\ u.drawn = d /\ u.base = Len(c) /\ ~u.stale
        /\ u.answer = t.answer /\ u.thought = t.thought
    <3> HIDE DEF Msgs, Streams
    <3> QED
      BY <2>1 DEF Ts
  <2> HIDE DEF u
  <2>5. Fits(u, c) /\ Shows(u, c)
    BY <2>1, <2>3, <2>4 DEF Fits, Shows
  <2>6. \A a \in Nat : UpTo(t, c, a) => UpTo(u, c, a)
    BY <2>4 DEF UpTo
  <2> QED
    BY <2>2, <2>4, <2>5, <2>6
<1> QED
  BY <1>1, <1>2

\* A view that is marked stale keeps its turn.
LEMMA StaleGoes ==
    ASSUME NEW t \in Ts, NEW c \in Seq(Msgs)
    PROVE  LET u == [t EXCEPT !.stale = TRUE]
           IN /\ u \in Ts /\ u.stale
              /\ Fits(t, c) => Fits(u, c)
              /\ \A a \in Nat : UpTo(t, c, a) => UpTo(u, c, a)
              /\ u.staged = t.staged /\ u.answer = t.answer /\ u.thought = t.thought
<1> DEFINE u == [t EXCEPT !.stale = TRUE]
<1>1. /\ u \in Ts /\ u.staged = t.staged /\ u.drawn = t.drawn /\ u.base = t.base /\ u.stale
      /\ u.answer = t.answer /\ u.thought = t.thought
  <2> HIDE DEF Msgs, Streams
  <2> QED
    BY DEF Ts
<1> HIDE DEF u
<1>2. Fits(t, c) => Fits(u, c)
  BY <1>1 DEF Fits
<1>3. \A a \in Nat : UpTo(t, c, a) => UpTo(u, c, a)
  BY <1>1 DEF UpTo
<1> QED
  BY <1>1, <1>2, <1>3 DEF u

\* A turn over a conversation that lost one of its earlier turns.
LEMMA ShorterFits ==
    ASSUME NEW t \in Ts, NEW c \in Seq(Msgs), NEW s \in Seq(Msgs)
    PROVE  /\ Fits(t, c \o s) => Fits(t, c)
           /\ \A a \in Nat : UpTo(t, c \o s, a) => UpTo(t, c, a)
<1>1. t.staged \in Seq(Msgs) /\ t.answer \in Streams /\ t.thought \in Streams
  BY TParts
<1>2. /\ InOrder((c \o s) \o t.staged) => InOrder(c \o t.staged)
      /\ \A a \in Nat : AtMost((c \o s) \o t.staged, a) => AtMost(c \o t.staged, a)
  BY <1>1, TakenOut
<1>3. Fits(t, c \o s) => Fits(t, c)
  BY <1>1, <1>2 DEF Fits, Streams
<1>4. \A a \in Nat : UpTo(t, c \o s, a) => UpTo(t, c, a)
  BY <1>2 DEF UpTo
<1> QED
  BY <1>3, <1>4

\* A conversation is in time up to any later moment.
LEMMA LaterUpTo ==
    ASSUME NEW t \in Ts, NEW c \in Seq(Msgs), NEW a \in Nat, NEW b \in Nat, a <= b, UpTo(t, c, a)
    PROVE  UpTo(t, c, b)
<1> DEFINE q == c \o t.staged
<1>1. q \in Seq(Msgs) /\ t.answer \in Streams /\ t.thought \in Streams
  BY TParts
<1>2. AtMost(q, a)
  BY DEF UpTo
<1> HIDE DEF q
<1>3. AtMost(q, b)
  BY <1>1, <1>2, LaterMost
<1> QED
  BY <1>1, <1>3 DEF UpTo, q, Streams

\* A new view, over what the document holds.
LEMMA NewFits ==
    ASSUME NEW c \in Seq(Msgs), InOrder(c)
    PROVE  LET t == NewTranscript(c)
           IN /\ t \in Ts /\ Fits(t, c) /\ Shows(t, c) /\ ~t.stale
              /\ \A a \in Nat : AtMost(c, a) => UpTo(t, c, a)
              /\ t.staged = <<>> /\ t.answer = NoText /\ t.thought = NoText
<1> DEFINE t == NewTranscript(c)
<1>1. /\ t \in Ts /\ t.staged = <<>> /\ t.answer = NoText /\ t.thought = NoText
      /\ t.drawn = c /\ t.base = Len(c) /\ ~t.stale
  <2>1. <<>> \in Seq(Msgs) /\ Len(c) \in Nat
    OBVIOUS
  <2> HIDE DEF Msgs
  <2> QED
    BY <2>1 DEF NewTranscript, Ts, Streams
<1> HIDE DEF t
<1>2. Fits(t, c) /\ (\A a \in Nat : AtMost(c, a) => UpTo(t, c, a)) /\ c \o t.staged = c
  BY <1>1, IdleFits
<1>3. Shows(t, c)
  BY <1>1, <1>2 DEF Shows
<1> QED
  BY <1>1, <1>2, <1>3 DEF t

\* A conversation that fits reads in the order it happened.
LEMMA FitsReads ==
    ASSUME NEW t \in Ts, NEW c \in Seq(Msgs), Fits(t, c)
    PROVE  Chronological(t, c)
BY DEF Fits, InOrder, AtMost, Chronological

-----------------------------------------------------------------------------
\* The parts of a view.
LEMMA VParts ==
    ASSUME NEW v \in Views
    PROVE  /\ v.session \in Nat \cup {None} /\ v.pending \in Nat \cup {None}
           /\ v.opening \in BOOLEAN /\ v.queued \in BOOLEAN /\ v.loading \in BOOLEAN
           /\ v.t \in Ts /\ v # NoView
<1> HIDE DEF Ts
<1>1. v.live = TRUE /\ NoView.live = FALSE
  BY DEF Views, NoView
<1> QED
  BY <1>1 DEF Views

\* A view with another turn, or another state of the same.
LEMMA VTurn ==
    ASSUME NEW v \in Views, NEW u \in Ts
    PROVE  LET w == [v EXCEPT !.t = u]
           IN /\ w \in Views /\ w.t = u /\ w.session = v.session /\ w.pending = v.pending
              /\ w.opening = v.opening /\ w.queued = v.queued /\ w.loading = v.loading
<1> HIDE DEF Ts
<1> QED
  BY DEF Views

\* A view whose turn is over.
LEMMA VClosed ==
    ASSUME NEW v \in Views, NEW u \in Ts
    PROVE  LET w == [v EXCEPT !.loading = FALSE, !.t = u]
           IN /\ w \in Views /\ w.t = u /\ w.session = v.session /\ w.pending = v.pending
              /\ w.opening = v.opening /\ w.queued = v.queued /\ w.loading = FALSE
<1> HIDE DEF Ts
<1> QED
  BY DEF Views

\* A view whose turn begins.
LEMMA VAsking ==
    ASSUME NEW v \in Views, NEW u \in Ts
    PROVE  LET w == [v EXCEPT !.loading = TRUE, !.t = u]
           IN /\ w \in Views /\ w.t = u /\ w.session = v.session /\ w.pending = v.pending
              /\ w.opening = v.opening /\ w.queued = v.queued /\ w.loading = TRUE
<1> HIDE DEF Ts
<1> QED
  BY DEF Views

\* A view that opens a session, or does no more.
LEMMA VOpening ==
    ASSUME NEW v \in Views, NEW b \in BOOLEAN
    PROVE  LET w == [v EXCEPT !.queued = b, !.opening = b]
           IN /\ w \in Views /\ w.t = v.t /\ w.session = v.session /\ w.pending = v.pending
              /\ w.opening = b /\ w.queued = b /\ w.loading = v.loading
<1> HIDE DEF Ts
<1> QED
  BY DEF Views

\* A view whose turn is over before it began.
LEMMA VUnanswerable ==
    ASSUME NEW v \in Views
    PROVE  LET w == [v EXCEPT !.loading = FALSE, !.queued = TRUE]
           IN /\ w \in Views /\ w.t = v.t /\ w.session = v.session /\ w.pending = v.pending
              /\ w.opening = v.opening /\ w.queued = TRUE /\ w.loading = FALSE
<1> HIDE DEF Ts
<1> QED
  BY DEF Views

LEMMA VNotOpening ==
    ASSUME NEW v \in Views
    PROVE  LET w == [v EXCEPT !.opening = FALSE, !.queued = FALSE]
           IN /\ w \in Views /\ w.t = v.t /\ w.session = v.session /\ w.pending = v.pending
              /\ w.opening = FALSE /\ w.queued = FALSE /\ w.loading = v.loading
<1> HIDE DEF Ts
<1> QED
  BY DEF Views

\* A view that has its session.
LEMMA VOpened ==
    ASSUME NEW v \in Views, NEW s \in Nat
    PROVE  LET w == [v EXCEPT !.opening = FALSE, !.queued = FALSE, !.session = s]
           IN /\ w \in Views /\ w.t = v.t /\ w.session = s /\ w.pending = v.pending
              /\ w.opening = FALSE /\ w.queued = FALSE /\ w.loading = v.loading
<1> HIDE DEF Ts
<1> QED
  BY DEF Views

\* A view with another permission request, or none.
LEMMA VPending ==
    ASSUME NEW v \in Views, NEW p \in Nat \cup {None}
    PROVE  LET w == [v EXCEPT !.pending = p]
           IN /\ w \in Views /\ w.t = v.t /\ w.session = v.session /\ w.pending = p
              /\ w.opening = v.opening /\ w.queued = v.queued /\ w.loading = v.loading
<1> HIDE DEF Ts
<1> QED
  BY DEF Views

\* A new view.
LEMMA VNew ==
    ASSUME NEW u \in Ts
    PROVE  LET w == [live |-> TRUE, session |-> None, opening |-> FALSE, queued |-> FALSE,
                     pending |-> None, loading |-> FALSE, t |-> u]
           IN /\ w \in Views /\ w.t = u /\ w.session = None /\ w.pending = None
              /\ w.opening = FALSE /\ w.queued = FALSE /\ w.loading = FALSE
<1> HIDE DEF Ts
<1> QED
  BY DEF Views

\* The view of a node that has one, and what the document holds of it.
LEMMA Viewed ==
    ASSUME Typed, NEW n \in Nodes
    PROVE  /\ Live(n) => view[n] \in Views /\ view[n].t \in Ts
           /\ ~Live(n) => view[n] = NoView
           /\ Text(n) \in Seq(Msgs)
           /\ doc[n] \in Seq(Seq(Msgs))
<1>1. view[n] \in Views \cup {NoView} /\ doc[n] \in Seq(Seq(Msgs))
  <2> HIDE DEF Views, NoView, Msgs
  <2> QED
    BY DEF Typed
<1>2. Text(n) \in Seq(Msgs)
  BY <1>1, FlattenType DEF Text
<1> QED
  BY <1>1, <1>2, VParts DEF Live

\* One view is replaced.
LEMMA OneView ==
    ASSUME Typed, NEW n \in Nodes, NEW w \in Views \cup {NoView}, view' = [view EXCEPT ![n] = w]
    PROVE  /\ view' \in [Nodes -> Views \cup {NoView}]
           /\ view'[n] = w
           /\ \A m \in Nodes : m # n => view'[m] = view[m]
<1> HIDE DEF Views, NoView
<1> QED
  BY DEF Typed

\* A turn goes into the document.
LEMMA OneTurn ==
    ASSUME Typed, NEW n \in Nodes, NEW s \in Seq(Msgs), doc' = [doc EXCEPT ![n] = Append(@, s)]
    PROVE  /\ doc' \in [Nodes -> Seq(Seq(Msgs))]
           /\ Text(n)' = Text(n) \o s
           /\ \A m \in Nodes : m # n => Text(m)' = Text(m)
<1>1. doc[n] \in Seq(Seq(Msgs)) /\ Text(n) \in Seq(Msgs)
  BY Viewed
<1> DEFINE ds == doc[n]
           T == Seq(Msgs)
<1>2. Append(ds, s) \in Seq(T)
  <2>1. ds \in Seq(T) /\ s \in T
    BY <1>1
  <2> HIDE DEF ds, T
  <2> QED
    BY <2>1
<1>3. /\ doc' \in [Nodes -> Seq(T)] /\ doc'[n] = Append(ds, s)
      /\ \A m \in Nodes : m # n => doc'[m] = doc[m]
  <2> HIDE DEF T
  <2> QED
    BY <1>2 DEF Typed, T
<1>4. FlattenSeq(Append(ds, s)) = IF ds = <<>> THEN s ELSE FlattenSeq(ds) \o s
  BY <1>1, FlattenAppend
<1>5. ds = <<>> => FlattenSeq(ds) = <<>>
  BY DEF FlattenSeq
<1>6. <<>> \o s = s
  OBVIOUS
<1>7. FlattenSeq(Append(ds, s)) = FlattenSeq(ds) \o s
  BY <1>4, <1>5, <1>6
<1> QED
  BY <1>3, <1>7 DEF Text

\* The turn of a node ends: what it staged goes into the document, or is lost with the page.
LEMMA FinishGoes ==
    ASSUME Typed, NEW n \in Nodes, NEW v \in Views, NEW u \in Ts, Fits(u, Text(n)), FinishTurn(n, v, u)
    PROVE  /\ doc' \in [Nodes -> Seq(Seq(Msgs))]
           /\ view' \in [Nodes -> Views \cup {NoView}]
           /\ \A m \in Nodes : m # n => view'[m] = view[m] /\ Text(m)' = Text(m)
           /\ view'[n] \in Views /\ view'[n].t \in Ts /\ Idle(view'[n]) /\ ~view'[n].loading
           /\ view'[n].session = v.session /\ view'[n].pending = v.pending /\ view'[n].opening = v.opening
           /\ Fits(view'[n].t, Text(n)')
           /\ \A a \in Nat : UpTo(u, Text(n), a) => UpTo(view'[n].t, Text(n)', a)
           /\ n \in here /\ Shows(u, Text(n)) => Shows(view'[n].t, Text(n)')
<1> DEFINE c == Text(n)
           s == Finished(u).staged
           x == Settled(u)
           w == Closed(v, u)
<1>1. c \in Seq(Msgs)
  BY Viewed
<1>2. /\ x \in Ts /\ x.staged = <<>> /\ x.answer = NoText /\ x.thought = NoText
      /\ s \in Seq(Msgs) /\ InOrder(c \o s) /\ InOrder(c)
      /\ \A a \in Nat : UpTo(u, c, a) => AtMost(c \o s, a) /\ AtMost(c, a)
      /\ Len(x.drawn) = x.base
      /\ Shows(u, c) => x.drawn = c \o s
  <2> HIDE DEF c
  <2>1. Fits(u, c)
    BY DEF c
  <2> QED
    BY <1>1, <2>1, SettledParts
<1>3. w = [v EXCEPT !.loading = FALSE, !.t = x]
  BY DEF Closed
<1>4. /\ view' = [view EXCEPT ![n] = w]
      /\ doc' = IF n \in here /\ s # <<>> THEN [doc EXCEPT ![n] = Append(@, s)] ELSE doc
  BY DEF FinishTurn
<1> HIDE DEF x, w
<1>5. /\ w \in Views /\ w.t = x /\ w.session = v.session /\ w.pending = v.pending
      /\ w.opening = v.opening /\ w.loading = FALSE
  BY <1>2, <1>3, VClosed
<1>6. /\ view' \in [Nodes -> Views \cup {NoView}] /\ view'[n] = w
      /\ \A m \in Nodes : m # n => view'[m] = view[m]
  BY <1>4, <1>5, OneView
<1>7. Idle(w)
  BY <1>2, <1>5 DEF Idle
<1> HIDE DEF s
<1>8. CASE n \in here /\ s # <<>>
  <2>1. /\ doc' \in [Nodes -> Seq(Seq(Msgs))] /\ Text(n)' = c \o s
        /\ \A m \in Nodes : m # n => Text(m)' = Text(m)
    BY <1>2, <1>4, <1>8, OneTurn
  <2>2. c \o s \in Seq(Msgs)
    BY <1>1, <1>2
  <2> DEFINE d == c \o s
  <2>3. d \in Seq(Msgs) /\ InOrder(d)
    BY <1>2, <2>2
  <2>4. Text(n)' = d /\ (Shows(u, c) => x.drawn = d) /\ \A a \in Nat : UpTo(u, c, a) => AtMost(d, a)
    BY <1>2, <2>1
  <2> HIDE DEF d, c
  <2>5. Fits(x, d) /\ (\A a \in Nat : AtMost(d, a) => UpTo(x, d, a)) /\ d \o x.staged = d
    BY <1>2, <2>3, IdleFits
  <2>6. Shows(u, c) => Shows(x, d)
    BY <2>4, <2>5 DEF Shows
  <2> QED
    BY <1>2, <1>5, <1>6, <1>7, <2>1, <2>4, <2>5, <2>6 DEF c
<1>9. CASE ~(n \in here /\ s # <<>>)
  <2>1. doc' = doc
    BY <1>4, <1>9
  <2>2. doc' \in [Nodes -> Seq(Seq(Msgs))] /\ \A m \in Nodes : Text(m)' = Text(m)
    BY <2>1 DEF Typed, Text
  <2>3. c \o <<>> = c
    BY <1>1
  <2>4. Text(n)' = c
    BY <2>2
  <2> HIDE DEF c
  <2>5. Fits(x, c) /\ (\A a \in Nat : AtMost(c, a) => UpTo(x, c, a)) /\ c \o x.staged = c
    BY <1>1, <1>2, IdleFits
  <2>6. n \in here /\ Shows(u, c) => Shows(x, c)
    <3>1. n \in here => s = <<>>
      BY <1>9
    <3> QED
      BY <1>2, <2>3, <2>5, <3>1 DEF Shows
  <2>7. Fits(w.t, Text(n)') /\ (n \in here /\ Shows(u, c) => Shows(w.t, Text(n)'))
    BY <1>5, <2>4, <2>5, <2>6
  <2>8. \A a \in Nat : UpTo(u, c, a) => UpTo(w.t, Text(n)', a)
    BY <1>2, <1>5, <2>4, <2>5
  <2>9. c = Text(n)
    BY DEF c
  <2> QED
    BY <1>2, <1>5, <1>6, <1>7, <2>2, <2>7, <2>8, <2>9
<1> QED
  BY <1>8, <1>9

-----------------------------------------------------------------------------
(* The process and the loop, which touch no view.  *)

\* What the views hold stays while the loop and the process work.
LEMMA ViewsStay ==
    ASSUME AInvariant, UNCHANGED <<doc, here, view, route, sessions>>
    PROVE  /\ Whole' /\ RoutesAreOwn'
           /\ \A n \in Nodes : Text(n)' = Text(n) /\ Live(n)' = Live(n)
<1>1. \A n \in Nodes : Text(n)' = Text(n) /\ Live(n)' = Live(n)
  BY DEF Text, Live
<1>2. RoutesAreOwn'
  BY <1>1 DEF AInvariant, Owned, RoutesAreOwn
<1>3. Whole'
  <2>1. here \subseteq Nodes
    BY DEF AInvariant, Typed
  <2> QED
    BY <1>1, <2>1 DEF AInvariant, Whole, Shows
<1> QED
  BY <1>1, <1>2, <1>3

\* What is sent is the latest of all.
LEMMA SaysKeeps ==
    ASSUME AInvariant, NEW s \in Sessions, NEW kind \in Spoken \cup {"permission"}, Speaking(s),
           words' = words + 1,
           wire' = Append(wire, [kind |-> kind, session |-> s, at |-> words']),
           UNCHANGED <<doc, here, view, process, running, asked, waiting, events, prompted, replies, route, sessions, walks>>
    PROVE  AInvariant'
<1> DEFINE e == [kind |-> kind, session |-> s, at |-> words']
           k == Len(wire)
<1>1. Typed
  BY DEF AInvariant
<1>2. words \in Nat /\ words' \in Nat /\ words' = words + 1 /\ s \in Nat
  BY <1>1 DEF Typed, Sessions
<1>3. e \in Updates /\ e.kind = kind /\ e.session = s /\ e.at = words' /\ e.kind # "end"
  BY <1>2 DEF Updates, Spoken
<1> HIDE DEF e
<1>4. /\ k \in Nat /\ wire \in Seq(Updates \cup Ends)
      /\ wire' \in Seq(Updates \cup Ends)
      /\ DOMAIN wire = 1..k /\ DOMAIN wire' = 1..k + 1
      /\ \A i \in 1..k : wire'[i] = wire[i]
      /\ wire'[k + 1] = e
  <2>1. wire' = Append(wire, e) /\ wire \in Seq(Updates \cup Ends) /\ e \in Updates \cup Ends
    BY <1>1, <1>3 DEF e, Typed
  <2> HIDE DEF Updates, Ends
  <2> QED
    BY <2>1
<1> HIDE DEF k
<1>5. \A i \in DOMAIN wire' : (i \in DOMAIN wire /\ wire'[i] = wire[i]) \/ (i = k + 1 /\ wire'[i] = e)
  BY <1>4
<1>6. \A i \in DOMAIN wire : i \in DOMAIN wire' /\ i < k + 1 /\ i \in Nat
  BY <1>4
<1>7. Typed'
  BY <1>1, <1>2, <1>4 DEF Typed
<1>8. Turns'
  <2>1. s \in running /\ s \in prompted /\ process = "up"
    BY DEF Speaking, AInvariant, Turns
  <2>2. \A i \in DOMAIN wire' : wire'[i].session \in prompted
    BY <1>3, <1>5, <2>1 DEF AInvariant, Turns
  <2>3. ASSUME NEW i \in DOMAIN wire', wire'[i].kind = "end"
        PROVE  wire'[i].session \notin running /\ \A j \in DOMAIN wire' : j > i => wire'[j].session # wire'[i].session
    <3>1. i \in DOMAIN wire /\ wire'[i] = wire[i]
      BY <1>3, <1>5, <2>3
    <3>2. wire[i].session \notin running /\ \A j \in DOMAIN wire : j > i => wire[j].session # wire[i].session
      BY <2>3, <3>1 DEF AInvariant, Turns
    <3> QED
      BY <1>3, <1>5, <2>1, <3>1, <3>2
  <2> QED
    BY <2>1, <2>2, <2>3 DEF AInvariant, Turns
<1>9. Owned'
  <2>1. \A n \in Nodes : Live(n)' => Own(view[n])'
    BY ViewsStay DEF AInvariant, Owned, Own, Answerable, Idle
  <2> QED
    BY <2>1, ViewsStay DEF Owned
<1>10. Queued'
  <2>1. \A i, j \in DOMAIN wire' : i < j /\ wire'[i].kind # "end" /\ wire'[j].kind # "end" => wire'[i].at < wire'[j].at
    <3> SUFFICES ASSUME NEW i \in DOMAIN wire', NEW j \in DOMAIN wire', i < j, wire'[i].kind # "end", wire'[j].kind # "end"
                 PROVE  wire'[i].at < wire'[j].at
      OBVIOUS
    <3>1. i \in DOMAIN wire /\ wire'[i] = wire[i]
      BY <1>4, <1>5
    <3>2. wire[i].at <= words /\ wire[i].at \in Nat
      <4>1. wire[i] \in Updates \cup Ends
        BY <1>4, <3>1
      <4> QED
        BY <3>1, <4>1 DEF AInvariant, Queued, Updates, Ends
    <3>3. CASE j \in DOMAIN wire
      BY <1>5, <1>6, <3>1, <3>3 DEF AInvariant, Queued
    <3>4. CASE wire'[j] = e
      BY <1>2, <1>3, <3>1, <3>2, <3>4
    <3> QED
      BY <1>5, <3>3, <3>4
  <2>2. \A i \in DOMAIN events : events[i].at <= words /\ events[i].at \in Nat
    <3>1. \A i \in DOMAIN events : events[i] \in Updates
      BY <1>1 DEF Typed
    <3> QED
      BY <3>1 DEF AInvariant, Queued, Updates
  <2>3. \A i \in DOMAIN events, j \in DOMAIN wire' : wire'[j].kind # "end" => events[i].at < wire'[j].at
    BY <1>2, <1>3, <1>5, <2>2 DEF AInvariant, Queued
  <2>4. \A i \in DOMAIN wire' : wire'[i].at <= words'
    <3>1. \A i \in DOMAIN wire : wire[i] \in Updates \cup Ends
      BY <1>4
    <3>2. \A i \in DOMAIN wire : wire[i].at \in Nat /\ wire[i].at <= words
      BY <3>1 DEF AInvariant, Queued, Updates, Ends
    <3> QED
      BY <1>2, <1>3, <1>5, <3>2
  <2>5. \A i \in DOMAIN events : events[i].at <= words'
    BY <1>2, <2>2
  <2> QED
    BY <2>1, <2>3, <2>4, <2>5 DEF AInvariant, Queued
<1>11. InTime'
  <2> SUFFICES ASSUME NEW n \in Nodes
               PROVE  IF Live(n) THEN Timed(view[n], Text(n))'
                      ELSE InOrder(Text(n)) /\ AtMost(Text(n), words')
    BY ViewsStay DEF InTime
  <2>1. Text(n) \in Seq(Msgs) /\ Text(n)' = Text(n)
    BY <1>1, Viewed, ViewsStay
  <2>2. CASE Live(n)
    <3> DEFINE v == view[n]
               c == Text(n)
    <3>1. Timed(v, c) /\ v.t \in Ts
      BY <1>1, <2>2, Viewed DEF AInvariant, InTime
    <3>2. UpTo(v.t, c, words')
      BY <1>2, <2>1, <3>1, LaterUpTo DEF Timed
    <3>3. \A i \in DOMAIN wire' : wire'[i].kind # "end" /\ wire'[i].session = v.session => UpTo(v.t, c, wire'[i].at)
      BY <1>3, <1>5, <3>1, <3>2 DEF Timed
    <3>4. Timed(view[n], c)'
      BY <2>1, <3>1, <3>2, <3>3 DEF Timed
    <3> QED
      BY <2>1, <2>2, <3>4
  <2>3. CASE ~Live(n)
    <3>1. InOrder(Text(n)) /\ AtMost(Text(n), words)
      BY <2>3 DEF AInvariant, InTime
    <3>2. AtMost(Text(n), words')
      BY <1>2, <2>1, <3>1, LaterMost
    <3> QED
      BY <2>3, <3>1, <3>2
  <2> QED
    BY <2>2, <2>3
<1>12. Permits'
  BY ViewsStay DEF AInvariant, Permits, OnItsWay, Arrived
<1> QED
  BY <1>7, <1>8, <1>9, <1>10, <1>11, <1>12, ViewsStay DEF AInvariant

\* What is on its way.
LEMMA OnTheWire ==
    ASSUME Typed
    PROVE  /\ \A i \in DOMAIN wire : /\ wire[i] \in Updates \cup Ends
                                     /\ wire[i].at \in Nat /\ wire[i].session \in Nat
                                     /\ wire[i].kind # "end" => wire[i] \in Updates
           /\ \A i \in DOMAIN events : /\ events[i] \in Updates
                                       /\ events[i].at \in Nat /\ events[i].session \in Nat
                                       /\ events[i].kind \in Spoken \cup {"permission"}
<1>1. \A i \in DOMAIN wire : wire[i] \in Updates \cup Ends
  BY DEF Typed
<1>2. \A i \in DOMAIN events : events[i] \in Updates
  BY DEF Typed
<1>3. \A e \in Updates : e.at \in Nat /\ e.session \in Nat /\ e.kind \in Spoken \cup {"permission"}
  BY DEF Updates
<1>4. \A e \in Ends : e.at \in Nat /\ e.session \in Nat /\ e.kind = "end"
  BY DEF Ends
<1> QED
  BY <1>1, <1>2, <1>3, <1>4

\* Nothing is sent or read: what the views hold is as late as it was.
LEMMA TimesStay ==
    ASSUME AInvariant, UNCHANGED <<doc, here, view, route, sessions, words, events, wire>>
    PROVE  InTime' /\ Queued'
<1>1. Queued'
  BY DEF AInvariant, Queued
<1>2. \A n \in Nodes : Text(n)' = Text(n) /\ Live(n)' = Live(n)
  BY ViewsStay
<1>3. \A n \in Nodes : Timed(view[n], Text(n)) => Timed(view[n], Text(n))'
  BY <1>2 DEF Timed
<1>4. InTime'
  BY <1>2, <1>3 DEF AInvariant, InTime
<1> QED
  BY <1>1, <1>4

\* The end of a turn is the last of its session.
LEMMA EndKeeps ==
    ASSUME AInvariant, NEW s \in Sessions, End(s)
    PROVE  AInvariant'
<1> DEFINE e == [kind |-> "end", session |-> s, at |-> 0]
           k == Len(wire)
<1>1. Typed
  BY DEF AInvariant
<1>2. /\ wire' = Append(wire, e) /\ running' = running \ {s} /\ s \in running /\ process = "up"
      /\ UNCHANGED <<doc, here, view, process, asked, waiting, events, prompted, replies, route, words, sessions>>
  BY DEF End, Speaking
<1>3. e \in Ends /\ e.kind = "end" /\ e.session = s /\ e.at = 0
  BY DEF Ends, Sessions
<1> HIDE DEF e
<1>4. /\ k \in Nat
      /\ wire' \in Seq(Updates \cup Ends)
      /\ DOMAIN wire = 1..k /\ DOMAIN wire' = 1..k + 1
      /\ \A i \in 1..k : wire'[i] = wire[i]
      /\ wire'[k + 1] = e
  <2>1. wire' = Append(wire, e) /\ wire \in Seq(Updates \cup Ends) /\ e \in Updates \cup Ends
    BY <1>1, <1>2, <1>3 DEF Typed
  <2> HIDE DEF Updates, Ends
  <2> QED
    BY <2>1
<1> HIDE DEF k
<1>5. \A i \in DOMAIN wire' : (i \in DOMAIN wire /\ wire'[i] = wire[i]) \/ (i = k + 1 /\ wire'[i] = e)
  BY <1>4
<1>6. \A i \in DOMAIN wire : i \in DOMAIN wire' /\ i < k + 1 /\ i \in Nat
  BY <1>4
<1>7. Typed'
  BY <1>1, <1>2, <1>4 DEF Typed
<1>8. Turns'
  <2>1. s \in prompted
    BY <1>2 DEF AInvariant, Turns
  <2>2. \A i \in DOMAIN wire' : wire'[i].session \in prompted
    BY <1>3, <1>5, <2>1 DEF AInvariant, Turns
  <2>3. ASSUME NEW i \in DOMAIN wire', wire'[i].kind = "end"
        PROVE  wire'[i].session \notin running' /\ \A j \in DOMAIN wire' : j > i => wire'[j].session # wire'[i].session
    <3>1. CASE i \in DOMAIN wire /\ wire'[i] = wire[i]
      <4>1. wire[i].session \notin running /\ \A j \in DOMAIN wire : j > i => wire[j].session # wire[i].session
        BY <2>3, <3>1 DEF AInvariant, Turns
      <4> QED
        BY <1>2, <1>3, <1>5, <3>1, <4>1
    <3>2. CASE i = k + 1 /\ wire'[i] = e
      <4>1. \A j \in DOMAIN wire' : ~(j > i)
        BY <1>4, <3>2
      <4> QED
        BY <1>2, <1>3, <3>2, <4>1
    <3> QED
      BY <1>5, <3>1, <3>2
  <2> QED
    BY <1>2, <2>1, <2>2, <2>3 DEF AInvariant, Turns
<1>9. Owned'
  <2>1. \A n \in Nodes : Live(n)' => Own(view[n])'
    BY <1>2, ViewsStay DEF AInvariant, Owned, Own, Answerable, Idle
  <2> QED
    BY <1>2, <2>1, ViewsStay DEF Owned
<1>10. Queued'
  <2>1. \A i, j \in DOMAIN wire' : i < j /\ wire'[i].kind # "end" /\ wire'[j].kind # "end" => wire'[i].at < wire'[j].at
    BY <1>3, <1>5 DEF AInvariant, Queued
  <2>2. \A i \in DOMAIN events, j \in DOMAIN wire' : wire'[j].kind # "end" => events[i].at < wire'[j].at
    BY <1>3, <1>5 DEF AInvariant, Queued
  <2>3. \A i \in DOMAIN wire' : wire'[i].at <= words
    BY <1>1, <1>3, <1>5 DEF AInvariant, Queued, Typed
  <2> QED
    BY <1>2, <2>1, <2>2, <2>3 DEF AInvariant, Queued
<1>11. InTime'
  <2>1. \A n \in Nodes : Text(n)' = Text(n) /\ Live(n)' = Live(n)
    BY <1>2, ViewsStay
  <2>2. \A n \in Nodes : Timed(view[n], Text(n)) => Timed(view[n], Text(n))'
    BY <1>2, <1>3, <1>5, <2>1 DEF Timed
  <2> QED
    BY <1>2, <2>1, <2>2 DEF AInvariant, InTime
<1>12. Permits'
  BY <1>2, ViewsStay DEF AInvariant, Permits, OnItsWay, Arrived
<1> QED
  BY <1>2, <1>7, <1>8, <1>9, <1>10, <1>11, <1>12, ViewsStay DEF AInvariant

\* The process dies: everything it was asked is answered with an error.
LEMMA DiesKeeps ==
    ASSUME AInvariant, Dies
    PROVE  AInvariant'
<1>1. /\ process = "up" /\ process' = "dead" /\ wire' = <<>> /\ asked' = None /\ prompted' = {} /\ running' = {}
      /\ replies' = replies \cup [session : prompted, ok : {FALSE}]
      /\ UNCHANGED <<doc, here, view, waiting, events, route, words, sessions>>
  BY DEF Dies
<1>2. /\ \A r \in [session : prompted, ok : {FALSE}] : r.session \in prompted
      /\ \A r, q \in [session : prompted, ok : {FALSE}] : r.session = q.session => r = q
  <2>1. \A r \in [session : prompted, ok : {FALSE}] : r.session \in prompted
    OBVIOUS
  <2> DEFINE F == {FALSE}
  <2>2. \A x, y \in F : x = y
    BY Zenon
  <2> HIDE DEF F
  <2>3. \A r, q \in [session : prompted, ok : F] : r.ok \in F /\ q.ok \in F /\ (r.session = q.session /\ r.ok = q.ok => r = q)
    OBVIOUS
  <2>4. \A r, q \in [session : prompted, ok : F] : r.session = q.session => r = q
    BY <2>2, <2>3
  <2> QED
    BY <2>1, <2>4 DEF F
<1>3. prompted \subseteq Nat
  BY DEF AInvariant, Typed
<1>4. Typed'
  <2>1. <<>> \in Seq(Updates \cup Ends)
    OBVIOUS
  <2>2. replies' \subseteq [session : Nat, ok : BOOLEAN]
    BY <1>1, <1>3 DEF AInvariant, Typed
  <2> QED
    BY <1>1, <2>1, <2>2 DEF AInvariant, Typed
<1>5. \A r \in replies' : r \in replies \/ (r \in [session : prompted, ok : {FALSE}] /\ r.session \in prompted)
  BY <1>1, <1>2
<1>6. Turns'
  <2>1. \A r \in replies' : r.session \in 1..sessions
    BY <1>5 DEF AInvariant, Turns
  <2>2. ASSUME NEW r \in replies', NEW q \in replies', r.session = q.session
        PROVE  r = q
    BY <1>2, <1>5, <2>2 DEF AInvariant, Turns
  <2>3. \A i \in DOMAIN wire' : FALSE
    BY <1>1
  <2>4. /\ running' = {} /\ prompted' = {} /\ wire' = <<>>
        /\ \A i \in DOMAIN events : events[i].session \in 1..sessions
    BY <1>1 DEF AInvariant, Turns
  <2>5. events' = events /\ sessions' = sessions
    BY <1>1
  <2> QED
    BY <2>1, <2>2, <2>3, <2>4, <2>5 DEF Turns
<1>7. Owned'
  <2>1. \A s : Answerable(s)' => Answerable(s)
    BY <1>1, <1>5 DEF Answerable
  <2>2. \A n \in Nodes : Live(n)' => Own(view[n])'
    BY <1>1, <2>1, ViewsStay DEF AInvariant, Owned, Own, Idle
  <2> QED
    BY <1>1, <2>2, ViewsStay DEF Owned
<1>8. Queued'
  BY <1>1 DEF AInvariant, Queued
<1>9. InTime'
  <2>1. \A n \in Nodes : Text(n)' = Text(n) /\ Live(n)' = Live(n)
    BY <1>1, ViewsStay
  <2>2. \A n \in Nodes : Timed(view[n], Text(n)) => Timed(view[n], Text(n))'
    BY <1>1, <2>1 DEF Timed
  <2> QED
    BY <1>1, <2>1, <2>2 DEF AInvariant, InTime
<1>10. Permits'
  BY <1>1 DEF Permits
<1> QED
  BY <1>1, <1>4, <1>6, <1>7, <1>8, <1>9, <1>10, ViewsStay DEF AInvariant

\* The loop waits no longer, and for nothing.
LEMMA TimeoutKeeps ==
    ASSUME AInvariant, Timeout
    PROVE  AInvariant'
<1>1. /\ waiting' = waiting \ {asked} /\ asked' = None
      /\ UNCHANGED <<doc, here, view, process, running, wire, events, prompted, replies, route, words, sessions>>
  BY DEF Timeout
<1>2. Typed' /\ Turns'
  BY <1>1 DEF AInvariant, Typed, Turns
<1>3. Owned'
  <2>1. \A n \in Nodes : Live(n)' => Own(view[n])'
    BY <1>1, ViewsStay DEF AInvariant, Owned, Own, Answerable, Idle
  <2> QED
    BY <1>1, <2>1, ViewsStay DEF Owned
<1>4. Permits'
  BY <1>1 DEF AInvariant, Permits
<1> QED
  BY <1>1, <1>2, <1>3, <1>4, TimesStay, ViewsStay DEF AInvariant

\* The first of a sequence, and the rest.
LEMMA FirstAndRest ==
    ASSUME NEW C, NEW s \in Seq(C), s # <<>>
    PROVE  /\ Head(s) = s[1] /\ 1 \in DOMAIN s /\ Head(s) \in C
           /\ Tail(s) \in Seq(C)
           /\ \A i \in DOMAIN Tail(s) : /\ i \in Nat /\ i + 1 \in DOMAIN s /\ 1 < i + 1
                                        /\ Tail(s)[i] = s[i + 1]
           /\ \A i \in DOMAIN s : i = 1 \/ (i - 1 \in DOMAIN Tail(s) /\ Tail(s)[i - 1] = s[i] /\ 1 < i)
<1> DEFINE k == Len(s)
           r == Tail(s)
<1>1. k \in Nat \ {0} /\ DOMAIN s = 1..k
  BY EmptySeq
<1>2. /\ r \in Seq(C) /\ DOMAIN r = 1..k - 1
      /\ \A i \in 1..k - 1 : r[i] = s[i + 1]
  BY <1>1
<1>3. Head(s) = s[1] /\ s[1] \in C
  BY <1>1
<1> HIDE DEF r, k
<1>4. \A i \in DOMAIN r : i \in Nat /\ i + 1 \in DOMAIN s /\ 1 < i + 1 /\ r[i] = s[i + 1]
  BY <1>1, <1>2
<1>5. ASSUME NEW i \in DOMAIN s, i # 1
      PROVE  i - 1 \in DOMAIN r /\ r[i - 1] = s[i] /\ 1 < i
  <2>1. i - 1 \in 1..k - 1 /\ (i - 1) + 1 = i /\ 1 < i
    BY <1>1, <1>5
  <2> QED
    BY <1>2, <2>1
<1> QED
  BY <1>1, <1>2, <1>3, <1>4, <1>5 DEF r

\* What the loop has read.
LEMMA Read ==
    ASSUME Typed, wire # <<>>, wire' = Tail(wire)
    PROVE  /\ Head(wire) = wire[1] /\ 1 \in DOMAIN wire /\ Head(wire) \in Updates \cup Ends
           /\ wire' \in Seq(Updates \cup Ends)
           /\ \A i \in DOMAIN wire' : i \in Nat /\ i + 1 \in DOMAIN wire /\ 1 < i + 1 /\ wire'[i] = wire[i + 1]
<1>1. wire \in Seq(Updates \cup Ends)
  BY DEF Typed
<1> DEFINE C == Updates \cup Ends
           s == wire
<1>2. s \in Seq(C) /\ s # <<>>
  BY <1>1
<1> HIDE DEF C, s
<1>3. /\ Head(s) = s[1] /\ 1 \in DOMAIN s /\ Head(s) \in C
      /\ Tail(s) \in Seq(C)
      /\ \A i \in DOMAIN Tail(s) : i \in Nat /\ i + 1 \in DOMAIN s /\ 1 < i + 1 /\ Tail(s)[i] = s[i + 1]
  BY <1>2, FirstAndRest
<1> QED
  BY <1>3 DEF C, s

\* The end of a turn is read: the prompt of its session is answered.
LEMMA DispatchEndKeeps ==
    ASSUME AInvariant, Dispatch, Head(wire).kind = "end"
    PROVE  AInvariant'
<1> DEFINE m == Head(wire)
           s == m.session
           q == [session |-> s, ok |-> TRUE]
<1>1. Typed
  BY DEF AInvariant
<1>2. /\ process = "up" /\ wire # <<>> /\ asked = None /\ wire' = Tail(wire)
      /\ prompted' = prompted \ {s} /\ replies' = replies \cup {q}
      /\ UNCHANGED <<asked, waiting, events, doc, here, view, process, running, route, words, sessions>>
  BY DEF Dispatch
<1>3. /\ m = wire[1] /\ 1 \in DOMAIN wire
      /\ wire' \in Seq(Updates \cup Ends)
      /\ \A i \in DOMAIN wire' : i \in Nat /\ i + 1 \in DOMAIN wire /\ 1 < i + 1 /\ wire'[i] = wire[i + 1]
  BY <1>1, <1>2, Read
<1> HIDE DEF m
<1>4. /\ s \in prompted /\ s \notin running /\ s \in 1..sessions /\ s \in Nat
      /\ \A j \in DOMAIN wire : j > 1 => wire[j].session # s
  <2>1. s \in prompted /\ s \notin running /\ \A j \in DOMAIN wire : j > 1 => wire[j].session # s
    BY <1>3 DEF AInvariant, Turns, m
  <2> QED
    BY <1>1, <2>1 DEF AInvariant, Turns, Typed
<1>5. q \in [session : Nat, ok : BOOLEAN] /\ q.session = s
  BY <1>4
<1> HIDE DEF q, s
<1>6. Typed'
  BY <1>1, <1>2, <1>3, <1>5 DEF Typed
<1>7. Turns'
  <2>1. running' \subseteq prompted' /\ prompted' \subseteq 1..sessions
    BY <1>2, <1>4 DEF AInvariant, Turns
  <2>2. \A r \in replies' : r.session \in 1..sessions /\ r.session \notin prompted'
    BY <1>2, <1>4, <1>5 DEF AInvariant, Turns
  <2>3. \A r, p \in replies' : r.session = p.session => r = p
    BY <1>2, <1>4, <1>5 DEF AInvariant, Turns
  <2>4. \A i \in DOMAIN wire' : wire'[i].session \in prompted'
    BY <1>2, <1>3, <1>4 DEF AInvariant, Turns
  <2>5. ASSUME NEW i \in DOMAIN wire', wire'[i].kind = "end"
        PROVE  wire'[i].session \notin running /\ \A j \in DOMAIN wire' : j > i => wire'[j].session # wire'[i].session
    <3>1. /\ wire[i + 1].session \notin running
          /\ \A j \in DOMAIN wire : j > i + 1 => wire[j].session # wire[i + 1].session
      BY <1>3, <2>5 DEF AInvariant, Turns
    <3>2. \A j \in DOMAIN wire' : j > i => j + 1 > i + 1
      BY <1>3
    <3> QED
      BY <1>3, <3>1, <3>2
  <2>6. \A i \in DOMAIN events : events[i].session \in 1..sessions
    BY DEF AInvariant, Turns
  <2> QED
    BY <1>2, <2>1, <2>2, <2>3, <2>4, <2>5, <2>6 DEF Turns
<1>8. Owned'
  <2>1. \A x : Answerable(x)' => Answerable(x)
    BY <1>2, <1>4, <1>5 DEF Answerable
  <2>2. \A n \in Nodes : Live(n)' => Own(view[n])'
    BY <1>2, <2>1, ViewsStay DEF AInvariant, Owned, Own, Idle
  <2> QED
    BY <1>2, <2>2, ViewsStay DEF Owned
<1>9. Queued'
  <2>1. \A i, j \in DOMAIN wire' : i < j /\ wire'[i].kind # "end" /\ wire'[j].kind # "end" => wire'[i].at < wire'[j].at
    <3>1. \A i, j \in DOMAIN wire' : i < j => i + 1 < j + 1
      BY <1>3
    <3> QED
      BY <1>3, <3>1 DEF AInvariant, Queued
  <2>2. \A i \in DOMAIN events, j \in DOMAIN wire' : wire'[j].kind # "end" => events[i].at < wire'[j].at
    BY <1>3 DEF AInvariant, Queued
  <2>3. \A i \in DOMAIN wire' : wire'[i].at <= words
    BY <1>3 DEF AInvariant, Queued
  <2> QED
    BY <1>2, <2>1, <2>2, <2>3 DEF AInvariant, Queued
<1>10. InTime'
  <2>1. \A n \in Nodes : Text(n)' = Text(n) /\ Live(n)' = Live(n)
    BY <1>2, ViewsStay
  <2>2. \A n \in Nodes : Timed(view[n], Text(n)) => Timed(view[n], Text(n))'
    BY <1>2, <1>3, <2>1 DEF Timed
  <2> QED
    BY <1>2, <2>1, <2>2 DEF AInvariant, InTime
<1>11. Permits'
  BY <1>2, ViewsStay DEF AInvariant, Permits, OnItsWay, Arrived
<1> QED
  BY <1>2, <1>6, <1>7, <1>8, <1>9, <1>10, <1>11, ViewsStay DEF AInvariant

\* Anything else is read: it goes to the window, and the loop may wait in it.
LEMMA DispatchEventKeeps ==
    ASSUME AInvariant, Dispatch, Head(wire).kind # "end"
    PROVE  AInvariant'
<1> DEFINE m == Head(wire)
           k == Len(events)
<1>1. Typed
  BY DEF AInvariant
<1>2. /\ process = "up" /\ wire # <<>> /\ asked = None /\ wire' = Tail(wire) /\ events' = Append(events, m)
      /\ \/ m.kind = "permission" /\ asked' = Request(m) /\ waiting' = waiting \cup {Request(m)}
         \/ m.kind # "permission" /\ UNCHANGED <<asked, waiting>>
      /\ UNCHANGED <<prompted, replies, doc, here, view, process, running, route, words, sessions>>
  BY DEF Dispatch
<1>3. /\ m = wire[1] /\ 1 \in DOMAIN wire
      /\ wire' \in Seq(Updates \cup Ends)
      /\ \A i \in DOMAIN wire' : i \in Nat /\ i + 1 \in DOMAIN wire /\ 1 < i + 1 /\ wire'[i] = wire[i + 1]
  BY <1>1, <1>2, Read
<1>4. m.kind # "end"
  OBVIOUS
<1> HIDE DEF m
<1>5. m \in Updates /\ m.at \in Nat /\ m.session \in Nat /\ m.at <= words /\ m.session \in prompted /\ m.session \in 1..sessions
  <2>1. m \in Updates /\ m.at \in Nat /\ m.session \in Nat
    BY <1>1, <1>3, <1>4, OnTheWire
  <2>2. m.at <= words
    BY <1>3 DEF AInvariant, Queued
  <2>3. m.session \in prompted /\ m.session \in 1..sessions
    BY <1>3 DEF AInvariant, Turns
  <2> QED
    BY <2>1, <2>2, <2>3
<1>6. /\ k \in Nat
      /\ events' \in Seq(Updates)
      /\ DOMAIN events = 1..k /\ DOMAIN events' = 1..k + 1
      /\ \A i \in 1..k : events'[i] = events[i]
      /\ events'[k + 1] = m
  <2>1. events \in Seq(Updates)
    BY <1>1 DEF Typed
  <2> HIDE DEF Updates
  <2> QED
    BY <1>2, <1>5, <2>1
<1> HIDE DEF k
<1>7. \A i \in DOMAIN events' : (i \in DOMAIN events /\ events'[i] = events[i]) \/ (i = k + 1 /\ events'[i] = m)
  BY <1>6
<1>8. waiting = {}
  BY <1>2 DEF AInvariant, Permits
<1>9. Typed'
  <2>1. Request(m) \in Requests
    BY <1>5 DEF Request, Requests
  <2> QED
    BY <1>1, <1>2, <1>3, <1>6, <2>1 DEF Typed
<1>10. Turns'
  <2>1. \A i \in DOMAIN wire' : wire'[i].session \in prompted
    BY <1>3 DEF AInvariant, Turns
  <2>2. ASSUME NEW i \in DOMAIN wire', wire'[i].kind = "end"
        PROVE  wire'[i].session \notin running /\ \A j \in DOMAIN wire' : j > i => wire'[j].session # wire'[i].session
    <3>1. /\ wire[i + 1].session \notin running
          /\ \A j \in DOMAIN wire : j > i + 1 => wire[j].session # wire[i + 1].session
      BY <1>3, <2>2 DEF AInvariant, Turns
    <3>2. \A j \in DOMAIN wire' : j > i => j + 1 > i + 1
      BY <1>3
    <3> QED
      BY <1>3, <3>1, <3>2
  <2>3. \A i \in DOMAIN events' : events'[i].session \in 1..sessions
    BY <1>5, <1>7 DEF AInvariant, Turns
  <2> QED
    BY <1>2, <2>1, <2>2, <2>3 DEF AInvariant, Turns
<1>11. Owned'
  <2>1. \A x : Answerable(x)' => Answerable(x)
    BY <1>2, <1>5, <1>7 DEF Answerable
  <2>2. \A n \in Nodes : Live(n)' => Own(view[n])'
    BY <1>2, <2>1, ViewsStay DEF AInvariant, Owned, Own, Idle
  <2> QED
    BY <1>2, <2>2, ViewsStay DEF Owned
<1>12. Queued'
  <2>1. \A i, j \in DOMAIN wire' : i < j /\ wire'[i].kind # "end" /\ wire'[j].kind # "end" => wire'[i].at < wire'[j].at
    <3>1. \A i, j \in DOMAIN wire' : i < j => i + 1 < j + 1
      BY <1>3
    <3> QED
      BY <1>3, <3>1 DEF AInvariant, Queued
  <2>2. \A j \in DOMAIN wire' : wire'[j].kind # "end" => m.at < wire'[j].at
    BY <1>3, <1>4 DEF AInvariant, Queued
  <2>3. \A i \in DOMAIN events : events[i].at < m.at
    BY <1>3, <1>4 DEF AInvariant, Queued
  <2>4. \A i \in DOMAIN events', j \in DOMAIN wire' : wire'[j].kind # "end" => events'[i].at < wire'[j].at
    BY <1>3, <1>7, <2>2 DEF AInvariant, Queued
  <2>5. \A i, j \in DOMAIN events' : i < j => events'[i].at < events'[j].at
    <3>1. \A i, j \in DOMAIN events' : i < j => i \in DOMAIN events
      BY <1>6
    <3> QED
      BY <1>6, <1>7, <2>3, <3>1 DEF AInvariant, Queued
  <2>6. \A i \in DOMAIN wire' : wire'[i].at <= words
    BY <1>3 DEF AInvariant, Queued
  <2>7. \A i \in DOMAIN events' : events'[i].at <= words
    BY <1>5, <1>7 DEF AInvariant, Queued
  <2> QED
    BY <1>2, <2>1, <2>4, <2>5, <2>6, <2>7 DEF Queued
<1>13. InTime'
  <2>1. \A n \in Nodes : Text(n)' = Text(n) /\ Live(n)' = Live(n)
    BY <1>2, ViewsStay
  <2>2. \A n \in Nodes : Timed(view[n], Text(n)) => Timed(view[n], Text(n))'
    <3> SUFFICES ASSUME NEW n \in Nodes, Timed(view[n], Text(n))
                 PROVE  Timed(view[n], Text(n))'
      OBVIOUS
    <3>1. view'[n] = view[n] /\ Text(n)' = Text(n) /\ words' = words
      BY <1>2, <2>1
    <3>2. Fits(view[n].t, Text(n)) /\ UpTo(view[n].t, Text(n), words)
      BY DEF Timed
    <3>3. \A i \in DOMAIN events' : events'[i].session = view[n].session => UpTo(view[n].t, Text(n), events'[i].at)
      BY <1>3, <1>4, <1>7 DEF Timed
    <3>4. \A i \in DOMAIN wire' : wire'[i].kind # "end" /\ wire'[i].session = view[n].session => UpTo(view[n].t, Text(n), wire'[i].at)
      BY <1>3, <1>4, <1>7 DEF Timed
    <3> QED
      BY <3>1, <3>2, <3>3, <3>4 DEF Timed, Fits, UpTo
  <2> QED
    BY <1>2, <2>1, <2>2 DEF AInvariant, InTime
<1>14. Permits'
  <2>1. CASE m.kind = "permission"
    <3> DEFINE w == Request(m)
    <3>1. waiting' = {w} /\ asked' = w /\ w.id = m.at /\ w.session = m.session
      BY <1>2, <1>8, <2>1 DEF Request
    <3>2. w # None
      <4>1. w \in [id : Nat, session : Nat]
        BY <1>5 DEF Request
      <4> HIDE DEF w
      <4> QED
        BY <4>1, NoneAssumption
    <3> HIDE DEF w
    <3>3. \A i \in DOMAIN events : events[i].at <= m.at
      <4>1. \A i \in DOMAIN events : events[i].at < m.at /\ events[i].at \in Nat
        BY <1>1, <1>3, <1>4, OnTheWire DEF AInvariant, Queued
      <4> QED
        BY <1>5, <4>1
    <3>4. ASSUME NEW x \in waiting'
          PROVE  x.session \in 1..sessions' /\ OnItsWay(x)'
      <4>0. x.id = m.at /\ x.session = m.session
        BY <3>1
      <4>1. k + 1 \in DOMAIN events' /\ events'[k + 1] = m
        BY <1>6
      <4>2. \A i \in DOMAIN events' : events'[i].at <= x.id
        BY <1>5, <1>7, <3>3, <4>0
      <4> QED
        BY <1>2, <1>5, <2>1, <4>0, <4>1, <4>2 DEF OnItsWay, IsPermission
    <3> QED
      BY <1>2, <1>5, <3>1, <3>2, <3>4 DEF Permits
  <2>2. CASE m.kind # "permission"
    BY <1>2, <1>8, <2>2 DEF Permits
  <2> QED
    BY <2>1, <2>2
<1> QED
  BY <1>2, <1>9, <1>10, <1>11, <1>12, <1>13, <1>14, ViewsStay DEF AInvariant

-----------------------------------------------------------------------------
(* The window.  *)

\* A node with no session of its own, and the session of another.
LEMMA OwnSessions ==
    ASSUME AInvariant, NEW n \in Nodes, NEW m \in Nodes, Live(n), Live(m), view[n].session # None,
           view[m].session = view[n].session
    PROVE  m = n
<1>1. view[n].session \in Sessions
  <2>1. view[n].session \in 1..sessions /\ sessions \in 0..MaxSessions /\ MaxSessions \in Nat
    BY BoundsAssumption DEF AInvariant, Owned, Own, Typed
  <2> QED
    BY <2>1 DEF Sessions
<1>2. route[view[n].session] = n /\ route[view[n].session] = m
  BY <1>1 DEF AInvariant, Owned, RoutesAreOwn
<1> QED
  BY <1>2

\* Every live view with a session is where its route leads.
LEMMA NoneRouted ==
    ASSUME AInvariant, NEW s \in 1..sessions, route[s] = None, NEW n \in Nodes, Live(n)
    PROVE  view[n].session # s
<1>1. s \in Sessions
  BY BoundsAssumption DEF AInvariant, Typed, Sessions
<1>2. n # None
  BY NoneAssumption
<1> QED
  BY <1>1, <1>2 DEF AInvariant, Owned, RoutesAreOwn

\* The rest of the nodes are as they were, when nothing that is on its way changed.
LEMMA OthersTimed ==
    ASSUME AInvariant, NEW m \in Nodes, view'[m] = view[m], Text(m)' = Text(m),
           UNCHANGED <<events, wire, words>>
    PROVE  /\ Live(m)' = Live(m)
           /\ (IF Live(m) THEN Timed(view[m], Text(m)) ELSE InOrder(Text(m)) /\ AtMost(Text(m), words))'
<1>1. Live(m)' = Live(m)
  BY DEF Live
<1>2. IF Live(m) THEN Timed(view[m], Text(m)) ELSE InOrder(Text(m)) /\ AtMost(Text(m), words)
  BY DEF AInvariant, InTime
<1>3. Live(m) => Timed(view[m], Text(m))'
  BY <1>2 DEF Timed
<1> QED
  BY <1>1, <1>2, <1>3

\* One node has another view, of the same session and the same request, or its first.
Same(n) == IF Live(n) THEN /\ Live(n)' /\ view'[n].session = view[n].session
                           /\ view'[n].pending = view[n].pending
           ELSE Live(n)' => view'[n].session = None

\* Routes stay with their nodes when no view gains or loses a session.
LEMMA RoutesStay ==
    ASSUME AInvariant, route' = route, NEW n \in Nodes,
           \A m \in Nodes : m # n => view'[m] = view[m],
           IF Live(n) THEN Live(n)' /\ view'[n].session = view[n].session
           ELSE Live(n)' => view'[n].session = None
    PROVE  RoutesAreOwn'
<1> SUFFICES ASSUME NEW s \in Sessions, NEW m \in Nodes
             PROVE  route[s] = m <=> Live(m)' /\ view'[m].session = s
  BY DEF RoutesAreOwn
<1>1. route[s] = m <=> Live(m) /\ view[m].session = s
  BY DEF AInvariant, Owned, RoutesAreOwn
<1>2. CASE m # n
  BY <1>1, <1>2 DEF Live
<1>3. CASE m = n
  <2>1. s # None
    BY NoneAssumption DEF Sessions
  <2> QED
    BY <1>1, <1>3, <2>1
<1> QED
  BY <1>2, <1>3

\* A node shows what it should when all others do as before.
LEMMA WholeStays ==
    ASSUME AInvariant, NEW n \in Nodes, here' \subseteq Nodes,
           \A m \in Nodes : m # n => view'[m] = view[m] /\ Text(m)' = Text(m) /\ (m \in here' => m \in here),
           n \in here' /\ Live(n)' /\ ~view'[n].t.stale => Shows(view'[n].t, Text(n)')
    PROVE  Whole'
<1> SUFFICES ASSUME NEW m \in here', Live(m)', ~view'[m].t.stale
             PROVE  Shows(view'[m].t, Text(m)')
  BY DEF Whole, Shows
<1>1. CASE m = n
  BY <1>1
<1>2. CASE m # n
  <2>1. m \in here /\ view'[m] = view[m] /\ Text(m)' = Text(m)
    BY <1>2
  <2>2. Live(m)
    BY <2>1 DEF Live
  <2>3. Shows(view[m].t, Text(m))
    BY <2>1, <2>2 DEF AInvariant, Whole
  <2> QED
    BY <2>1, <2>3
<1> QED
  BY <1>1, <1>2

\* The requests are shown where they were.
LEMMA PermitsStay ==
    ASSUME AInvariant, NEW n \in Nodes,
           \A m \in Nodes : m # n => view'[m] = view[m],
           Same(n),
           UNCHANGED <<process, asked, waiting, events, sessions>>
    PROVE  Permits'
<1>1. \A m \in Nodes : m # n => Live(m)' = Live(m)
  BY DEF Live
<1>2. ASSUME NEW x \in waiting, x.session \in 1..sessions, Arrived(x) PROVE Arrived(x)'
  <2>1. \A i \in DOMAIN events' : ~IsPermission(events'[i])
    BY <1>2 DEF Arrived
  <2>2. x.session # None
    BY <1>2, NoneAssumption
  <2>3. CASE \E m \in Nodes : Live(m) /\ view[m].session = x.session /\ view[m].pending = x.id
    <3>1. \E m \in Nodes : Live(m)' /\ view'[m].session = x.session /\ view'[m].pending = x.id
      BY <1>1, <2>3 DEF Same
    <3> QED
      BY <2>1, <3>1 DEF Arrived
  <2>4. CASE \A m \in Nodes : Live(m) => view[m].session # x.session
    <3>1. \A m \in Nodes : Live(m)' => view'[m].session # x.session
      BY <1>1, <2>2, <2>4 DEF Same
    <3> QED
      BY <2>1, <3>1 DEF Arrived
  <2> QED
    BY <1>2, <2>3, <2>4 DEF Arrived
<1>3. \A x : OnItsWay(x) => OnItsWay(x)'
  BY DEF OnItsWay
<1> QED
  BY <1>2, <1>3 DEF AInvariant, Permits

\* A node keeps its own when no session becomes answerable, and a runtime that could not
\* be started stays so.
LEMMA OwnStays ==
    ASSUME AInvariant, NEW n \in Nodes, RoutesAreOwn',
           \A m \in Nodes : m # n => view'[m] = view[m],
           Live(n)' => Own(view[n])',
           \A m \in Nodes, s \in 1..sessions : m # n /\ Live(m) /\ view[m].session = s /\ Answerable(s)' => Answerable(s),
           sessions \in Nat, sessions' \in Nat, sessions <= sessions',
           process = "unstarted" => process' = process
    PROVE  Owned'
<1> SUFFICES ASSUME NEW m \in Nodes, m # n, Live(m)' PROVE Own(view[m])'
  BY DEF Owned
<1>1. Live(m) /\ view'[m] = view[m]
  BY DEF Live
<1>2. Own(view[m])
  BY <1>1 DEF AInvariant, Owned
<1>3. view[m].session # None => view[m].session \in 1..sessions /\ view[m].session \in 1..sessions'
  BY <1>2 DEF Own
<1> QED
  BY <1>1, <1>2, <1>3 DEF Own, Idle

\* The user answers, and the loop goes on if it waits for that.
LEMMA AnswerKeeps ==
    ASSUME AInvariant, NEW n \in Nodes, Answer(n)
    PROVE  AInvariant'
<1> DEFINE v == view[n]
           w == [v EXCEPT !.pending = None]
<1>1. Typed
  BY DEF AInvariant
<1>2. /\ Live(n) /\ v.pending # None
      /\ view' = [view EXCEPT ![n] = w]
      /\ waiting' = {x \in waiting : x.id # v.pending}
      /\ asked' = IF asked \in waiting' THEN asked ELSE None
      /\ UNCHANGED <<doc, here, process, running, wire, events, prompted, replies, route, words, sessions>>
  BY DEF Answer
<1>3. v \in Views /\ v.t \in Ts
  BY <1>1, <1>2, Viewed
<1>4. /\ w \in Views /\ w.t = v.t /\ w.session = v.session /\ w.pending = None
      /\ w.opening = v.opening /\ w.queued = v.queued /\ w.loading = v.loading /\ w # NoView
  <2>1. None \in Nat \cup {None}
    OBVIOUS
  <2>2. v \in Views
    BY <1>3
  <2> HIDE DEF v
  <2> QED
    BY <2>1, <2>2, VPending, VParts
<1> HIDE DEF w
<1>5. /\ view' \in [Nodes -> Views \cup {NoView}] /\ view'[n] = w
      /\ \A m \in Nodes : m # n => view'[m] = view[m]
  BY <1>1, <1>2, <1>4, OneView
<1>6. \A m \in Nodes : Text(m)' = Text(m)
  BY <1>2 DEF Text
<1>7. \A m \in Nodes : Live(m)' = Live(m)
  BY <1>2, <1>4, <1>5 DEF Live
<1>8. Typed'
  BY <1>1, <1>2, <1>5 DEF Typed
<1>9. Turns'
  BY <1>2 DEF AInvariant, Turns
<1>10. Owned'
  <2>1. RoutesAreOwn'
    BY <1>2, <1>4, <1>5, <1>7, RoutesStay
  <2>2. \A m \in Nodes : Live(m)' => Own(view[m])'
    <3> SUFFICES ASSUME NEW m \in Nodes, Live(m)' PROVE Own(view[m])'
      OBVIOUS
    <3>1. Own(view[m])
      BY <1>7 DEF AInvariant, Owned
    <3>2. CASE m = n
      BY <1>2, <1>4, <1>5, <3>1, <3>2 DEF Own, Idle, Answerable
    <3>3. CASE m # n
      BY <1>2, <1>5, <3>1, <3>3 DEF Own, Idle, Answerable
    <3> QED
      BY <3>2, <3>3
  <2> QED
    BY <2>1, <2>2 DEF Owned
<1>11. Queued'
  BY <1>2 DEF AInvariant, Queued
<1>12. InTime'
  <2> SUFFICES ASSUME NEW m \in Nodes
               PROVE  (IF Live(m) THEN Timed(view[m], Text(m)) ELSE InOrder(Text(m)) /\ AtMost(Text(m), words))'
    BY DEF InTime
  <2>1. CASE m # n
    BY <1>2, <1>5, <1>6, <2>1, OthersTimed
  <2>2. CASE m = n
    <3>1. Timed(v, Text(n))
      BY <1>2 DEF AInvariant, InTime
    <3>2. Timed(view[n], Text(n))'
      BY <1>2, <1>4, <1>5, <1>6, <3>1 DEF Timed
    <3> QED
      BY <1>2, <1>7, <2>2, <3>2
  <2> QED
    BY <2>1, <2>2
<1>13. Whole'
  <2>1. here' \subseteq Nodes
    BY <1>1, <1>2 DEF Typed
  <2>2. n \in here' /\ Live(n)' /\ ~view'[n].t.stale => Shows(view'[n].t, Text(n)')
    BY <1>2, <1>4, <1>5, <1>6, <1>7 DEF AInvariant, Whole
  <2>3. \A m \in Nodes : m # n => view'[m] = view[m] /\ Text(m)' = Text(m) /\ (m \in here' => m \in here)
    BY <1>2, <1>5, <1>6
  <2> QED
    BY <2>1, <2>2, <2>3, WholeStays
<1>14. Permits'
  <2> SUFFICES ASSUME process # "dead"
               PROVE  /\ waiting' \subseteq {asked'}
                      /\ asked' = None => waiting' = {}
                      /\ process = "none" => asked' = None
                      /\ \A x \in waiting' : x.session \in 1..sessions /\ (OnItsWay(x)' \/ Arrived(x)')
    BY <1>2 DEF Permits
  <2>1. /\ waiting \subseteq {asked} /\ (asked = None => waiting = {}) /\ (process = "none" => asked = None)
        /\ \A x \in waiting : x.session \in 1..sessions /\ (OnItsWay(x) \/ Arrived(x))
    BY DEF AInvariant, Permits
  <2>2. waiting' \subseteq waiting /\ \A x \in waiting' : x.id # v.pending
    BY <1>2
  <2>3. \A x : OnItsWay(x) => OnItsWay(x)'
    BY <1>2 DEF OnItsWay
  <2>4. ASSUME NEW x \in waiting', Arrived(x) PROVE Arrived(x)'
    <3>1. \A i \in DOMAIN events' : ~IsPermission(events'[i])
      BY <1>2, <2>4 DEF Arrived
    <3>2. CASE \E m \in Nodes : Live(m) /\ view[m].session = x.session /\ view[m].pending = x.id
      <4>1. PICK m \in Nodes : Live(m) /\ view[m].session = x.session /\ view[m].pending = x.id
        BY <3>2
      <4>2. m # n
        BY <2>2, <2>4, <4>1
      <4>3. Live(m)' /\ view'[m].session = x.session /\ view'[m].pending = x.id
        BY <1>5, <1>7, <4>1, <4>2
      <4> QED
        BY <3>1, <4>3 DEF Arrived
    <3>3. CASE \A m \in Nodes : Live(m) => view[m].session # x.session
      <4>1. \A m \in Nodes : Live(m)' => view'[m].session # x.session
        BY <1>4, <1>5, <1>7, <3>3
      <4> QED
        BY <3>1, <4>1 DEF Arrived
    <3> QED
      BY <2>4, <3>2, <3>3 DEF Arrived
  <2> QED
    BY <1>2, <2>1, <2>2, <2>3, <2>4
<1> QED
  BY <1>8, <1>9, <1>10, <1>11, <1>12, <1>13, <1>14 DEF AInvariant

\* A step of one node, when nothing is sent, read or asked meanwhile.
LEMMA OneNode ==
    ASSUME AInvariant, NEW n \in Nodes, replies' \subseteq replies,
           UNCHANGED <<process, running, wire, asked, waiting, prompted, events, route, words, sessions>>,
           view' \in [Nodes -> Views \cup {NoView}], doc' \in [Nodes -> Seq(Seq(Msgs))], here' \subseteq Nodes,
           \A m \in Nodes : m # n => view'[m] = view[m] /\ Text(m)' = Text(m) /\ (m \in here' => m \in here),
           Same(n),
           Live(n)' => Own(view[n])',
           (IF Live(n) THEN Timed(view[n], Text(n)) ELSE InOrder(Text(n)) /\ AtMost(Text(n), words))',
           n \in here' /\ Live(n)' /\ ~view'[n].t.stale => Shows(view'[n].t, Text(n)')
    PROVE  AInvariant'
<1>1. Typed' /\ Turns' /\ Queued'
  <2>1. Typed'
    BY DEF AInvariant, Typed
  <2>2. Turns'
    BY DEF AInvariant, Turns
  <2>3. Queued'
    BY DEF AInvariant, Queued
  <2> QED
    BY <2>1, <2>2, <2>3
<1>2. RoutesAreOwn'
  BY RoutesStay DEF Same
<1>3. Owned'
  <2>1. \A s : Answerable(s)' => Answerable(s)
    BY DEF Answerable
  <2>2. sessions \in Nat /\ sessions' \in Nat /\ sessions <= sessions'
    BY DEF AInvariant, Typed
  <2> QED
    BY <1>2, <2>1, <2>2, OwnStays
<1>4. InTime'
  <2> SUFFICES ASSUME NEW m \in Nodes
               PROVE  (IF Live(m) THEN Timed(view[m], Text(m)) ELSE InOrder(Text(m)) /\ AtMost(Text(m), words))'
    BY DEF InTime
  <2>1. CASE m # n
    BY <2>1, OthersTimed
  <2>2. CASE m = n
    BY <2>2
  <2> QED
    BY <2>1, <2>2
<1>5. Whole'
  BY WholeStays
<1>6. Permits'
  BY PermitsStay
<1> QED
  BY <1>1, <1>3, <1>4, <1>5, <1>6 DEF AInvariant

\* What is so of one node.
LEMMA AtOne ==
    ASSUME AInvariant, NEW n \in Nodes
    PROVE  /\ Live(n) => /\ view[n] \in Views /\ view[n].t \in Ts /\ Timed(view[n], Text(n)) /\ Own(view[n])
                         /\ n \in here /\ ~view[n].t.stale => Shows(view[n].t, Text(n))
           /\ ~Live(n) => view[n] = NoView /\ InOrder(Text(n)) /\ AtMost(Text(n), words)
           /\ Text(n) \in Seq(Msgs) /\ words \in Nat
<1>1. Typed /\ words \in Nat
  BY DEF AInvariant, Typed
<1> QED
  BY <1>1, Viewed DEF AInvariant, InTime, Owned, Whole

\* What is in time stays so when the view is as early as another that was.
LEMMA TimedStays ==
    ASSUME Typed, NEW n \in Nodes, NEW v, NEW c, Timed(v, c), view'[n].session = v.session,
           Fits(view'[n].t, Text(n)'),
           \A a \in Nat : UpTo(v.t, c, a) => UpTo(view'[n].t, Text(n)', a),
           UNCHANGED <<words, events, wire>>
    PROVE  Timed(view[n], Text(n))'
<1>1. words \in Nat
  BY DEF Typed
<1>2. UpTo(view'[n].t, Text(n)', words)
  BY <1>1 DEF Timed
<1>3. \A i \in DOMAIN events : events[i].session = v.session => UpTo(view'[n].t, Text(n)', events[i].at)
  BY OnTheWire DEF Timed
<1>4. \A i \in DOMAIN wire : wire[i].kind # "end" /\ wire[i].session = v.session => UpTo(view'[n].t, Text(n)', wire[i].at)
  BY OnTheWire DEF Timed
<1> QED
  BY <1>2, <1>3, <1>4 DEF Timed

\* A frame: a node that came gets a view, another adopts what the document has.
LEMMA DrawKeeps ==
    ASSUME AInvariant, NEW n \in Nodes, Draw(n)
    PROVE  AInvariant'
<1>1. Typed
  BY DEF AInvariant
<1>2. /\ n \in here
      /\ view' = IF Live(n) THEN SetT(n, Adopt(view[n].t, Text(n))) ELSE [view EXCEPT ![n] = NewView(n)]
      /\ UNCHANGED <<doc, here, replies, process, running, wire, asked, waiting, prompted, events, route, words, sessions>>
  BY DEF Draw, agent
<1>3. \A m \in Nodes : Text(m)' = Text(m)
  BY <1>2 DEF Text
<1>4. CASE Live(n)
  <2> DEFINE v == view[n]
             c == Text(n)
             u == Adopt(v.t, c)
             w == [v EXCEPT !.t = u]
  <2>1. /\ v \in Views /\ v.t \in Ts /\ Timed(v, c) /\ Own(v) /\ c \in Seq(Msgs)
        /\ ~v.t.stale => Shows(v.t, c)
    BY <1>2, <1>4, AtOne
  <2>2. view' = [view EXCEPT ![n] = w]
    BY <1>2, <1>4 DEF SetT
  <2>3. c = Text(n) /\ v = view[n]
    OBVIOUS
  <2> HIDE DEF v, c
  <2>4. /\ u \in Ts /\ Fits(u, c) /\ ~u.stale /\ Shows(u, c)
        /\ \A a \in Nat : UpTo(v.t, c, a) => UpTo(u, c, a)
        /\ u.staged = v.t.staged /\ u.answer = v.t.answer /\ u.thought = v.t.thought
    BY <2>1, AdoptGoes DEF Timed
  <2> HIDE DEF u
  <2>5. /\ w \in Views /\ w.t = u /\ w.session = v.session /\ w.pending = v.pending
        /\ w.opening = v.opening /\ w.queued = v.queued /\ w.loading = v.loading /\ w # NoView
    BY <2>1, <2>4, VTurn, VParts
  <2> HIDE DEF w
  <2>6. /\ view' \in [Nodes -> Views \cup {NoView}] /\ view'[n] = w
        /\ \A m \in Nodes : m # n => view'[m] = view[m]
    BY <1>1, <2>2, <2>5, OneView
  <2>7. Live(n)'
    BY <2>5, <2>6 DEF Live
  <2>8. Own(view[n])'
    BY <1>2, <2>1, <2>4, <2>5, <2>6 DEF Own, Idle, Answerable
  <2>9. Text(n)' = c
    BY <1>3, <2>3
  <2>10. Timed(view[n], Text(n))'
    <3>1. view'[n].session = v.session /\ Fits(view'[n].t, Text(n)') /\ Timed(v, c)
      BY <2>1, <2>4, <2>5, <2>6, <2>9
    <3>2. \A a \in Nat : UpTo(v.t, c, a) => UpTo(view'[n].t, Text(n)', a)
      BY <2>4, <2>5, <2>6, <2>9
    <3> QED
      BY <1>1, <1>2, <3>1, <3>2, TimedStays
  <2>11. Same(n)
    BY <1>4, <2>3, <2>5, <2>6, <2>7 DEF Same
  <2>12. Shows(view'[n].t, Text(n)')
    BY <2>4, <2>5, <2>6, <2>9
  <2>13. doc' \in [Nodes -> Seq(Seq(Msgs))] /\ here' \subseteq Nodes /\ here' = here /\ replies' = replies
    BY <1>1, <1>2 DEF Typed
  <2> QED
    BY <1>2, <1>3, <2>6, <2>7, <2>8, <2>10, <2>11, <2>12, <2>13, OneNode
<1>5. CASE ~Live(n)
  <2> DEFINE c == Text(n)
             u == NewTranscript(c)
             w == [live |-> TRUE, session |-> None, opening |-> FALSE, queued |-> FALSE,
                   pending |-> None, loading |-> FALSE, t |-> u]
  <2>1. c \in Seq(Msgs) /\ InOrder(c) /\ AtMost(c, words) /\ words \in Nat
    BY <1>5, AtOne
  <2>2. view' = [view EXCEPT ![n] = w]
    BY <1>2, <1>5 DEF NewView
  <2>3. c = Text(n)
    OBVIOUS
  <2> HIDE DEF c
  <2>4. /\ u \in Ts /\ Fits(u, c) /\ Shows(u, c) /\ ~u.stale
        /\ \A a \in Nat : AtMost(c, a) => UpTo(u, c, a)
        /\ u.staged = <<>> /\ u.answer = NoText /\ u.thought = NoText
    BY <2>1, NewFits
  <2> HIDE DEF u
  <2>5. /\ w \in Views /\ w.t = u /\ w.session = None /\ w.pending = None
        /\ w.opening = FALSE /\ w.queued = FALSE /\ w.loading = FALSE /\ w # NoView
    BY <2>4, VNew, VParts
  <2> HIDE DEF w
  <2>6. /\ view' \in [Nodes -> Views \cup {NoView}] /\ view'[n] = w
        /\ \A m \in Nodes : m # n => view'[m] = view[m]
    BY <1>1, <2>2, <2>5, OneView
  <2>7. Live(n)' /\ Same(n)
    BY <1>5, <2>5, <2>6 DEF Live, Same
  <2>8. Own(view[n])'
    BY <2>4, <2>5, <2>6 DEF Own, Idle
  <2>9. Text(n)' = c
    BY <1>3, <2>3
  <2>10. Timed(view[n], Text(n))'
    <3>1. \A i \in DOMAIN events : events[i].session # None
      BY <1>1, OnTheWire, NoneAssumption
    <3>2. \A i \in DOMAIN wire : wire[i].session # None
      BY <1>1, OnTheWire, NoneAssumption
    <3> QED
      BY <1>2, <2>1, <2>4, <2>5, <2>6, <2>9, <3>1, <3>2 DEF Timed
  <2>11. Shows(view'[n].t, Text(n)')
    BY <2>4, <2>5, <2>6, <2>9
  <2>12. doc' \in [Nodes -> Seq(Seq(Msgs))] /\ here' \subseteq Nodes /\ here' = here /\ replies' = replies
    BY <1>1, <1>2 DEF Typed
  <2> QED
    BY <1>2, <1>3, <2>6, <2>7, <2>8, <2>10, <2>11, <2>12, OneNode
<1> QED
  BY <1>4, <1>5

\* The page changes: what the view shows may be stale, but its turn goes on.
LEMMA StaleKeeps ==
    ASSUME AInvariant, NEW n \in Nodes, view' = Staled(n),
           doc' \in [Nodes -> Seq(Seq(Msgs))],
           \A m \in Nodes : m # n => Text(m)' = Text(m) /\ (m \in here' => m \in here),
           here' \subseteq Nodes,
           \E s \in Seq(Msgs) : Text(n) = Text(n)' \o s, Text(n)' \in Seq(Msgs),
           UNCHANGED <<process, running, wire, asked, waiting, prompted, events, replies, route, words, sessions>>
    PROVE  AInvariant'
<1>1. Typed
  BY DEF AInvariant
<1>2. PICK s \in Seq(Msgs) : Text(n) = Text(n)' \o s
  OBVIOUS
<1>3. CASE Live(n)
  <2> DEFINE v == view[n]
             u == [v.t EXCEPT !.stale = TRUE]
             w == [v EXCEPT !.t = u]
  <2>1. v \in Views /\ v.t \in Ts /\ Timed(v, Text(n)) /\ Own(v)
    BY <1>3, AtOne
  <2>2. view' = [view EXCEPT ![n] = w]
    BY <1>3 DEF Staled
  <2>3. v = view[n]
    OBVIOUS
  <2> HIDE DEF v
  <2>4. /\ u \in Ts /\ u.stale /\ (Fits(v.t, Text(n)') => Fits(u, Text(n)'))
        /\ \A a \in Nat : UpTo(v.t, Text(n)', a) => UpTo(u, Text(n)', a)
        /\ u.staged = v.t.staged /\ u.answer = v.t.answer /\ u.thought = v.t.thought
    BY <2>1, StaleGoes
  <2>5. /\ Fits(v.t, Text(n)' \o s) => Fits(v.t, Text(n)')
        /\ \A a \in Nat : UpTo(v.t, Text(n)' \o s, a) => UpTo(v.t, Text(n)', a)
    BY <2>1, ShorterFits
  <2> HIDE DEF u
  <2>6. /\ w \in Views /\ w.t = u /\ w.session = v.session /\ w.pending = v.pending
        /\ w.opening = v.opening /\ w.queued = v.queued /\ w.loading = v.loading /\ w # NoView
    BY <2>1, <2>4, VTurn, VParts
  <2> HIDE DEF w
  <2>7. /\ view' \in [Nodes -> Views \cup {NoView}] /\ view'[n] = w
        /\ \A m \in Nodes : m # n => view'[m] = view[m]
    BY <1>1, <2>2, <2>6, OneView
  <2>8. Live(n)' /\ Same(n)
    BY <1>3, <2>3, <2>6, <2>7 DEF Live, Same
  <2>9. Own(view[n])'
    BY <2>1, <2>4, <2>6, <2>7 DEF Own, Idle, Answerable
  <2>10. Timed(view[n], Text(n))'
    <3>1. view'[n].session = v.session /\ Fits(view'[n].t, Text(n)')
      BY <1>2, <2>1, <2>4, <2>5, <2>6, <2>7 DEF Timed
    <3>2. \A a \in Nat : UpTo(v.t, Text(n), a) => UpTo(view'[n].t, Text(n)', a)
      BY <1>2, <2>4, <2>5, <2>6, <2>7
    <3> QED
      BY <1>1, <2>1, <3>1, <3>2, TimedStays
  <2>11. view'[n].t.stale
    BY <2>4, <2>6, <2>7
  <2> QED
    BY <2>7, <2>8, <2>9, <2>10, <2>11, OneNode
<1>4. CASE ~Live(n)
  <2>1. view' = view /\ Live(n)' = Live(n)
    BY <1>4 DEF Staled, Live
  <2>2. InOrder(Text(n)) /\ AtMost(Text(n), words) /\ words \in Nat
    BY <1>4, AtOne
  <2>3. InOrder(Text(n)') /\ AtMost(Text(n)', words)
    BY <1>2, <2>2, OrderOfBoth, MostOfBoth
  <2>4. view' \in [Nodes -> Views \cup {NoView}] /\ Same(n)
    BY <1>1, <1>4, <2>1 DEF Typed, Same
  <2>5. (InOrder(Text(n)) /\ AtMost(Text(n), words))'
    BY <2>3
  <2> QED
    BY <1>4, <2>1, <2>4, <2>5, OneNode
<1> QED
  BY <1>3, <1>4

\* A node leaves the page, or returns to it.
LEMMA LeaveKeeps ==
    ASSUME AInvariant, NEW n \in Nodes, Leave(n) \/ Return(n)
    PROVE  AInvariant'
<1>1. Typed
  BY DEF AInvariant
<1>2. /\ view' = Staled(n) /\ doc' = doc /\ (here' = here \ {n} \/ here' = here \cup {n})
      /\ UNCHANGED <<process, running, wire, asked, waiting, prompted, events, replies, route, words, sessions>>
  BY DEF Leave, Return, agent
<1>3. \A m \in Nodes : Text(m)' = Text(m) /\ (m # n /\ m \in here' => m \in here)
  BY <1>2 DEF Text
<1>4. doc' \in [Nodes -> Seq(Seq(Msgs))] /\ here' \subseteq Nodes
  BY <1>1, <1>2 DEF Typed
<1>5. Text(n)' \in Seq(Msgs) /\ \E s \in Seq(Msgs) : Text(n) = Text(n)' \o s
  <2>1. Text(n) \in Seq(Msgs)
    BY AtOne
  <2>2. Text(n) = Text(n) \o <<>> /\ <<>> \in Seq(Msgs)
    BY <2>1
  <2> QED
    BY <1>3, <2>1, <2>2
<1> QED
  BY <1>2, <1>3, <1>4, <1>5, StaleKeeps

\* Undo takes the last turn out of the document.
LEMMA UndoKeeps ==
    ASSUME AInvariant, NEW n \in Nodes, Undo(n)
    PROVE  AInvariant'
<1>1. Typed
  BY DEF AInvariant
<1>2. /\ view' = Staled(n) /\ doc' = [doc EXCEPT ![n] = Front(@)] /\ here' = here /\ doc[n] # <<>>
      /\ UNCHANGED <<process, running, wire, asked, waiting, prompted, events, replies, route, words, sessions>>
  BY DEF Undo, agent
<1> DEFINE ds == doc[n]
<1>3. ds \in Seq(Seq(Msgs)) /\ ds # <<>>
  BY <1>1, <1>2, Viewed
<1> HIDE DEF ds
<1>4. /\ Front(ds) \in Seq(Seq(Msgs)) /\ FlattenSeq(Front(ds)) \in Seq(Msgs)
      /\ \E s \in Seq(Msgs) : FlattenSeq(ds) = FlattenSeq(Front(ds)) \o s
  BY <1>3, FlattenFront
<1>5. /\ doc' \in [Nodes -> Seq(Seq(Msgs))] /\ doc'[n] = Front(ds)
      /\ \A m \in Nodes : m # n => doc'[m] = doc[m]
  <2> DEFINE S == Seq(Seq(Msgs))
  <2>1. Front(ds) \in S /\ doc \in [Nodes -> S]
    BY <1>1, <1>4 DEF Typed
  <2> HIDE DEF S
  <2>2. doc' \in [Nodes -> S] /\ doc'[n] = Front(ds) /\ \A m \in Nodes : m # n => doc'[m] = doc[m]
    BY <1>2, <2>1 DEF ds
  <2> QED
    BY <2>2 DEF S
<1>6. Text(n)' = FlattenSeq(Front(ds)) /\ Text(n) = FlattenSeq(ds)
  BY <1>5 DEF Text, ds
<1>7. \A m \in Nodes : m # n => Text(m)' = Text(m) /\ (m \in here' => m \in here)
  BY <1>2, <1>5 DEF Text
<1>8. here' \subseteq Nodes
  BY <1>1, <1>2 DEF Typed
<1> QED
  BY <1>2, <1>4, <1>5, <1>6, <1>7, <1>8, StaleKeeps

\* A turn that ends is idle, and the document has what it staged.
LEMMA FinishKeeps ==
    ASSUME AInvariant, NEW n \in Nodes, Live(n), NEW v \in Views, NEW u \in Ts,
           v.session = view[n].session, v.pending = view[n].pending, v.opening => FALSE,
           Goes(view[n].t, u, Text(n)),
           \A a \in Nat : UpTo(view[n].t, Text(n), a) => UpTo(u, Text(n), a),
           FinishTurn(n, v, u), Fresh(n),
           v.session # None => ~Answerable(v.session)',
           here' = here, replies' \subseteq replies,
           UNCHANGED <<process, running, wire, asked, waiting, prompted, events, route, words, sessions>>
    PROVE  AInvariant'
<1>1. Typed
  BY DEF AInvariant
<1>2. /\ view[n].t \in Ts /\ Timed(view[n], Text(n)) /\ Own(view[n])
      /\ n \in here /\ ~view[n].t.stale => Shows(view[n].t, Text(n))
  BY AtOne
<1>3. Fits(u, Text(n)) /\ (n \in here => Shows(u, Text(n)))
  BY <1>2 DEF Goes, Fresh
<1>4. /\ doc' \in [Nodes -> Seq(Seq(Msgs))]
      /\ view' \in [Nodes -> Views \cup {NoView}]
      /\ \A m \in Nodes : m # n => view'[m] = view[m] /\ Text(m)' = Text(m)
      /\ view'[n] \in Views /\ view'[n].t \in Ts /\ Idle(view'[n]) /\ ~view'[n].loading
      /\ view'[n].session = v.session /\ view'[n].pending = v.pending /\ view'[n].opening = v.opening
      /\ Fits(view'[n].t, Text(n)')
      /\ \A a \in Nat : UpTo(u, Text(n), a) => UpTo(view'[n].t, Text(n)', a)
      /\ n \in here /\ Shows(u, Text(n)) => Shows(view'[n].t, Text(n)')
  BY <1>1, <1>3, FinishGoes
<1>5. Live(n)' /\ Same(n)
  BY <1>4, VParts DEF Live, Same
<1>6. Own(view[n])'
  <2>1. view'[n].session # None => view'[n].session \in 1..sessions'
    BY <1>2, <1>4 DEF Own
  <2>2. Idle(view[n])'
    BY <1>4 DEF Idle
  <2>3. view'[n].session # None => ~Answerable(view[n].session)'
    BY <1>4 DEF Answerable
  <2> QED
    BY <1>4, <2>1, <2>2, <2>3 DEF Own
<1>7. Timed(view[n], Text(n))'
  BY <1>1, <1>2, <1>4, TimedStays
<1>8. here' \subseteq Nodes
  BY <1>1 DEF Typed
<1> QED
  BY <1>3, <1>4, <1>5, <1>6, <1>7, <1>8, OneNode

\* A session that does not open ends the turn that waits for it.
LEMMA OpenFailsKeeps ==
    ASSUME AInvariant, NEW n \in Nodes, CalmOpenFails(n)
    PROVE  AInvariant'
<1> DEFINE v == [view[n] EXCEPT !.opening = FALSE, !.queued = FALSE]
           u == Push(view[n].t, Message("system", words))
<1>1. /\ Live(n) /\ Fresh(n) /\ view[n].opening
      /\ FinishTurn(n, v, u)
      /\ UNCHANGED <<here, events, replies, route, words, sessions, process, running, wire, asked, waiting, prompted>>
  BY DEF CalmOpenFails, OpenFails, agent
<1>2. /\ view[n] \in Views /\ view[n].t \in Ts /\ Timed(view[n], Text(n)) /\ Own(view[n])
      /\ Text(n) \in Seq(Msgs) /\ words \in Nat
  BY <1>1, AtOne
<1>3. /\ v \in Views /\ v.session = view[n].session /\ v.pending = view[n].pending /\ v.opening = FALSE
  BY <1>2, VNotOpening
<1>4. Goes(view[n].t, u, Text(n)) /\ \A a \in Nat : UpTo(view[n].t, Text(n), a) => UpTo(u, Text(n), a)
  BY <1>2, NoteGoes DEF Timed
<1>5. u \in Ts
  BY <1>4 DEF Goes
<1>6. v.session = None
  BY <1>1, <1>2, <1>3 DEF Own
<1> HIDE DEF u, v
<1> QED
  BY <1>1, <1>3, <1>4, <1>5, <1>6, FinishKeeps

\* The answer to a prompt ends the turn of its node, if it has not ended.
LEMMA ReplyKeeps ==
    ASSUME AInvariant, NEW r \in Replies, CalmReply(r)
    PROVE  AInvariant'
<1>1. Typed
  BY DEF AInvariant
<1>2. /\ r \in replies /\ replies' = replies \ {r} /\ SeenAll(r.session)
      /\ UNCHANGED <<here, events, route, words, sessions, process, running, wire, asked, waiting, prompted>>
  BY DEF CalmReply, Reply, agent
<1>3. r.session \in 1..sessions /\ r.session \in Nat /\ ~Answerable(r.session)'
  <2>1. r.session \in 1..sessions /\ r.session \notin prompted /\ \A q \in replies : q.session = r.session => q = r
    BY <1>2 DEF AInvariant, Turns
  <2>2. r.session \in Nat
    BY <2>1
  <2> QED
    BY <1>2, <2>1, <2>2 DEF Answerable, SeenAll
<1>4. CASE \E n \in Nodes : /\ Live(n) /\ view[n].session = r.session /\ view[n].loading
                            /\ FinishTurn(n, view[n], IF r.ok THEN view[n].t
                                                      ELSE Push(view[n].t, Message("system", words)))
  <2>1. PICK n \in Nodes : /\ Live(n) /\ view[n].session = r.session /\ view[n].loading
                           /\ FinishTurn(n, view[n], IF r.ok THEN view[n].t
                                                     ELSE Push(view[n].t, Message("system", words)))
    BY <1>4
  <2> DEFINE v == view[n]
             u == IF r.ok THEN v.t ELSE Push(v.t, Message("system", words))
  <2>2. /\ v \in Views /\ v.t \in Ts /\ Timed(v, Text(n)) /\ Own(v)
        /\ Text(n) \in Seq(Msgs) /\ words \in Nat
    BY <2>1, AtOne
  <2>3. Goes(v.t, u, Text(n)) /\ \A a \in Nat : UpTo(v.t, Text(n), a) => UpTo(u, Text(n), a)
    <3>1. CASE r.ok
      BY <2>2, <3>1 DEF Goes, Timed
    <3>2. CASE ~r.ok
      BY <2>2, <3>2, NoteGoes DEF Timed
    <3> QED
      BY <3>1, <3>2
  <2>4. u \in Ts
    BY <2>3 DEF Goes
  <2>5. v.opening => FALSE
    BY <1>3, <2>1, <2>2, NoneAssumption DEF Own
  <2>6. Fresh(n)
    BY <2>1 DEF CalmReply
  <2>7. FinishTurn(n, v, u) /\ v.session = view[n].session /\ v.pending = view[n].pending /\ v.t = view[n].t
    BY <2>1
  <2>8. \A s : s = r.session => ~Answerable(s)'
    BY <1>3 DEF Answerable
  <2>9. v.session = r.session
    BY <2>1
  <2> HIDE DEF u, v
  <2>10. ASSUME NEW x \in Views, x = v PROVE AInvariant'
    <3>1. /\ x.session = view[n].session /\ x.pending = view[n].pending /\ x.t = view[n].t
          /\ FinishTurn(n, x, u) /\ (x.opening => FALSE) /\ x.session = r.session
      BY <2>5, <2>7, <2>9, <2>10
    <3>2. ~Answerable(x.session)'
      BY <2>8, <3>1
    <3>3. /\ Goes(view[n].t, u, Text(n))
          /\ \A a \in Nat : UpTo(view[n].t, Text(n), a) => UpTo(u, Text(n), a)
      BY <2>3, <2>7
    <3>4. replies' \subseteq replies /\ Live(n)
      BY <1>2, <2>1
    <3> QED
      BY <1>2, <2>4, <2>6, <3>1, <3>2, <3>3, <3>4, FinishKeeps
  <2> QED
    BY <2>2, <2>10
<1>5. CASE /\ \A n \in Nodes : ~(Live(n) /\ view[n].session = r.session /\ view[n].loading)
           /\ UNCHANGED <<view, doc>>
  <2>1. \A n \in Nodes : Text(n)' = Text(n) /\ Live(n)' = Live(n)
    BY <1>5 DEF Text, Live
  <2>2. RoutesAreOwn'
    BY <1>2, <1>5, <2>1 DEF AInvariant, Owned, RoutesAreOwn
  <2>3. Owned'
    <3>1. \A s : Answerable(s)' => Answerable(s)
      BY <1>2 DEF Answerable
    <3>2. \A n \in Nodes : Live(n)' => Own(view[n])'
      BY <1>2, <1>5, <2>1, <3>1 DEF AInvariant, Owned, Own, Idle
    <3> QED
      BY <2>2, <3>2 DEF Owned
  <2>4. Typed' /\ Turns' /\ Queued'
    <3>1. Typed'
      BY <1>2, <1>5 DEF AInvariant, Typed
    <3>2. Turns'
      BY <1>2, <1>5 DEF AInvariant, Turns
    <3>3. Queued'
      BY <1>2 DEF AInvariant, Queued
    <3> QED
      BY <3>1, <3>2, <3>3
  <2>5. InTime'
    BY <1>2, <1>5, <2>1, OthersTimed DEF AInvariant, InTime
  <2>6. Whole'
    BY <1>2, <1>5, ViewsStay
  <2>7. Permits'
    BY <1>2, <1>5, <2>1 DEF AInvariant, Permits, OnItsWay, Arrived
  <2> QED
    BY <2>3, <2>4, <2>5, <2>6, <2>7 DEF AInvariant
<1> QED
  BY <1>4, <1>5 DEF CalmReply, Reply

\* A view that leaves the page is dropped, and its route with it.
LEMMA DropKeeps ==
    ASSUME AInvariant, NEW n \in Nodes, Drop(n)
    PROVE  AInvariant'
<1>1. Typed
  BY DEF AInvariant
<1>2. /\ n \notin here /\ Live(n) /\ view' = [view EXCEPT ![n] = NoView] /\ route' = Unrouted(n)
      /\ UNCHANGED <<doc, here, events, replies, words, sessions, process, running, wire, asked, waiting, prompted>>
  BY DEF Drop, agent
<1>3. /\ view' \in [Nodes -> Views \cup {NoView}] /\ view'[n] = NoView
      /\ \A m \in Nodes : m # n => view'[m] = view[m]
  <2>1. NoView \in Views \cup {NoView}
    OBVIOUS
  <2> QED
    BY <1>1, <1>2, <2>1, OneView
<1>4. \A m \in Nodes : Text(m)' = Text(m)
  BY <1>2 DEF Text
<1>5. ~Live(n)' /\ \A m \in Nodes : m # n => Live(m)' = Live(m)
  BY <1>3 DEF Live
<1>6. route' \in [Sessions -> Nodes \cup {None}] /\ \A s \in Sessions : route'[s] = IF view[n].session = s THEN None ELSE route[s]
  BY <1>1, <1>2 DEF Typed, Unrouted
<1>7. Typed'
  BY <1>1, <1>2, <1>3, <1>6 DEF Typed
<1>8. Turns' /\ Queued'
  BY <1>2 DEF AInvariant, Turns, Queued
<1>9. RoutesAreOwn'
  <2> SUFFICES ASSUME NEW s \in Sessions, NEW m \in Nodes
               PROVE  route'[s] = m <=> Live(m)' /\ view'[m].session = s
    BY DEF RoutesAreOwn
  <2>1. route[s] = m <=> Live(m) /\ view[m].session = s
    BY DEF AInvariant, Owned, RoutesAreOwn
  <2>2. m # None
    BY NoneAssumption
  <2>3. CASE m = n
    BY <1>5, <1>6, <2>1, <2>2, <2>3
  <2>4. CASE m # n /\ view[n].session = s
    <3>1. route[s] = n
      BY <1>2, <2>4 DEF AInvariant, Owned, RoutesAreOwn
    <3> QED
      BY <1>3, <1>5, <1>6, <2>1, <2>2, <2>4, <3>1
  <2>5. CASE m # n /\ view[n].session # s
    BY <1>3, <1>5, <1>6, <2>1, <2>5
  <2> QED
    BY <2>3, <2>4, <2>5
<1>10. Owned'
  <2>1. \A s : Answerable(s)' => Answerable(s)
    BY <1>2 DEF Answerable
  <2>2. sessions \in Nat /\ sessions' \in Nat /\ sessions <= sessions'
    BY <1>1, <1>2 DEF Typed
  <2> QED
    BY <1>2, <1>3, <1>5, <1>9, <2>1, <2>2, OwnStays
<1>11. InTime'
  <2> SUFFICES ASSUME NEW m \in Nodes
               PROVE  (IF Live(m) THEN Timed(view[m], Text(m)) ELSE InOrder(Text(m)) /\ AtMost(Text(m), words))'
    BY DEF InTime
  <2>1. CASE m # n
    BY <1>2, <1>3, <1>4, <2>1, OthersTimed
  <2>2. CASE m = n
    <3> DEFINE c == Text(n)
               s == view[n].t.staged
    <3>1. c \in Seq(Msgs) /\ s \in Seq(Msgs) /\ InOrder(c \o s) /\ AtMost(c \o s, words) /\ words \in Nat
      <4>1. view[n].t \in Ts /\ Timed(view[n], c) /\ c \in Seq(Msgs) /\ words \in Nat
        BY <1>2, AtOne
      <4> QED
        BY <4>1, TParts DEF Timed, Fits, UpTo
    <3>2. InOrder(c) /\ AtMost(c, words)
      <4> HIDE DEF c, s
      <4> QED
        BY <3>1, OrderOfBoth, MostOfBoth
    <3>3. InOrder(Text(n)') /\ AtMost(Text(n)', words')
      BY <1>2, <1>4, <3>2
    <3> QED
      BY <1>5, <2>2, <3>3
  <2> QED
    BY <2>1, <2>2
<1>12. Whole'
  <2>1. here' \subseteq Nodes
    BY <1>1, <1>2 DEF Typed
  <2>2. \A m \in Nodes : m # n => view'[m] = view[m] /\ Text(m)' = Text(m) /\ (m \in here' => m \in here)
    BY <1>2, <1>3, <1>4
  <2> QED
    BY <1>5, <2>1, <2>2, WholeStays
<1>13. Permits'
  <2>1. ASSUME NEW x \in waiting, Arrived(x), x.session \in 1..sessions PROVE Arrived(x)'
    <3>1. \A i \in DOMAIN events' : ~IsPermission(events'[i])
      BY <1>2, <2>1 DEF Arrived
    <3>2. x.session # None
      BY <2>1, NoneAssumption
    <3>3. CASE view[n].session = x.session
      <4>1. \A m \in Nodes : Live(m)' => view'[m].session # x.session
        <5> SUFFICES ASSUME NEW m \in Nodes, Live(m)', view'[m].session = x.session PROVE FALSE
          OBVIOUS
        <5>1. m # n /\ Live(m) /\ view[m].session = x.session
          BY <1>3, <1>5
        <5> QED
          BY <1>2, <3>2, <3>3, <5>1, OwnSessions
      <4> QED
        BY <3>1, <4>1 DEF Arrived
    <3>4. CASE view[n].session # x.session /\ \E m \in Nodes : Live(m) /\ view[m].session = x.session /\ view[m].pending = x.id
      <4>1. \E m \in Nodes : Live(m)' /\ view'[m].session = x.session /\ view'[m].pending = x.id
        BY <1>3, <1>5, <3>4
      <4> QED
        BY <3>1, <4>1 DEF Arrived
    <3>5. CASE \A m \in Nodes : Live(m) => view[m].session # x.session
      <4>1. \A m \in Nodes : Live(m)' => view'[m].session # x.session
        BY <1>3, <1>5, <3>5
      <4> QED
        BY <3>1, <4>1 DEF Arrived
    <3> QED
      BY <2>1, <3>3, <3>4, <3>5 DEF Arrived
  <2>2. \A x : OnItsWay(x) => OnItsWay(x)'
    BY <1>2 DEF OnItsWay
  <2> QED
    BY <1>2, <2>1, <2>2 DEF AInvariant, Permits
<1> QED
  BY <1>7, <1>8, <1>10, <1>11, <1>12, <1>13 DEF AInvariant

\* A node has its session, of which nobody has said anything.
LEMMA OpenedKeeps ==
    ASSUME AInvariant, NEW n \in Nodes, Opened(n)
    PROVE  AInvariant'
<1> DEFINE v == view[n]
           k == sessions + 1
           w == [v EXCEPT !.opening = FALSE, !.queued = FALSE, !.session = k]
<1>1. Typed
  BY DEF AInvariant
<1>2. /\ Live(n) /\ v.opening /\ process \in {"none", "up"} /\ asked = None /\ sessions < MaxSessions
      /\ sessions' = k /\ process' = "up" /\ view' = [view EXCEPT ![n] = w]
      /\ route' = [route EXCEPT ![k] = n]
      /\ running' = running \cup {k} /\ prompted' = prompted \cup {k}
      /\ UNCHANGED <<doc, here, wire, asked, waiting, events, replies, words>>
  BY DEF Opened
<1>3. /\ k \in Sessions /\ k \in Nat /\ k \notin 1..sessions /\ k \in 1..k /\ 1..sessions \subseteq 1..k
      /\ k \in 0..MaxSessions /\ sessions \in Nat /\ sessions <= k
  BY <1>1, <1>2, BoundsAssumption DEF Typed, Sessions
<1>4. v \in Views /\ v.t \in Ts /\ Timed(v, Text(n)) /\ Own(v)
  BY <1>2, AtOne
<1>5. v.session = None /\ v.loading
  BY <1>2, <1>4 DEF Own
<1>6. v = view[n]
  OBVIOUS
<1> HIDE DEF v, k
<1>7. /\ w \in Views /\ w.t = v.t /\ w.session = k /\ w.pending = v.pending
      /\ w.opening = FALSE /\ w.queued = FALSE /\ w.loading = v.loading /\ w # NoView
  BY <1>3, <1>4, VOpened, VParts
<1> HIDE DEF w
<1>8. /\ view' \in [Nodes -> Views \cup {NoView}] /\ view'[n] = w
      /\ \A m \in Nodes : m # n => view'[m] = view[m]
  BY <1>1, <1>2, <1>7, OneView
<1>9. \A m \in Nodes : Text(m)' = Text(m)
  BY <1>2 DEF Text
<1>10. \A m \in Nodes : Live(m)' = Live(m)
  BY <1>2, <1>7, <1>8 DEF Live
<1>11. route' \in [Sessions -> Nodes \cup {None}] /\ \A s \in Sessions : route'[s] = IF s = k THEN n ELSE route[s]
  BY <1>1, <1>2, <1>3 DEF Typed
<1>12. Typed'
  BY <1>1, <1>2, <1>3, <1>8, <1>11 DEF Typed
<1>13. Turns'
  <2>1. running' \subseteq prompted' /\ prompted' \subseteq 1..k
    BY <1>2, <1>3 DEF AInvariant, Turns
  <2>2. \A r \in replies : r.session \in 1..k /\ r.session \notin prompted'
    BY <1>2, <1>3 DEF AInvariant, Turns
  <2>3. \A i \in DOMAIN wire : wire[i].session \in prompted' /\ wire[i].session # k
    BY <1>2, <1>3 DEF AInvariant, Turns
  <2>4. \A i \in DOMAIN wire : wire[i].kind = "end" =>
          /\ wire[i].session \notin running'
          /\ \A j \in DOMAIN wire : j > i => wire[j].session # wire[i].session
    BY <1>2, <2>3 DEF AInvariant, Turns
  <2>5. \A i \in DOMAIN events : events[i].session \in 1..k
    BY <1>3 DEF AInvariant, Turns
  <2>6. \A r, q \in replies : r.session = q.session => r = q
    BY DEF AInvariant, Turns
  <2> QED
    BY <1>2, <2>1, <2>2, <2>3, <2>4, <2>5, <2>6 DEF Turns
<1>14. RoutesAreOwn'
  <2> SUFFICES ASSUME NEW s \in Sessions, NEW m \in Nodes
               PROVE  route'[s] = m <=> Live(m)' /\ view'[m].session = s
    BY DEF RoutesAreOwn
  <2>1. route[s] = m <=> Live(m) /\ view[m].session = s
    BY DEF AInvariant, Owned, RoutesAreOwn
  <2>2. s # None
    BY NoneAssumption DEF Sessions
  <2>3. Live(m) => view[m].session # k
    <3>1. Live(m) => (view[m].session # None => view[m].session \in 1..sessions)
      BY DEF AInvariant, Owned, Own
    <3>2. k # None
      BY <1>3, NoneAssumption
    <3> QED
      BY <1>3, <3>1, <3>2
  <2>4. CASE m = n
    BY <1>2, <1>5, <1>6, <1>7, <1>8, <1>10, <1>11, <2>1, <2>2, <2>4
  <2>5. CASE m # n
    BY <1>8, <1>10, <1>11, <2>1, <2>3, <2>5
  <2> QED
    BY <2>4, <2>5
<1>15. Owned'
  <2>1. \A s \in 1..sessions : Answerable(s)' => Answerable(s)
    BY <1>2, <1>3 DEF Answerable
  <2>2. Own(view[n])'
    BY <1>2, <1>3, <1>5, <1>7, <1>8 DEF Own
  <2>3. process # "unstarted"
    BY <1>2
  <2> QED
    BY <1>2, <1>3, <1>8, <1>14, <2>1, <2>2, <2>3, OwnStays
<1>16. Queued'
  BY <1>2 DEF AInvariant, Queued
<1>17. InTime'
  <2> SUFFICES ASSUME NEW m \in Nodes
               PROVE  (IF Live(m) THEN Timed(view[m], Text(m)) ELSE InOrder(Text(m)) /\ AtMost(Text(m), words))'
    BY DEF InTime
  <2>1. CASE m # n
    BY <1>2, <1>8, <1>9, <2>1, OthersTimed
  <2>2. CASE m = n
    <3>1. \A i \in DOMAIN events : events[i].session # k
      BY <1>3 DEF AInvariant, Turns
    <3>2. \A i \in DOMAIN wire : wire[i].session # k
      BY <1>3 DEF AInvariant, Turns
    <3>3. Timed(view[n], Text(n))'
      BY <1>2, <1>4, <1>7, <1>8, <1>9, <3>1, <3>2 DEF Timed
    <3> QED
      BY <1>2, <1>10, <2>2, <3>3
  <2> QED
    BY <2>1, <2>2
<1>18. Whole'
  <2>1. here' \subseteq Nodes
    BY <1>1, <1>2 DEF Typed
  <2>2. \A m \in Nodes : m # n => view'[m] = view[m] /\ Text(m)' = Text(m) /\ (m \in here' => m \in here)
    BY <1>2, <1>8, <1>9
  <2>3. n \in here' /\ Live(n)' /\ ~view'[n].t.stale => Shows(view'[n].t, Text(n)')
    BY <1>2, <1>6, <1>7, <1>8, <1>9, <1>10 DEF AInvariant, Whole
  <2> QED
    BY <2>1, <2>2, <2>3, WholeStays
<1>19. Permits'
  <2>1. waiting = {}
    BY <1>2 DEF AInvariant, Permits
  <2> QED
    BY <1>2, <2>1 DEF Permits
<1> QED
  BY <1>12, <1>13, <1>15, <1>16, <1>17, <1>18, <1>19 DEF AInvariant

\* A question begins a turn, in a session that owes nothing or before there is one.
LEMMA SendKeeps ==
    ASSUME AInvariant, NEW n \in Nodes, Send(n)
    PROVE  AInvariant'
<1> DEFINE v == view[n]
           s == v.session
           c == Text(n)
           u == Push(v.t, Message("user", words'))
           a == [v EXCEPT !.loading = TRUE, !.t = u]
           w == IF s = None THEN IF process = "unstarted" THEN Unanswerable(a) ELSE Opening(a) ELSE a
<1>1. Typed
  BY DEF AInvariant
<1>2. /\ Live(n) /\ ~v.loading /\ words' = words + 1
      /\ view' = [view EXCEPT ![n] = w]
      /\ IF s = None THEN UNCHANGED <<running, prompted, replies>> ELSE Prompt(s)
      /\ UNCHANGED <<doc, here, process, wire, asked, waiting, events, route, sessions>>
  BY DEF Send
<1>3. v \in Views /\ v.t \in Ts /\ Timed(v, c) /\ Own(v) /\ c \in Seq(Msgs) /\ words \in Nat /\ words' \in Nat
  BY <1>2, AtOne
<1>4. Idle(v) /\ (s # None => ~Answerable(s) /\ s \in 1..sessions)
  BY <1>2, <1>3 DEF Own
<1>5. v = view[n] /\ c = Text(n)
  OBVIOUS
<1> HIDE DEF v, c
<1>6. UpTo(v.t, c, words')
  BY <1>2, <1>3, LaterUpTo DEF Timed
<1>7. Goes(v.t, u, c) /\ \A b \in Nat : UpTo(v.t, c, b) /\ words' <= b => UpTo(u, c, b)
  BY <1>3, <1>4, <1>6, QuestionGoes DEF Timed, Idle
<1>8. /\ u \in Ts /\ Fits(u, c) /\ u.stale = v.t.stale /\ (Shows(v.t, c) => Shows(u, c)) /\ UpTo(u, c, words')
  BY <1>3, <1>6, <1>7 DEF Goes
<1>24. u.answer = NoText /\ u.thought = NoText
  BY <1>3, <1>4 DEF Push, Ts, Idle
<1> HIDE DEF u
<1>9. /\ a \in Views /\ a.t = u /\ a.session = s /\ a.pending = v.pending
      /\ a.opening = v.opening /\ a.queued = v.queued /\ a.loading = TRUE
  BY <1>3, <1>8, VAsking
<1> HIDE DEF a
<1>10. /\ w \in Views /\ w.t = u /\ w.session = s /\ w.pending = v.pending
       /\ w # NoView /\ (w.opening => s = None /\ w.loading)
       /\ w.loading \/ (s = None /\ process = "unstarted")
  <2>1. CASE s = None /\ process # "unstarted"
    <3>1. w = [a EXCEPT !.queued = TRUE, !.opening = TRUE]
      BY <2>1 DEF Opening
    <3> HIDE DEF s, w
    <3>2. /\ w \in Views /\ w.t = a.t /\ w.session = a.session /\ w.pending = a.pending /\ w.loading = a.loading
      BY <1>9, <3>1, VOpening
    <3>3. w # NoView
      BY <3>2, VParts
    <3>4. s = None
      BY <2>1
    <3> QED
      BY <1>9, <3>2, <3>3, <3>4
  <2>3. CASE s = None /\ process = "unstarted"
    <3>1. w = [a EXCEPT !.loading = FALSE, !.queued = TRUE]
      BY <2>3 DEF Unanswerable
    <3>2. ~v.opening
      BY <1>2, <1>3 DEF Own
    <3> HIDE DEF s, w
    <3>3. /\ w \in Views /\ w.t = a.t /\ w.session = a.session /\ w.pending = a.pending /\ w.opening = a.opening
      BY <1>9, <3>1, VUnanswerable
    <3>4. w # NoView
      BY <3>3, VParts
    <3>5. s = None /\ process = "unstarted"
      BY <2>3
    <3> QED
      BY <1>9, <3>2, <3>3, <3>4, <3>5
  <2>2. CASE s # None
    <3>1. w = a
      BY <2>2
    <3>2. ~v.opening
      BY <1>3, <2>2 DEF Own
    <3> HIDE DEF s, w
    <3> QED
      BY <1>9, <3>1, <3>2, VParts
  <2> QED
    BY <2>1, <2>2, <2>3
<1> HIDE DEF w, s
<1>11. /\ view' \in [Nodes -> Views \cup {NoView}] /\ view'[n] = w
       /\ \A m \in Nodes : m # n => view'[m] = view[m]
  BY <1>1, <1>2, <1>10, OneView
<1>12. \A m \in Nodes : Text(m)' = Text(m)
  BY <1>2 DEF Text
<1>13. \A m \in Nodes : Live(m)' = Live(m)
  BY <1>2, <1>10, <1>11 DEF Live
<1>14. s = view[n].session /\ (s # None => s \in Nat)
  BY <1>4, <1>5 DEF s
<1>15. /\ running' \subseteq running \cup {s} /\ running \subseteq running'
       /\ prompted' \subseteq prompted \cup {s} /\ prompted \subseteq prompted'
       /\ replies' \subseteq replies \cup {[session |-> s, ok |-> FALSE]}
       /\ s = None => UNCHANGED <<running, prompted, replies>>
       /\ s # None /\ process = "up" => running' = running \cup {s} /\ prompted' = prompted \cup {s} /\ replies' = replies
       /\ s # None /\ process # "up" => /\ running' = running /\ prompted' = prompted
                                        /\ replies' = replies \cup {[session |-> s, ok |-> FALSE]}
  BY <1>2 DEF Prompt
<1>16. Typed'
  <2>1. running' \subseteq Nat /\ prompted' \subseteq Nat
    BY <1>1, <1>14, <1>15 DEF Typed
  <2>2. replies' \subseteq [session : Nat, ok : BOOLEAN]
    <3>1. replies \subseteq [session : Nat, ok : BOOLEAN]
      BY <1>1 DEF Typed
    <3>2. s # None => [session |-> s, ok |-> FALSE] \in [session : Nat, ok : BOOLEAN]
      BY <1>14
    <3>3. s = None => replies' = replies
      BY <1>15
    <3> QED
      BY <1>15, <3>1, <3>2, <3>3
  <2> QED
    BY <1>1, <1>2, <1>3, <1>11, <2>1, <2>2 DEF Typed
<1>17. Turns'
  <2>1. CASE s = None
    BY <1>2, <1>15, <2>1 DEF AInvariant, Turns
  <2>2. CASE s # None /\ process = "up"
    <3>1. s \in 1..sessions /\ s \notin prompted /\ \A r \in replies : r.session # s
      BY <1>4, <2>2 DEF Answerable
    <3>2. running' = running \cup {s} /\ prompted' = prompted \cup {s} /\ replies' = replies
      BY <1>15, <2>2
    <3>3. \A i \in DOMAIN wire : wire[i].session \in prompted /\ wire[i].session # s
      BY <3>1 DEF AInvariant, Turns
    <3>4. \A i \in DOMAIN wire : wire[i].kind = "end" =>
            /\ wire[i].session \notin running'
            /\ \A j \in DOMAIN wire : j > i => wire[j].session # wire[i].session
      BY <3>2, <3>3 DEF AInvariant, Turns
    <3>5. running' \subseteq prompted' /\ prompted' \subseteq 1..sessions
      BY <3>1, <3>2 DEF AInvariant, Turns
    <3>6. \A r \in replies' : r.session \in 1..sessions /\ r.session \notin prompted'
      BY <3>1, <3>2 DEF AInvariant, Turns
    <3>7. /\ \A r, q \in replies : r.session = q.session => r = q
          /\ \A i \in DOMAIN events : events[i].session \in 1..sessions
      BY DEF AInvariant, Turns
    <3> QED
      BY <1>2, <2>2, <3>2, <3>3, <3>4, <3>5, <3>6, <3>7 DEF Turns
  <2>3. CASE s # None /\ process # "up"
    <3> DEFINE q == [session |-> s, ok |-> FALSE]
    <3>1. s \in 1..sessions /\ \A r \in replies : r.session # s
      BY <1>4, <2>3 DEF Answerable
    <3>2. running' = running /\ prompted' = prompted /\ replies' = replies \cup {q} /\ q.session = s
      BY <1>15, <2>3
    <3> HIDE DEF q
    <3>3. prompted = {}
      BY <2>3 DEF AInvariant, Turns
    <3>4. \A r \in replies' : r.session \in 1..sessions
      BY <3>1, <3>2 DEF AInvariant, Turns
    <3>5. \A r, p \in replies' : r.session = p.session => r = p
      BY <3>1, <3>2 DEF AInvariant, Turns
    <3> QED
      BY <1>2, <3>2, <3>3, <3>4, <3>5 DEF AInvariant, Turns
  <2> QED
    BY <2>1, <2>2, <2>3
<1>18. RoutesAreOwn'
  BY <1>2, <1>10, <1>11, <1>13, <1>14, RoutesStay
<1>19. Owned'
  <2>1. \A x : x # s /\ Answerable(x)' => Answerable(x)
    <3>1. \A r \in replies' : r \in replies \/ r.session = s
      BY <1>15
    <3>2. \A x \in prompted' : x \in prompted \/ x = s
      BY <1>15
    <3> QED
      BY <1>2, <3>1, <3>2 DEF Answerable
  <2>2. Own(view[n])'
    BY <1>2, <1>4, <1>10, <1>11, <1>24 DEF Own, Idle
  <2>3. ASSUME NEW m \in Nodes, NEW x \in 1..sessions, m # n, Live(m), view[m].session = x, Answerable(x)'
        PROVE  Answerable(x)
    <3>1. x # None
      BY NoneAssumption
    <3>2. x # s
      BY <1>2, <1>14, <2>3, <3>1, OwnSessions
    <3> QED
      BY <2>1, <2>3, <3>2
  <2>4. sessions \in Nat /\ sessions' \in Nat /\ sessions <= sessions'
    BY <1>1, <1>2 DEF Typed
  <2> QED
    BY <1>2, <1>11, <1>18, <2>2, <2>3, <2>4, OwnStays
<1>20. Queued'
  <2>1. \A i \in DOMAIN events : events[i].at <= words'
    BY <1>1, <1>2, <1>3, OnTheWire DEF AInvariant, Queued
  <2>2. \A i \in DOMAIN wire : wire[i].at <= words'
    BY <1>1, <1>2, <1>3, OnTheWire DEF AInvariant, Queued
  <2> QED
    BY <1>2, <2>1, <2>2 DEF AInvariant, Queued
<1>21. InTime'
  <2> SUFFICES ASSUME NEW m \in Nodes
               PROVE  (IF Live(m) THEN Timed(view[m], Text(m)) ELSE InOrder(Text(m)) /\ AtMost(Text(m), words))'
    BY DEF InTime
  <2>1. CASE m # n /\ Live(m)
    <3>1. view[m].t \in Ts /\ Text(m) \in Seq(Msgs) /\ Timed(view[m], Text(m))
      BY <2>1, AtOne
    <3>2. UpTo(view[m].t, Text(m), words')
      BY <1>2, <1>3, <3>1, LaterUpTo DEF Timed
    <3>3. Timed(view[m], Text(m))'
      BY <1>2, <1>11, <1>12, <2>1, <3>1, <3>2 DEF Timed
    <3> QED
      BY <1>13, <2>1, <3>3
  <2>2. CASE m # n /\ ~Live(m)
    <3>1. Text(m) \in Seq(Msgs) /\ InOrder(Text(m)) /\ AtMost(Text(m), words)
      BY <2>2, AtOne
    <3>2. AtMost(Text(m), words')
      BY <1>2, <1>3, <3>1, LaterMost
    <3>3. InOrder(Text(m)') /\ AtMost(Text(m)', words')
      BY <1>12, <3>1, <3>2
    <3> QED
      BY <1>13, <2>2, <3>3
  <2>3. CASE m = n
    <3>1. \A i \in DOMAIN events : events[i].session # s
      <4>1. \A i \in DOMAIN events : events[i].session # None
        BY <1>1, OnTheWire, NoneAssumption
      <4> QED
        BY <1>4, <4>1 DEF Answerable
    <3>2. \A i \in DOMAIN wire : wire[i].session # s
      <4>1. \A i \in DOMAIN wire : wire[i].session # None /\ wire[i].session \in prompted
        BY <1>1, OnTheWire, NoneAssumption DEF AInvariant, Turns
      <4> QED
        BY <1>4, <4>1 DEF Answerable
    <3>3. Text(n)' = c
      BY <1>5, <1>12
    <3>4. Timed(view[n], Text(n))'
      BY <1>2, <1>8, <1>10, <1>11, <3>1, <3>2, <3>3 DEF Timed
    <3> QED
      BY <1>2, <1>13, <2>3, <3>4
  <2> QED
    BY <2>1, <2>2, <2>3
<1>22. Whole'
  <2>1. here' \subseteq Nodes
    BY <1>1, <1>2 DEF Typed
  <2>2. \A m \in Nodes : m # n => view'[m] = view[m] /\ Text(m)' = Text(m) /\ (m \in here' => m \in here)
    BY <1>2, <1>11, <1>12
  <2>3. n \in here' /\ Live(n)' /\ ~view'[n].t.stale => Shows(view'[n].t, Text(n)')
    BY <1>2, <1>5, <1>8, <1>10, <1>11, <1>12, <1>13 DEF AInvariant, Whole
  <2> QED
    BY <2>1, <2>2, <2>3, WholeStays
<1>23. Permits'
  <2>1. Same(n)
    BY <1>2, <1>5, <1>10, <1>11, <1>13, <1>14 DEF Same
  <2> QED
    BY <1>2, <1>11, <2>1, PermitsStay
<1> QED
  BY <1>16, <1>17, <1>19, <1>20, <1>21, <1>22, <1>23 DEF AInvariant

\* What the window has read.
LEMMA Taken ==
    ASSUME Typed, events # <<>>, events' = Tail(events)
    PROVE  /\ Head(events) = events[1] /\ 1 \in DOMAIN events /\ Head(events) \in Updates
           /\ events' \in Seq(Updates)
           /\ \A i \in DOMAIN events' : i \in Nat /\ i + 1 \in DOMAIN events /\ 1 < i + 1 /\ events'[i] = events[i + 1]
           /\ \A i \in DOMAIN events : i = 1 \/ (i - 1 \in DOMAIN events' /\ events'[i - 1] = events[i] /\ 1 < i)
<1>1. events \in Seq(Updates)
  BY DEF Typed
<1> DEFINE C == Updates
           s == events
<1>2. s \in Seq(C) /\ s # <<>>
  BY <1>1
<1> HIDE DEF C, s
<1>3. /\ Head(s) = s[1] /\ 1 \in DOMAIN s /\ Head(s) \in C
      /\ Tail(s) \in Seq(C)
      /\ \A i \in DOMAIN Tail(s) : i \in Nat /\ i + 1 \in DOMAIN s /\ 1 < i + 1 /\ Tail(s)[i] = s[i + 1]
      /\ \A i \in DOMAIN s : i = 1 \/ (i - 1 \in DOMAIN Tail(s) /\ Tail(s)[i - 1] = s[i] /\ 1 < i)
  BY <1>2, FirstAndRest
<1> QED
  BY <1>3 DEF C, s

\* What goes on without the first event.
LEMMA FirstTaken ==
    ASSUME AInvariant, Route
    PROVE  /\ Turns' /\ Queued' /\ \A s : Answerable(s)' => Answerable(s)
           /\ \A m \in Nodes : Text(m)' = Text(m)
           /\ \A m \in Nodes : /\ view'[m] = view[m]
                               => (IF Live(m) THEN Timed(view[m], Text(m)) ELSE InOrder(Text(m)) /\ AtMost(Text(m), words))'
<1>1. Typed
  BY DEF AInvariant
<1>2. /\ events # <<>> /\ events' = Tail(events)
      /\ UNCHANGED <<doc, here, replies, words, sessions, process, running, wire, asked, waiting, prompted>>
  BY DEF Route, agent
<1>3. \A i \in DOMAIN events' : i \in Nat /\ i + 1 \in DOMAIN events /\ 1 < i + 1 /\ events'[i] = events[i + 1]
  BY <1>1, <1>2, Taken
<1>4. Turns'
  <2>1. \A i \in DOMAIN events' : events'[i].session \in 1..sessions
    BY <1>3 DEF AInvariant, Turns
  <2> QED
    BY <1>2, <2>1 DEF AInvariant, Turns
<1>5. Queued'
  <2>1. \A i, j \in DOMAIN events' : i < j => events'[i].at < events'[j].at
    <3>1. \A i, j \in DOMAIN events' : i < j => i + 1 < j + 1
      BY <1>3
    <3> QED
      BY <1>3, <3>1 DEF AInvariant, Queued
  <2>2. \A i \in DOMAIN events', j \in DOMAIN wire : wire[j].kind # "end" => events'[i].at < wire[j].at
    BY <1>3 DEF AInvariant, Queued
  <2>3. \A i \in DOMAIN events' : events'[i].at <= words
    BY <1>3 DEF AInvariant, Queued
  <2> QED
    BY <1>2, <2>1, <2>2, <2>3 DEF AInvariant, Queued
<1>6. \A s : Answerable(s)' => Answerable(s)
  BY <1>2, <1>3 DEF Answerable
<1>7. \A m \in Nodes : Text(m)' = Text(m)
  BY <1>2 DEF Text
<1>8. ASSUME NEW m \in Nodes, view'[m] = view[m]
      PROVE  (IF Live(m) THEN Timed(view[m], Text(m)) ELSE InOrder(Text(m)) /\ AtMost(Text(m), words))'
  <2>1. Live(m)' = Live(m)
    BY <1>8 DEF Live
  <2>2. Live(m) => Timed(view[m], Text(m))'
    BY <1>2, <1>3, <1>7, <1>8, AtOne DEF Timed
  <2>3. ~Live(m) => InOrder(Text(m)') /\ AtMost(Text(m)', words')
    BY <1>2, <1>7, AtOne
  <2> QED
    BY <2>1, <2>2, <2>3
<1> QED
  BY <1>4, <1>5, <1>6, <1>7, <1>8

\* A permission request, or a place for one, is where it was or has just been shown.
LEMMA RoutedPermits ==
    ASSUME AInvariant, Route,
           \A m \in Nodes : Live(m)' = Live(m) /\ (Live(m) => view'[m].session = view[m].session),
           ~IsPermission(Head(events)) => \A m \in Nodes : Live(m) => view'[m].pending = view[m].pending,
           IsPermission(Head(events)) =>
              \/ \E m \in Nodes : Live(m) /\ view'[m].session = Head(events).session /\ view'[m].pending = Head(events).at
              \/ \A m \in Nodes : Live(m) => view[m].session # Head(events).session
    PROVE  Permits'
<1>1. Typed
  BY DEF AInvariant
<1>2. /\ events # <<>> /\ events' = Tail(events)
      /\ UNCHANGED <<doc, here, replies, words, sessions, process, running, wire, asked, waiting, prompted>>
  BY DEF Route, agent
<1>3. /\ Head(events) = events[1] /\ 1 \in DOMAIN events
      /\ \A i \in DOMAIN events' : i \in Nat /\ i + 1 \in DOMAIN events /\ 1 < i + 1 /\ events'[i] = events[i + 1]
      /\ \A i \in DOMAIN events : i = 1 \/ (i - 1 \in DOMAIN events' /\ events'[i - 1] = events[i] /\ 1 < i)
  BY <1>1, <1>2, Taken
<1>4. ASSUME NEW x \in waiting, OnItsWay(x) PROVE OnItsWay(x)' \/ Arrived(x)'
  <2>1. PICK i \in DOMAIN events : IsPermission(events[i]) /\ events[i].at = x.id /\ events[i].session = x.session
    BY <1>4 DEF OnItsWay
  <2>2. CASE i = 1
    <3>1. \A j \in DOMAIN events' : ~IsPermission(events'[j])
      <4> SUFFICES ASSUME NEW j \in DOMAIN events', IsPermission(events'[j]) PROVE FALSE
        OBVIOUS
      <4>1. events'[j] = events[j + 1] /\ j + 1 \in DOMAIN events /\ 1 < j + 1
        BY <1>3
      <4>2. events[j + 1].at <= x.id /\ events[1].at < events[j + 1].at
        BY <1>3, <1>4, <4>1 DEF OnItsWay, AInvariant, Queued
      <4>3. x.id \in Nat /\ events[j + 1].at \in Nat
        BY <1>1, <2>1, <4>1, OnTheWire
      <4> QED
        BY <2>1, <2>2, <4>2, <4>3
    <3>2. Head(events) = events[1] /\ IsPermission(Head(events)) /\ Head(events).at = x.id /\ Head(events).session = x.session
      BY <1>3, <2>1, <2>2
    <3>3. CASE \E m \in Nodes : Live(m) /\ view'[m].session = Head(events).session /\ view'[m].pending = Head(events).at
      <4>1. \E m \in Nodes : Live(m)' /\ view'[m].session = x.session /\ view'[m].pending = x.id
        BY <3>2, <3>3
      <4> QED
        BY <3>1, <4>1 DEF Arrived
    <3>4. CASE \A m \in Nodes : Live(m) => view[m].session # Head(events).session
      <4>1. \A m \in Nodes : Live(m)' => view'[m].session # x.session
        BY <3>2, <3>4
      <4> QED
        BY <3>1, <4>1 DEF Arrived
    <3> QED
      BY <3>2, <3>3, <3>4
  <2>3. CASE i # 1
    <3>1. i - 1 \in DOMAIN events' /\ events'[i - 1] = events[i]
      BY <1>3, <2>3
    <3>2. \A j \in DOMAIN events' : IsPermission(events'[j]) => events'[j].at <= x.id
      BY <1>3, <1>4 DEF OnItsWay
    <3>3. OnItsWay(x)'
      BY <2>1, <3>1, <3>2 DEF OnItsWay
    <3> QED
      BY <3>3
  <2> QED
    BY <2>2, <2>3
<1>5. ASSUME NEW x \in waiting, Arrived(x) PROVE Arrived(x)'
  <2>1. \A j \in DOMAIN events' : ~IsPermission(events'[j])
    BY <1>3, <1>5 DEF Arrived
  <2>2. ~IsPermission(Head(events))
    BY <1>3, <1>5 DEF Arrived
  <2>3. CASE \E m \in Nodes : Live(m) /\ view[m].session = x.session /\ view[m].pending = x.id
    <3>1. \E m \in Nodes : Live(m)' /\ view'[m].session = x.session /\ view'[m].pending = x.id
      BY <2>2, <2>3
    <3> QED
      BY <2>1, <3>1 DEF Arrived
  <2>4. CASE \A m \in Nodes : Live(m) => view[m].session # x.session
    <3>1. \A m \in Nodes : Live(m)' => view'[m].session # x.session
      BY <2>4
    <3> QED
      BY <2>1, <3>1 DEF Arrived
  <2> QED
    BY <1>5, <2>3, <2>4 DEF Arrived
<1> QED
  BY <1>2, <1>4, <1>5 DEF AInvariant, Permits

\* An event goes to the node of its session, or nowhere.
LEMMA RouteKeeps ==
    ASSUME AInvariant, Route
    PROVE  AInvariant'
<1> DEFINE e == Head(events)
           s == e.session
           n == route[s]
<1>1. Typed
  BY DEF AInvariant
<1>2. /\ events # <<>> /\ events' = Tail(events)
      /\ IF n # None /\ Live(n) THEN view' = [view EXCEPT ![n] = Receive(@, e)] /\ UNCHANGED route
         ELSE route' = [route EXCEPT ![s] = None] /\ UNCHANGED view
      /\ UNCHANGED <<doc, here, replies, words, sessions, process, running, wire, asked, waiting, prompted>>
  BY DEF Route, agent
<1>3. /\ e = events[1] /\ 1 \in DOMAIN events /\ e \in Updates
      /\ events' \in Seq(Updates)
      /\ \A i \in DOMAIN events' : i \in Nat /\ i + 1 \in DOMAIN events /\ 1 < i + 1 /\ events'[i] = events[i + 1]
  BY <1>1, <1>2, Taken
<1>4. s \in 1..sessions /\ s \in Sessions /\ s \in Nat /\ e.at \in Nat /\ e.kind \in Spoken \cup {"permission"}
  <2>1. s \in 1..sessions /\ sessions \in 0..MaxSessions
    BY <1>1, <1>3 DEF AInvariant, Turns, Typed
  <2>2. s \in Sessions
    BY <2>1, BoundsAssumption DEF Sessions
  <2> QED
    BY <1>1, <1>3, <2>1, <2>2, OnTheWire
<1>5. n \in Nodes \cup {None}
  BY <1>1, <1>4 DEF Typed
<1>6. e = Head(events)
  OBVIOUS
<1>7. /\ Turns' /\ Queued' /\ \A x : Answerable(x)' => Answerable(x)
      /\ \A m \in Nodes : Text(m)' = Text(m)
      /\ \A m \in Nodes : /\ view'[m] = view[m]
                          => (IF Live(m) THEN Timed(view[m], Text(m)) ELSE InOrder(Text(m)) /\ AtMost(Text(m), words))'
  BY FirstTaken
<1>8. here' \subseteq Nodes /\ sessions \in Nat /\ sessions' \in Nat /\ sessions <= sessions'
  BY <1>1, <1>2 DEF Typed
<1>9. n = route[s] /\ s = e.session
  OBVIOUS
<1> HIDE DEF e, n, s
<1>10. CASE n # None /\ Live(n)
  <2> DEFINE v == view[n]
             c == Text(n)
             w == Receive(v, e)
  <2>1. n \in Nodes /\ v.session = s
    <3>1. n \in Nodes
      BY <1>5, <1>10
    <3> QED
      BY <1>4, <1>9, <1>10, <3>1 DEF AInvariant, Owned, RoutesAreOwn
  <2>2. /\ v \in Views /\ v.t \in Ts /\ Timed(v, c) /\ Own(v) /\ c \in Seq(Msgs) /\ words \in Nat
    BY <1>10, <2>1, AtOne
  <2>3. v.loading
    <3>1. Answerable(v.session)
      BY <1>3, <1>9, <2>1 DEF Answerable
    <3>2. v.session # None
      BY <1>4, <2>1, NoneAssumption
    <3> QED
      BY <2>2, <3>1, <3>2 DEF Own
  <2>4. view' = [view EXCEPT ![n] = w] /\ route' = route
    BY <1>2, <1>10
  <2>5. v = view[n] /\ c = Text(n)
    OBVIOUS
  <2>6. UpTo(v.t, c, e.at) /\ e.at <= words
    BY <1>3, <1>9, <2>1, <2>2 DEF Timed, AInvariant, Queued
  <2> HIDE DEF v, c
  <2>7. /\ w \in Views /\ w.session = v.session /\ w.opening = v.opening /\ w.loading = v.loading
        /\ Goes(v.t, w.t, c)
        /\ \A a \in Nat : UpTo(v.t, c, a) /\ e.at <= a => UpTo(w.t, c, a)
        /\ e.kind = "permission" => w.pending = e.at
        /\ e.kind # "permission" => w.pending = v.pending
    <3>1. CASE e.kind = "permission"
      <4>1. w = [v EXCEPT !.pending = e.at]
        BY <3>1 DEF Receive
      <4>2. /\ w \in Views /\ w.t = v.t /\ w.session = v.session /\ w.pending = e.at
            /\ w.opening = v.opening /\ w.loading = v.loading
        <5>1. e.at \in Nat \cup {None}
          BY <1>4
        <5> HIDE DEF w
        <5> QED
          BY <2>2, <4>1, <5>1, VPending
      <4> HIDE DEF w
      <4> QED
        BY <2>2, <3>1, <4>2 DEF Goes, Timed
    <3>2. CASE e.kind # "permission"
      <4> DEFINE u == Apply(v.t, e.kind, e.at)
      <4>1. w = [v EXCEPT !.t = u]
        BY <3>2 DEF Receive
      <4>2. e.kind \in Spoken
        BY <1>4, <3>2
      <4>3. Goes(v.t, u, c) /\ \A a \in Nat : UpTo(v.t, c, a) /\ e.at <= a => UpTo(u, c, a)
        BY <1>4, <2>2, <2>6, <4>2, ApplyGoes DEF Timed
      <4>4. u \in Ts
        BY <4>3 DEF Goes
      <4> HIDE DEF u, w
      <4>5. /\ w \in Views /\ w.t = u /\ w.session = v.session /\ w.pending = v.pending
            /\ w.opening = v.opening /\ w.loading = v.loading
        BY <2>2, <4>1, <4>4, VTurn
      <4> QED
        BY <3>2, <4>3, <4>5
    <3> QED
      BY <3>1, <3>2
  <2> HIDE DEF w
  <2>8. w.t \in Ts /\ Fits(w.t, c) /\ w.t.stale = v.t.stale /\ (Shows(v.t, c) => Shows(w.t, c)) /\ w # NoView
    BY <2>7, VParts DEF Goes
  <2>9. /\ view' \in [Nodes -> Views \cup {NoView}] /\ view'[n] = w
        /\ \A m \in Nodes : m # n => view'[m] = view[m]
    BY <1>1, <2>1, <2>4, <2>7, OneView
  <2>10. \A m \in Nodes : Live(m)' = Live(m) /\ (Live(m) => view'[m].session = view[m].session)
    <3>1. ASSUME NEW m \in Nodes PROVE Live(m)' = Live(m) /\ view'[m].session = view[m].session
      <4>1. CASE m = n
        BY <1>10, <2>5, <2>7, <2>8, <2>9, <4>1 DEF Live
      <4>2. CASE m # n
        BY <2>9, <4>2 DEF Live
      <4> QED
        BY <4>1, <4>2
    <3> QED
      BY <3>1
  <2>11. Typed'
    BY <1>1, <1>2, <1>3, <2>4, <2>9 DEF Typed
  <2>12. ASSUME NEW k \in Nodes, k = n PROVE AInvariant'
    <3>1. Live(k) /\ Live(k)' /\ view'[k] = w /\ \A m \in Nodes : m # k => view'[m] = view[m]
      BY <1>10, <2>9, <2>10, <2>12
    <3>2. Text(k)' = c /\ view[k] = v
      BY <1>7, <2>5, <2>12
    <3>3. RoutesAreOwn'
      BY <2>4, <2>7, <3>1, <3>2, RoutesStay
    <3>4. Own(view[k])'
      BY <1>2, <2>2, <2>3, <2>7, <3>1 DEF Own
    <3>5. Owned'
      BY <1>2, <1>7, <1>8, <3>1, <3>3, <3>4, OwnStays
    <3>6. Timed(view[k], Text(k))'
      <4>1. UpTo(w.t, c, words)
        BY <2>2, <2>6, <2>7 DEF Timed
      <4>2. \A i \in DOMAIN events' : events'[i].session = v.session => UpTo(w.t, c, events'[i].at)
        <5> SUFFICES ASSUME NEW i \in DOMAIN events', events'[i].session = v.session
                     PROVE  UpTo(w.t, c, events'[i].at)
          OBVIOUS
        <5>1. i + 1 \in DOMAIN events /\ 1 < i + 1 /\ events'[i] = events[i + 1]
          BY <1>3
        <5>2. e.at < events[i + 1].at /\ events[i + 1].at \in Nat
          BY <1>1, <1>3, <5>1, OnTheWire DEF AInvariant, Queued
        <5>3. UpTo(v.t, c, events[i + 1].at) /\ e.at <= events[i + 1].at
          BY <1>4, <2>2, <5>1, <5>2 DEF Timed
        <5> QED
          BY <2>7, <5>1, <5>2, <5>3
      <4>3. \A i \in DOMAIN wire : wire[i].kind # "end" /\ wire[i].session = v.session => UpTo(w.t, c, wire[i].at)
        <5> SUFFICES ASSUME NEW i \in DOMAIN wire, wire[i].kind # "end", wire[i].session = v.session
                     PROVE  UpTo(w.t, c, wire[i].at)
          OBVIOUS
        <5>1. e.at < wire[i].at /\ wire[i].at \in Nat
          BY <1>1, <1>3, OnTheWire DEF AInvariant, Queued
        <5>2. UpTo(v.t, c, wire[i].at) /\ e.at <= wire[i].at
          BY <1>4, <2>2, <5>1 DEF Timed
        <5> QED
          BY <2>7, <5>1, <5>2
      <4> QED
        BY <1>2, <2>7, <2>8, <3>1, <3>2, <4>1, <4>2, <4>3 DEF Timed
    <3>7. InTime'
      <4> SUFFICES ASSUME NEW m \in Nodes
                   PROVE  (IF Live(m) THEN Timed(view[m], Text(m)) ELSE InOrder(Text(m)) /\ AtMost(Text(m), words))'
        BY DEF InTime
      <4>1. CASE m # k
        BY <1>7, <3>1, <4>1
      <4>2. CASE m = k
        BY <3>1, <3>6, <4>2
      <4> QED
        BY <4>1, <4>2
    <3>8. Whole'
      <4>1. k \in here' /\ Live(k)' /\ ~view'[k].t.stale => Shows(view'[k].t, Text(k)')
        BY <1>2, <2>5, <2>8, <3>1, <3>2, <2>12, AtOne
      <4>2. \A m \in Nodes : m # k => view'[m] = view[m] /\ Text(m)' = Text(m) /\ (m \in here' => m \in here)
        BY <1>2, <1>7, <3>1
      <4> QED
        BY <1>8, <4>1, <4>2, WholeStays
    <3>9. Permits'
      <4>1. ~IsPermission(e) => \A m \in Nodes : Live(m) => view'[m].pending = view[m].pending
        BY <2>7, <3>1, <3>2 DEF IsPermission
      <4>2. IsPermission(e) => \E m \in Nodes : Live(m) /\ view'[m].session = e.session /\ view'[m].pending = e.at
        BY <1>9, <2>1, <2>7, <3>1 DEF IsPermission
      <4> QED
        BY <1>6, <2>10, <4>1, <4>2, RoutedPermits
    <3> QED
      BY <1>7, <2>11, <3>5, <3>7, <3>8, <3>9 DEF AInvariant
  <2> QED
    BY <2>1, <2>12
<1>11. CASE ~(n # None /\ Live(n))
  <2>1. view' = view /\ route' = [route EXCEPT ![s] = None]
    BY <1>2, <1>11
  <2>2. n = None
    <3>1. ASSUME n \in Nodes PROVE Live(n)
      BY <1>4, <1>9, <3>1 DEF AInvariant, Owned, RoutesAreOwn
    <3> QED
      BY <1>5, <1>11, <3>1
  <2>3. route' = route
    BY <1>1, <1>4, <1>9, <2>1, <2>2 DEF Typed
  <2>4. \A m \in Nodes : Live(m)' = Live(m)
    BY <2>1 DEF Live
  <2>5. Typed'
    BY <1>1, <1>2, <1>3, <2>1, <2>3 DEF Typed
  <2>6. RoutesAreOwn'
    BY <2>1, <2>3, <2>4 DEF AInvariant, Owned, RoutesAreOwn
  <2>7. Owned'
    <3>1. \A m \in Nodes : Live(m)' => Own(view[m])'
      BY <1>2, <1>7, <2>1, <2>4 DEF AInvariant, Owned, Own, Idle
    <3> QED
      BY <2>6, <3>1 DEF Owned
  <2>8. InTime'
    BY <1>7, <2>1 DEF InTime
  <2>9. Whole'
    <3>1. \A m \in here : Live(m)' /\ ~view[m].t.stale => Shows(view[m].t, Text(m)')
      BY <1>2, <1>7, <1>8, <2>4 DEF AInvariant, Whole
    <3> QED
      BY <1>2, <2>1, <3>1 DEF Whole, Shows
  <2>10. Permits'
    <3>1. \A m \in Nodes : Live(m) => view[m].session # e.session
      BY <1>4, <1>9, <2>2, NoneRouted
    <3> QED
      BY <1>6, <2>1, <2>4, <3>1, RoutedPermits
  <2> QED
    BY <1>7, <2>5, <2>7, <2>8, <2>9, <2>10 DEF AInvariant
<1> QED
  BY <1>10, <1>11

\* Before anything happened.
LEMMA AgentsBegin ==
    ASSUME Init
    PROVE  AInvariant
<1>1. \A n \in Nodes : Text(n) = <<>> /\ ~Live(n)
  BY DEF Init, Text, FlattenSeq, Live
<1>2. Typed
  <2>1. <<>> \in Seq(Seq(Msgs)) /\ <<>> \in Seq(Updates \cup Ends) /\ <<>> \in Seq(Updates)
    OBVIOUS
  <2>2. view \in [Nodes -> Views \cup {NoView}] /\ doc \in [Nodes -> Seq(Seq(Msgs))]
    <3> DEFINE S == Seq(Seq(Msgs))
               V == Views \cup {NoView}
    <3>1. NoView \in V /\ <<>> \in S
      BY <2>1
    <3> HIDE DEF S, V
    <3>2. view \in [Nodes -> V] /\ doc \in [Nodes -> S]
      BY <3>1 DEF Init
    <3> QED
      BY <3>2 DEF S, V
  <2>3. 0 \in 0..MaxSessions
    BY BoundsAssumption
  <2> QED
    BY <2>1, <2>2, <2>3 DEF Init, Typed
<1>3. Turns
  BY DEF Init, Turns
<1>4. Owned
  <2>1. RoutesAreOwn
    BY <1>1, NoneAssumption DEF Init, RoutesAreOwn
  <2> QED
    BY <1>1, <2>1 DEF Owned
<1>5. Queued
  BY DEF Init, Queued
<1>6. InTime
  <2>1. InOrder(<<>>) /\ AtMost(<<>>, words)
    BY DEF InOrder, AtMost
  <2> QED
    BY <1>1, <2>1 DEF InTime
<1>7. Whole
  BY <1>1 DEF Init, Whole
<1>8. Permits
  BY DEF Init, Permits
<1> QED
  BY <1>2, <1>3, <1>4, <1>5, <1>6, <1>7, <1>8 DEF AInvariant

\* Every step keeps all of it.
LEMMA AgentsKeep ==
    ASSUME AInvariant, [CalmNext]_vars
    PROVE  AInvariant'
<1>1. CASE UNCHANGED vars
  <2>1. UNCHANGED <<doc, here, view, process, running, wire, asked, waiting, events, prompted, replies, route, words, sessions>>
    BY <1>1 DEF vars
  <2>2. \A n \in Nodes : Text(n)' = Text(n) /\ Live(n)' = Live(n)
    BY <2>1, ViewsStay
  <2>3. Typed' /\ Turns'
    <3>1. Typed'
      BY <2>1 DEF AInvariant, Typed
    <3>2. Turns'
      BY <2>1 DEF AInvariant, Turns
    <3> QED
      BY <3>1, <3>2
  <2>4. Owned'
    <3>1. \A n \in Nodes : Live(n)' => Own(view[n])'
      BY <2>1, <2>2 DEF AInvariant, Owned, Own, Answerable, Idle
    <3> QED
      BY <2>1, <3>1, ViewsStay DEF Owned
  <2>5. Permits'
    BY <2>1, <2>2 DEF AInvariant, Permits, OnItsWay, Arrived
  <2> QED
    BY <2>1, <2>3, <2>4, <2>5, TimesStay, ViewsStay DEF AInvariant
<1>2. CASE AgentNext
  <2>1. CASE Dispatch
    BY <2>1, DispatchEndKeeps, DispatchEventKeeps
  <2>2. CASE Dies
    BY <2>2, DiesKeeps
  <2>3. CASE Timeout
    BY <2>3, TimeoutKeeps
  <2>4. ASSUME NEW s \in Sessions, Ask(s) PROVE AInvariant'
    BY <2>4, SaysKeeps DEF Ask
  <2>5. ASSUME NEW s \in Sessions, End(s) PROVE AInvariant'
    BY <2>5, EndKeeps
  <2>6. ASSUME NEW s \in Sessions, NEW k \in Spoken, Speak(s, k) PROVE AInvariant'
    <3>1. k \in Spoken \cup {"permission"}
      OBVIOUS
    <3> QED
      BY <2>6, <3>1, SaysKeeps DEF Speak
  <2> QED
    BY <1>2, <2>1, <2>2, <2>3, <2>4, <2>5, <2>6 DEF AgentNext
<1>3. CASE WindowNext
  <2>1. ASSUME NEW n \in Nodes, Send(n) PROVE AInvariant'
    BY <2>1, SendKeeps
  <2>2. ASSUME NEW n \in Nodes, Opened(n) PROVE AInvariant'
    BY <2>2, OpenedKeeps
  <2>3. ASSUME NEW n \in Nodes, Answer(n) PROVE AInvariant'
    BY <2>3, AnswerKeeps
  <2>4. ASSUME NEW n \in Nodes, Draw(n) PROVE AInvariant'
    BY <2>4, DrawKeeps
  <2>5. ASSUME NEW n \in Nodes, Drop(n) PROVE AInvariant'
    BY <2>5, DropKeeps
  <2>6. ASSUME NEW n \in Nodes, Undo(n) PROVE AInvariant'
    BY <2>6, UndoKeeps
  <2>7. ASSUME NEW n \in Walkers, Leave(n) \/ Return(n) PROVE AInvariant'
    BY <2>7, LeaveKeeps, WalkersAssumption
  <2>8. CASE Route
    BY <2>8, RouteKeeps
  <2> QED
    BY <1>3, <2>1, <2>2, <2>3, <2>4, <2>5, <2>6, <2>7, <2>8 DEF WindowNext
<1>4. ASSUME NEW r \in Replies, CalmReply(r) PROVE AInvariant'
  BY <1>4, ReplyKeeps
<1>5. ASSUME NEW n \in Nodes, CalmOpenFails(n) PROVE AInvariant'
  BY <1>5, OpenFailsKeeps
<1> QED
  BY <1>1, <1>2, <1>3, <1>4, <1>5 DEF CalmNext

\* All of it holds whenever the end of a turn is seen after its updates, and an
\* undo is drawn before the end of the turn of its node.
THEOREM AgentsInvariant == CalmSpec => []AInvariant
<1>1. Init => AInvariant
  BY AgentsBegin
<1>2. AInvariant /\ [CalmNext]_vars => AInvariant'
  BY AgentsKeep
<1> QED
  BY <1>1, <1>2, PTL DEF CalmSpec

\* What a node shows is what the document holds and what its turn has produced
\* (view.rs reconcile, absorb and finish_turn).
THEOREM Drawn == CalmSpec => []DrawnIsWhole
<1>1. AInvariant => DrawnIsWhole
  <2> SUFFICES ASSUME AInvariant, NEW n \in Nodes, Live(n)
               PROVE  LET t == view[n].t
                      IN /\ n \in here /\ ~t.stale => t.drawn = Text(n) \o t.staged
                         /\ Len(t.drawn) = t.base + Len(t.staged)
                         /\ ~view[n].loading => /\ t.answer = NoText /\ t.thought = NoText
                                                /\ t.staged = <<>> \/ process = "unstarted"
    BY DEF DrawnIsWhole
  <2>1. Timed(view[n], Text(n)) /\ Own(view[n]) /\ (n \in here /\ ~view[n].t.stale => Shows(view[n].t, Text(n)))
    BY AtOne
  <2> QED
    BY <2>1 DEF Timed, Fits, Own, Idle, Shows
<1> QED
  BY <1>1, AgentsInvariant, PTL

\* A conversation reads in the order it happened, however the agent mixes
\* answers, thoughts and tool calls (transcript.rs).
THEOREM Reads == CalmSpec => []ReadsInOrder
<1>1. AInvariant => ReadsInOrder
  <2> SUFFICES ASSUME AInvariant, NEW n \in here, Live(n) PROVE Chronological(view[n].t, Text(n))
    BY DEF ReadsInOrder
  <2>1. n \in Nodes
    BY DEF AInvariant, Typed
  <2>2. view[n].t \in Ts /\ Text(n) \in Seq(Msgs) /\ Fits(view[n].t, Text(n))
    BY <2>1, AtOne DEF Timed
  <2> QED
    BY <2>2, FitsReads
<1> QED
  BY <1>1, AgentsInvariant, PTL

\* The permission request the loop waits in is on its node, on its way there, or
\* its node is gone (session.rs request_permission, view.rs receive).
THEOREM Asked == CalmSpec => []AskedIsShown
<1>1. AInvariant => AskedIsShown
  <2> SUFFICES ASSUME AInvariant, process = "up", NEW w \in waiting
               PROVE  \/ \E i \in DOMAIN events : events[i].kind = "permission" /\ events[i].at = w.id
                      \/ \E n \in Nodes : Live(n) /\ view[n].session = w.session /\ view[n].pending = w.id
                      \/ \A n \in Nodes : Live(n) => view[n].session # w.session
    BY DEF AskedIsShown
  <2>1. OnItsWay(w) \/ Arrived(w)
    BY DEF AInvariant, Permits
  <2> QED
    BY <2>1 DEF OnItsWay, Arrived, IsPermission
<1> QED
  BY <1>1, AgentsInvariant, PTL

\* Updates go to the node of their session and to no other, and to none that opened
\* another session since (backend.rs route, view.rs close).
THEOREM Routed == CalmSpec => []RoutesAreOwn
<1>1. AInvariant => RoutesAreOwn
  BY DEF AInvariant, Owned
<1> QED
  BY <1>1, AgentsInvariant, PTL

-----------------------------------------------------------------------------
(* The rounds of the local model: those of some kinds among its messages.  *)

\* Values that stay where they are from one step to the next stay there.
LEMMA RunStays ==
    ASSUME NEW S, NEW n \in Nat, NEW f, f[0] \in S, \A i \in 1..n : f[i - 1] \in S => f[i] \in S
    PROVE  \A i \in 0..n : f[i] \in S
<1> DEFINE A == {m \in Nat : m <= n => f[m] \in S}
<1>1. 0 \in A
  OBVIOUS
<1>2. ASSUME NEW m \in Nat, m \in A
      PROVE  m + 1 \in A
  <2> SUFFICES ASSUME m + 1 <= n PROVE f[m + 1] \in S
    OBVIOUS
  <2>1. m <= n /\ m + 1 \in 1..n /\ (m + 1) - 1 = m
    OBVIOUS
  <2>2. f[m] \in S
    BY <1>2, <2>1
  <2> QED
    BY <2>1, <2>2
<1> HIDE DEF A
<1>3. Nat \subseteq A
  BY <1>1, <1>2, SetInduction
<1> QED
  BY <1>3 DEF A

\* Those of some kinds up to each message.
AreOf(f, s, K) ==
  /\ f[0] = <<>> /\ Of(s, K) = f[Len(s)]
  /\ \A i \in 1..Len(s) : /\ s[i].kind \in K => f[i] = Append(f[i - 1], s[i])
                          /\ s[i].kind \notin K => f[i] = f[i - 1]

\* There are such.
LEMMA OfRun ==
    ASSUME NEW C, NEW s \in Seq(C), NEW K
    PROVE  \E f \in [0..Len(s) -> Seq(C)] : AreOf(f, s, K)
<1> DEFINE L == Seq(C)
           n == Len(s)
           Next1(x, i) == IF s[i].kind \in K THEN Append(x, s[i]) ELSE x
           Is(f) == f = [i \in 0..n |-> IF i = 0 THEN <<>> ELSE Next1(f[i - 1], i)]
           F == [i \in Nat |-> [x \in L |-> IF i \in 1..n THEN Next1(x, i) ELSE x]]
<1>1. n \in Nat /\ <<>> \in L /\ \A i \in 1..n : s[i] \in C
  OBVIOUS
<1>2. \A x \in L : \A i \in 1..n : Next1(x, i) \in L
  BY <1>1
<1> HIDE DEF L, Next1
<1>3. F \in [Nat -> [L -> L]]
  BY <1>2
<1> HIDE DEF n
<1>4. \E f \in [0..n -> L] : Is(f)
  <2> HIDE DEF F
  <2>1. PICK f \in [0..n -> L] : IsRun(f, n, <<>>, F)
    BY <1>1, <1>3, RunExists
  <2>2. \A i \in 0..n : i # 0 => F[i][f[i - 1]] = Next1(f[i - 1], i)
    <3> SUFFICES ASSUME NEW i \in 0..n, i # 0
                 PROVE  F[i][f[i - 1]] = Next1(f[i - 1], i)
      OBVIOUS
    <3>1. i \in Nat /\ i \in 1..n /\ i - 1 \in 0..n
      BY <1>1
    <3>2. f[i - 1] \in L
      BY <3>1
    <3> QED
      BY <3>1, <3>2 DEF F
  <2>3. f = [i \in 0..n |-> IF i = 0 THEN <<>> ELSE Next1(f[i - 1], i)]
    BY <2>1, <2>2 DEF IsRun
  <2> QED
    BY <2>3
<1> DEFINE f == CHOOSE f : Is(f)
<1>5. Is(f)
  BY <1>4
<1>6. Of(s, K) = f[n]
  BY DEF Of, n, Next1
<1> HIDE DEF f
<1>7. f[0] = <<>> /\ \A i \in 1..n : f[i] = Next1(f[i - 1], i)
  BY <1>1, <1>5
<1>8. f[0] \in L /\ \A i \in 1..n : f[i - 1] \in L => f[i] \in L
  BY <1>1, <1>2, <1>7
<1>9. \A i \in 0..n : f[i] \in L
  BY <1>1, <1>8, RunStays
<1>10. f = [i \in 0..n |-> f[i]]
  BY <1>5
<1>11. f \in [0..n -> L]
  BY <1>9, <1>10
<1>12. \A i \in 1..n : /\ s[i].kind \in K => f[i] = Append(f[i - 1], s[i])
                       /\ s[i].kind \notin K => f[i] = f[i - 1]
  BY <1>7 DEF Next1
<1> QED
  BY <1>6, <1>7, <1>11, <1>12 DEF L, n, AreOf

\* They are messages.
LEMMA OfType ==
    ASSUME NEW C, NEW s \in Seq(C), NEW K
    PROVE  Of(s, K) \in Seq(C)
<1>1. PICK f \in [0..Len(s) -> Seq(C)] : AreOf(f, s, K)
  BY OfRun
<1>2. Len(s) \in 0..Len(s)
  OBVIOUS
<1> QED
  BY <1>1, <1>2 DEF AreOf

\* Of messages that are all of these kinds, all.
LEMMA OfAll ==
    ASSUME NEW C, NEW s \in Seq(C), NEW K, \A i \in 1..Len(s) : s[i].kind \in K
    PROVE  Of(s, K) = s
<1>1. PICK f \in [0..Len(s) -> Seq(C)] : AreOf(f, s, K)
  BY OfRun
<1> DEFINE n == Len(s)
           A == {m \in Nat : m <= n => Len(f[m]) = m /\ \A j \in 1..m : f[m][j] = s[j]}
<1>2. n \in Nat /\ f[0] = <<>> /\ Of(s, K) = f[n] /\ \A i \in 1..n : f[i] = Append(f[i - 1], s[i])
  BY <1>1 DEF AreOf
<1>3. \A i \in 0..n : f[i] \in Seq(C)
  OBVIOUS
<1>4. \A i \in 1..n : s[i] \in C
  OBVIOUS
<1>5. 0 \in A
  BY <1>2
<1> HIDE DEF n
<1>6. ASSUME NEW m \in Nat, m \in A
      PROVE  m + 1 \in A
  <2> SUFFICES ASSUME m + 1 <= n
               PROVE  Len(f[m + 1]) = m + 1 /\ \A j \in 1..m + 1 : f[m + 1][j] = s[j]
    OBVIOUS
  <2>1. m + 1 \in 1..n /\ m \in 0..n /\ (m + 1) - 1 = m /\ m <= n
    BY <1>2
  <2>2. f[m + 1] = Append(f[m], s[m + 1]) /\ f[m] \in Seq(C) /\ s[m + 1] \in C
    BY <1>2, <1>3, <1>4, <2>1
  <2>3. Len(f[m]) = m /\ \A j \in 1..m : f[m][j] = s[j]
    BY <1>6, <2>1
  <2>4. \A j \in 1..m + 1 : j = m + 1 \/ j \in 1..m
    OBVIOUS
  <2> QED
    BY <2>2, <2>3, <2>4
<1> HIDE DEF A
<1>7. Nat \subseteq A
  BY <1>5, <1>6, SetInduction
<1>8. Len(f[n]) = n /\ \A j \in 1..n : f[n][j] = s[j]
  BY <1>2, <1>7 DEF A
<1>9. f[n] \in Seq(C) /\ s \in Seq(C) /\ Len(s) = n
  BY <1>2, <1>3 DEF n
<1> QED
  BY <1>2, <1>8, <1>9, SeqEqual

\* Of messages that are of no such kind, none.
LEMMA OfNone ==
    ASSUME NEW C, NEW s \in Seq(C), NEW K, \A i \in 1..Len(s) : s[i].kind \notin K
    PROVE  Of(s, K) = <<>>
<1>1. PICK f \in [0..Len(s) -> Seq(C)] : AreOf(f, s, K)
  BY OfRun
<1> DEFINE n == Len(s)
           A == {m \in Nat : m <= n => f[m] = <<>>}
<1>2. n \in Nat /\ f[0] = <<>> /\ Of(s, K) = f[n] /\ \A i \in 1..n : f[i] = f[i - 1]
  BY <1>1 DEF AreOf
<1>5. 0 \in A
  BY <1>2
<1> HIDE DEF n
<1>6. ASSUME NEW m \in Nat, m \in A
      PROVE  m + 1 \in A
  <2> SUFFICES ASSUME m + 1 <= n PROVE f[m + 1] = <<>>
    OBVIOUS
  <2>1. m + 1 \in 1..n /\ (m + 1) - 1 = m /\ m <= n
    BY <1>2
  <2> QED
    BY <1>2, <1>6, <2>1
<1> HIDE DEF A
<1>7. Nat \subseteq A
  BY <1>5, <1>6, SetInduction
<1> QED
  BY <1>2, <1>7 DEF A

\* One more message.
With(x, m) == Append(x, m)

\* One more at the end of two lists is one more at the end of the second.
LEMMA ConcatAppend ==
    ASSUME NEW C, NEW x \in Seq(C), NEW y \in Seq(C), NEW z \in C
    PROVE  With(x \o y, z) = x \o With(y, z)
<1> DEFINE e == <<z>>
           w == x \o y
<1>1. e \in Seq(C) /\ w \in Seq(C)
  OBVIOUS
<1>2. Append(y, z) = y \o e
  BY AppendIsConcat
<1>3. Append(w, z) = w \o e
  <2> HIDE DEF w
  <2> QED
    BY <1>1, AppendIsConcat
<1> HIDE DEF e
<1>4. w \o e = x \o (y \o e)
  BY <1>1, ConcatAssociative
<1> QED
  BY <1>2, <1>3, <1>4 DEF With

\* Of one list after another, those of the one after those of the other.
LEMMA OfConcat ==
    ASSUME NEW C, NEW s \in Seq(C), NEW r \in Seq(C), NEW K
    PROVE  Of(s \o r, K) = Of(s, K) \o Of(r, K)
<1> DEFINE q == s \o r
           n == Len(s)
           k == Len(r)
<1>18. \A x \in Seq(C), y \in Seq(C), z \in C : With(x \o y, z) = x \o With(y, z)
  BY ConcatAppend, SMTT(30)
<1>0. n \in Nat /\ k \in Nat
  OBVIOUS
<1>1. /\ q \in Seq(C) /\ Len(q) = n + k
      /\ \A i \in 1..n : q[i] = s[i] /\ i \in 1..Len(q)
      /\ \A i \in 1..k : q[n + i] = r[i] /\ n + i \in 1..Len(q) /\ r[i] \in C
  OBVIOUS
<1>2. PICK f \in [0..Len(q) -> Seq(C)] : AreOf(f, q, K)
  BY <1>1, OfRun
<1>3. PICK g \in [0..n -> Seq(C)] : AreOf(g, s, K)
  BY OfRun
<1>4. PICK h \in [0..k -> Seq(C)] : AreOf(h, r, K)
  BY OfRun
<1>5. /\ f[0] = <<>> /\ g[0] = <<>> /\ h[0] = <<>>
      /\ Of(q, K) = f[n + k] /\ Of(s, K) = g[n] /\ Of(r, K) = h[k]
  BY <1>1, <1>2, <1>3, <1>4 DEF AreOf
<1>6. \A i \in 1..Len(q) : /\ q[i].kind \in K => f[i] = With(f[i - 1], q[i])
                           /\ q[i].kind \notin K => f[i] = f[i - 1]
  BY <1>2 DEF AreOf, With
<1>7. \A i \in 1..n : /\ s[i].kind \in K => g[i] = With(g[i - 1], s[i])
                      /\ s[i].kind \notin K => g[i] = g[i - 1]
  BY <1>3 DEF AreOf, With
<1>8. \A i \in 1..k : /\ r[i].kind \in K => h[i] = With(h[i - 1], r[i])
                      /\ r[i].kind \notin K => h[i] = h[i - 1]
  BY <1>4 DEF AreOf, With
<1> HIDE DEF q, n, k
<1>9. g[n] \in Seq(C) /\ \A i \in 0..k : h[i] \in Seq(C)
  <2>1. n \in 0..n
    BY <1>0
  <2>2. g[n] \in Seq(C)
    BY <2>1
  <2>3. \A i \in 0..k : h[i] \in Seq(C)
    OBVIOUS
  <2> QED
    BY <2>2, <2>3
<1> DEFINE A == {m \in Nat : m <= n => f[m] = g[m]}
           B == {m \in Nat : m <= k => f[n + m] = g[n] \o h[m]}
<1>10. 0 \in A
  BY <1>5
<1>11. ASSUME NEW m \in Nat, m \in A
       PROVE  m + 1 \in A
  <2> SUFFICES ASSUME m + 1 <= n PROVE f[m + 1] = g[m + 1]
    OBVIOUS
  <2>1. m + 1 \in 1..n /\ (m + 1) - 1 = m /\ m <= n
    BY <1>0
  <2>2. m + 1 \in 1..Len(q) /\ q[m + 1] = s[m + 1] /\ f[m] = g[m]
    BY <1>1, <1>11, <2>1
  <2>3. /\ q[m + 1].kind \in K => f[m + 1] = With(f[(m + 1) - 1], q[m + 1])
        /\ q[m + 1].kind \notin K => f[m + 1] = f[(m + 1) - 1]
    BY <1>6, <2>2, Zenon
  <2>4. /\ s[m + 1].kind \in K => g[m + 1] = With(g[(m + 1) - 1], s[m + 1])
        /\ s[m + 1].kind \notin K => g[m + 1] = g[(m + 1) - 1]
    BY <1>7, <2>1, Zenon
  <2> QED
    BY <2>1, <2>2, <2>3, <2>4
<1> HIDE DEF A
<1>12. Nat \subseteq A
  BY <1>10, <1>11, SetInduction
<1>13. f[n] = g[n]
  <2>1. n \in A /\ n <= n
    BY <1>0, <1>12
  <2> QED
    BY <2>1 DEF A
<1>14. 0 \in B
  <2>1. g[n] \o <<>> = g[n] /\ n + 0 = n
    BY <1>0, <1>9
  <2> QED
    BY <1>5, <1>13, <2>1
<1>15. ASSUME NEW m \in Nat, m \in B
       PROVE  m + 1 \in B
  <2> SUFFICES ASSUME m + 1 <= k PROVE f[n + (m + 1)] = g[n] \o h[m + 1]
    <3>1. m + 1 \in Nat
      OBVIOUS
    <3> QED
      BY <3>1, Zenon
  <2>1. m + 1 \in 1..k /\ m \in 0..k /\ (m + 1) - 1 = m /\ m <= k /\ (n + (m + 1)) - 1 = n + m
    BY <1>0
  <2>2. n + (m + 1) \in 1..Len(q) /\ q[n + (m + 1)] = r[m + 1] /\ r[m + 1] \in C
    BY <1>1, <2>1
  <2>3. f[n + m] = g[n] \o h[m] /\ h[m] \in Seq(C)
    BY <1>9, <1>15, <2>1
  <2>4. /\ q[n + (m + 1)].kind \in K => f[n + (m + 1)] = With(f[(n + (m + 1)) - 1], q[n + (m + 1)])
        /\ q[n + (m + 1)].kind \notin K => f[n + (m + 1)] = f[(n + (m + 1)) - 1]
    BY <1>6, <2>2, Zenon
  <2>5. /\ r[m + 1].kind \in K => h[m + 1] = With(h[(m + 1) - 1], r[m + 1])
        /\ r[m + 1].kind \notin K => h[m + 1] = h[(m + 1) - 1]
    BY <1>8, <2>1, Zenon
  <2>6. With(g[n] \o h[m], r[m + 1]) = g[n] \o With(h[m], r[m + 1])
    <3>1. PICK x \in Seq(C) : x = g[n]
      BY <1>9
    <3>2. PICK y \in Seq(C) : y = h[m]
      BY <2>3
    <3>3. PICK z \in C : z = r[m + 1]
      BY <2>2
    <3>4. With(x \o y, z) = x \o With(y, z)
      BY <1>18
    <3> QED
      BY <3>1, <3>2, <3>3, <3>4
  <2> QED
    BY <2>1, <2>2, <2>3, <2>4, <2>5, <2>6
<1> HIDE DEF B
<1>16. Nat \subseteq B
  BY <1>14, <1>15, SetInduction
<1>17. f[n + k] = g[n] \o h[k]
  <2>1. k \in B /\ k <= k
    BY <1>0, <1>16
  <2> QED
    BY <2>1 DEF B
<1> QED
  BY <1>5, <1>17 DEF q

-----------------------------------------------------------------------------
(* Conversations.  *)

\* What a turn of the local model writes, and what it is told.
Uttering == [kind : {"user", "assistant", "system", "nudge"}, at : Nat]
Calling == [kind : {"tool_call"}, at : Nat, ids : Seq(Nat)]
Resulting == [kind : {"tool_result"}, at : Nat, id : Nat, how : {"done", "refused"}]
Informing == [kind : {"context"}, at : Nat, key : Nat]
Lines == Uttering \cup Calling \cup Resulting \cup Informing

\* What a line is tells what it holds.
LEMMA LineHolds ==
    ASSUME NEW m \in Lines
    PROVE  /\ m.kind = "tool_call" => m.ids \in Seq(Nat)
           /\ m.kind = "context" => m.key \in Nat
           /\ m.kind = "tool_result" => m.id \in Nat
BY DEF Lines, Uttering, Calling, Resulting, Informing

\* No two contexts of the same rows.
Once(s) == \A i, j \in DOMAIN s : IsContext(s[i]) /\ IsContext(s[j]) /\ s[i].key = s[j].key => i = j

\* The parts of one list after another.
LEMMA Both ==
    ASSUME NEW C, NEW s \in Seq(C), NEW r \in Seq(C)
    PROVE  /\ s \o r \in Seq(C) /\ Len(s) \in Nat /\ Len(r) \in Nat
           /\ DOMAIN s = 1..Len(s) /\ DOMAIN r = 1..Len(r)
           /\ DOMAIN (s \o r) = 1..Len(s) + Len(r)
           /\ \A i \in 1..Len(s) : (s \o r)[i] = s[i]
           /\ \A i \in 1..Len(r) : (s \o r)[Len(s) + i] = r[i]
OBVIOUS

\* An index of both is one of the first or, moved on, one of the second.
LEMMA Split ==
    ASSUME NEW n \in Nat, NEW k \in Nat, NEW i \in 1..n + k
    PROVE  i \in 1..n \/ \E j \in 1..k : i = n + j
<1>1. CASE i > n
  <2>1. i - n \in 1..k /\ i = n + (i - n)
    BY <1>1
  <2> QED
    BY <2>1
<1>2. CASE ~ (i > n)
  BY <1>2
<1> QED
  BY <1>1, <1>2

\* Calls stay answered when one list comes after another.
LEMMA AcceptedBoth ==
    ASSUME NEW s \in Seq(Lines), NEW r \in Seq(Lines), Accepted(s), Accepted(r)
    PROVE  Accepted(s \o r)
<1> DEFINE q == s \o r
           n == Len(s)
           k == Len(r)
<1>1. /\ n \in Nat /\ k \in Nat /\ DOMAIN s = 1..n /\ DOMAIN r = 1..k /\ DOMAIN q = 1..n + k
      /\ \A i \in 1..n : q[i] = s[i]
      /\ \A i \in 1..k : q[n + i] = r[i]
  BY Both
<1> HIDE DEF q, n, k
<1> SUFFICES ASSUME NEW i \in DOMAIN q, q[i].kind = "tool_call", NEW p \in DOMAIN q[i].ids
             PROVE  i + p \in DOMAIN q /\ q[i + p].kind = "tool_result" /\ q[i + p].id = q[i].ids[p]
  BY DEF Accepted, q
<1>2. i \in 1..n \/ \E j \in 1..k : i = n + j
  <2>1. i \in 1..n + k
    BY <1>1
  <2> QED
    BY <1>1, <2>1, Split
<1>3. CASE i \in 1..n
  <2>1. i + p \in DOMAIN s /\ s[i + p].kind = "tool_result" /\ s[i + p].id = s[i].ids[p]
    BY <1>1, <1>3 DEF Accepted
  <2>2. i + p \in 1..n + k /\ q[i + p] = s[i + p] /\ q[i] = s[i]
    BY <1>1, <1>3, <2>1
  <2> QED
    BY <1>1, <2>1, <2>2
<1>4. CASE \E j \in 1..k : i = n + j
  <2>1. PICK j \in 1..k : i = n + j
    BY <1>4
  <2>2. q[i] = r[j]
    BY <1>1, <2>1
  <2>3. j + p \in DOMAIN r /\ r[j + p].kind = "tool_result" /\ r[j + p].id = r[j].ids[p]
    BY <1>1, <2>1, <2>2 DEF Accepted
  <2>4. j + p \in 1..k /\ i + p = n + (j + p)
    <3>1. j + p \in 1..k
      BY <1>1, <2>3
    <3>2. p \in Int
      <4>1. r[j].kind = "tool_call" /\ p \in DOMAIN r[j].ids /\ r[j] \in Lines
        BY <1>1, <2>2
      <4>2. r[j].ids \in Seq(Nat)
        BY <4>1, LineHolds
      <4> QED
        BY <4>1, <4>2
    <3> QED
      BY <1>1, <2>1, <3>1, <3>2
  <2>5. i + p \in 1..n + k /\ q[i + p] = r[j + p]
    BY <1>1, <2>4
  <2> QED
    BY <1>1, <2>2, <2>3, <2>5
<1> QED
  BY <1>2, <1>3, <1>4

\* A list without calls.
LEMMA AcceptedPlain ==
    ASSUME NEW s \in Seq(Lines), \A i \in 1..Len(s) : s[i].kind # "tool_call"
    PROVE  Accepted(s)
BY DEF Accepted

-----------------------------------------------------------------------------
(* Counting what is done.  *)

\* Numbers moved on are as many.
LEMMA Shifted ==
    ASSUME NEW n \in Nat, NEW S \in SUBSET Nat, IsFiniteSet(S)
    PROVE  IsFiniteSet({n + i : i \in S}) /\ Cardinality({n + i : i \in S}) = Cardinality(S)
<1> DEFINE T == {n + i : i \in S}
           f == [i \in S |-> n + i]
<1>1. f \in [S -> T] /\ \A t \in T : \E i \in S : f[i] = t
  OBVIOUS
<1>2. \A i, j \in S : f[i] = f[j] => i = j
  OBVIOUS
<1> HIDE DEF f, T
<1>3. ExistsBijection(S, T)
  BY <1>1, <1>2 DEF ExistsBijection, Bijection, Injection, Surjection, IsInjective
<1>4. IsFiniteSet(T) /\ Cardinality(T) = Cardinality(S)
  BY <1>3, FS_Bijection
<1> QED
  BY <1>4 DEF T

\* Some of the first numbers are finitely many.
LEMMA Few ==
    ASSUME NEW n \in Nat, NEW S, S \subseteq 1..n
    PROVE  IsFiniteSet(S) /\ Cardinality(S) \in Nat
<1>1. IsFiniteSet(1..n)
  BY FS_Interval
<1> QED
  BY <1>1, FS_Subset, FS_CardinalityType

\* Of one list after another, what is done is what is done in each.
LEMMA DoneBoth ==
    ASSUME NEW s \in Seq(Lines), NEW r \in Seq(Lines)
    PROVE  /\ Cardinality(Done(s)) \in Nat /\ Cardinality(Done(r)) \in Nat
           /\ Cardinality(Done(s \o r)) = Cardinality(Done(s)) + Cardinality(Done(r))
<1> DEFINE q == s \o r
           n == Len(s)
           k == Len(r)
           D == Done(s)
           E == Done(r)
           M == {n + i : i \in E}
<1>1. /\ n \in Nat /\ k \in Nat /\ DOMAIN s = 1..n /\ DOMAIN r = 1..k /\ DOMAIN q = 1..n + k
      /\ \A i \in 1..n : q[i] = s[i]
      /\ \A i \in 1..k : q[n + i] = r[i]
  BY Both
<1>2. D \subseteq 1..n /\ E \subseteq 1..k
  BY <1>1 DEF Done
<1>3. IsFiniteSet(D) /\ Cardinality(D) \in Nat
  <2> HIDE DEF n, k, D, E
  <2> QED
    BY <1>1, <1>2, Few
<1>4. IsFiniteSet(E) /\ Cardinality(E) \in Nat
  <2> HIDE DEF n, k, D, E
  <2> QED
    BY <1>1, <1>2, Few
<1>5. IsFiniteSet(M) /\ Cardinality(M) = Cardinality(E)
  <2>1. E \in SUBSET Nat
    BY <1>1, <1>2
  <2> HIDE DEF E, n
  <2> QED
    BY <1>1, <1>4, <2>1, Shifted
<1>6. D \cap M = {}
  <2> SUFFICES ASSUME NEW i \in E, n + i \in D PROVE FALSE
    OBVIOUS
  <2>1. i \in 1..k /\ n + i \in 1..n
    BY <1>2
  <2> HIDE DEF n, k
  <2> QED
    BY <1>1, <2>1
<1>7. Done(q) = D \cup M
  <2>1. \A i \in 1..n : i \in 1..n + k /\ (i \in Done(q) <=> i \in D)
    BY <1>1 DEF Done
  <2>2. \A i \in 1..k : n + i \in 1..n + k /\ (n + i \in Done(q) <=> i \in E)
    BY <1>1 DEF Done
  <2>3. Done(q) \subseteq 1..n + k
    BY <1>1 DEF Done
  <2> HIDE DEF q, n, k, D, E
  <2>4. \A i \in 1..n + k : i \in 1..n \/ \E j \in 1..k : i = n + j
    BY <1>1, Split
  <2>5. Done(q) \subseteq D \cup M
    BY <2>1, <2>2, <2>3, <2>4
  <2>6. D \subseteq Done(q) /\ M \subseteq Done(q)
    BY <1>2, <2>1, <2>2
  <2> QED
    BY <2>5, <2>6
<1> HIDE DEF q, D, E, M
<1>8. Cardinality(D \cup M) = Cardinality(D) + Cardinality(M) - Cardinality({})
  BY <1>3, <1>5, <1>6, FS_Union
<1>9. Cardinality({}) = 0
  BY FS_EmptySet
<1> QED
  BY <1>3, <1>4, <1>5, <1>7, <1>8, <1>9 DEF q, D, E

\* Nothing is done in a list without results.
LEMMA DoneNone ==
    ASSUME NEW s \in Seq(Lines), \A i \in 1..Len(s) : s[i].kind # "tool_result"
    PROVE  Cardinality(Done(s)) = 0
<1>1. Done(s) = {}
  BY DEF Done
<1> QED
  BY <1>1, FS_EmptySet

-----------------------------------------------------------------------------
(* Contexts.  *)

\* Where a list gives these rows; nowhere, and in one place.
GivesAt(s, key) == {j \in DOMAIN s : Gives(s[j], key)}
GivesNone(s, key) == GivesAt(s, key) = {}
GivesOnce(s, key) == \E i \in DOMAIN s : GivesAt(s, key) = {i}

\* A list without contexts gives none.
LEMMA NoContext ==
    ASSUME NEW s \in Seq(Lines), \A i \in 1..Len(s) : s[i].kind # "context"
    PROVE  Once(s) /\ \A key : GivesNone(s, key)
BY DEF Once, GivesNone, GivesAt, Gives, IsContext

\* Of one list after another, rows are given where either gives them.
LEMMA GivesAtBoth ==
    ASSUME NEW s \in Seq(Lines), NEW r \in Seq(Lines), NEW key
    PROVE  GivesAt(s \o r, key) = GivesAt(s, key) \cup {Len(s) + i : i \in GivesAt(r, key)}
<1> DEFINE q == s \o r
           n == Len(s)
           k == Len(r)
           D == GivesAt(s, key)
           E == GivesAt(r, key)
           M == {n + i : i \in E}
<1>1. /\ n \in Nat /\ k \in Nat /\ DOMAIN s = 1..n /\ DOMAIN r = 1..k /\ DOMAIN q = 1..n + k
      /\ \A i \in 1..n : q[i] = s[i]
      /\ \A i \in 1..k : q[n + i] = r[i]
  BY Both
<1>2. D \subseteq 1..n /\ E \subseteq 1..k
  BY <1>1 DEF GivesAt
<1>3. \A i \in 1..n : i \in 1..n + k /\ (i \in GivesAt(q, key) <=> i \in D)
  BY <1>1 DEF GivesAt
<1>4. \A i \in 1..k : n + i \in 1..n + k /\ (n + i \in GivesAt(q, key) <=> i \in E)
  BY <1>1 DEF GivesAt
<1>5. GivesAt(q, key) \subseteq 1..n + k
  BY <1>1 DEF GivesAt
<1> HIDE DEF q, n, k, D, E
<1>6. \A i \in 1..n + k : i \in 1..n \/ \E j \in 1..k : i = n + j
  BY <1>1, Split
<1>7. GivesAt(q, key) \subseteq D \cup M
  BY <1>3, <1>4, <1>5, <1>6
<1>8. D \subseteq GivesAt(q, key) /\ M \subseteq GivesAt(q, key)
  BY <1>2, <1>3, <1>4
<1>9. GivesAt(q, key) = D \cup M
  BY <1>7, <1>8
<1> QED
  BY <1>9 DEF q, n, D, E, M

\* What is given once in a list stays so with a list that does not give it, on either side.
LEMMA GivesBoth ==
    ASSUME NEW s \in Seq(Lines), NEW r \in Seq(Lines), NEW key,
           \/ GivesOnce(s, key) /\ GivesNone(r, key)
           \/ GivesNone(s, key) /\ GivesOnce(r, key)
    PROVE  GivesOnce(s \o r, key)
<1> DEFINE Q == GivesAt(s \o r, key)
           D == GivesAt(s, key)
           E == GivesAt(r, key)
           n == Len(s)
<1>1. Q = D \cup {n + i : i \in E}
  BY GivesAtBoth
<1>2. Q \subseteq DOMAIN (s \o r)
  BY DEF GivesAt
<1>3. ((\E i : D = {i}) /\ E = {}) \/ (D = {} /\ (\E i : E = {i}))
  BY DEF GivesOnce, GivesNone
<1> HIDE DEF Q, D, E, n
<1>4. \E i : Q = {i}
  <2>1. CASE (\E i : D = {i}) /\ E = {}
    BY <1>1, <2>1
  <2>2. CASE D = {} /\ \E i : E = {i}
    <3>1. PICK i : E = {i}
      BY <2>2
    <3>2. Q = {n + i}
      BY <1>1, <2>2, <3>1
    <3> QED
      BY <3>2
  <2> QED
    BY <1>3, <2>1, <2>2
<1> QED
  BY <1>2, <1>4, Zenon DEF GivesOnce, Q

\* Rows that are among the contexts of a list, no two alike, are given once.
LEMMA GivenOnce ==
    ASSUME NEW s \in Seq(Lines), Once(s), NEW key, ~GivesNone(s, key)
    PROVE  GivesOnce(s, key)
<1>1. PICK i \in DOMAIN s : Gives(s[i], key)
  BY DEF GivesNone, GivesAt
<1>2. \A j \in DOMAIN s : Gives(s[j], key) => j = i
  BY <1>1 DEF Gives, Once
<1>3. GivesAt(s, key) = {i}
  BY <1>1, <1>2 DEF GivesAt
<1> QED
  BY <1>3 DEF GivesOnce

\* Two lists have no two contexts alike if neither has, nor one of each.
LEMMA OnceBoth ==
    ASSUME NEW s \in Seq(Lines), NEW r \in Seq(Lines)
    PROVE  Once(s \o r) <=> /\ Once(s) /\ Once(r)
                            /\ \A i \in 1..Len(s), j \in 1..Len(r) :
                                 ~ (IsContext(s[i]) /\ IsContext(r[j]) /\ s[i].key = r[j].key)
<1> DEFINE q == s \o r
           n == Len(s)
           k == Len(r)
           Alike(x, y) == IsContext(x) /\ IsContext(y) /\ x.key = y.key
<1>1. /\ n \in Nat /\ k \in Nat /\ DOMAIN s = 1..n /\ DOMAIN r = 1..k /\ DOMAIN q = 1..n + k
      /\ \A i \in 1..n : q[i] = s[i]
      /\ \A i \in 1..k : q[n + i] = r[i]
  BY Both
<1>2. /\ Once(s) <=> \A i, j \in 1..n : Alike(s[i], s[j]) => i = j
      /\ Once(r) <=> \A i, j \in 1..k : Alike(r[i], r[j]) => i = j
      /\ Once(q) <=> \A i, j \in 1..n + k : Alike(q[i], q[j]) => i = j
  BY <1>1 DEF Once
<1>3. \A x, y : Alike(x, y) <=> Alike(y, x)
  OBVIOUS
<1> HIDE DEF q, n, k, Alike
<1>4. \A i \in 1..n + k : i \in 1..n \/ \E j \in 1..k : i = n + j
  BY <1>1, Split
<1>5. /\ \A i \in 1..n : i \in 1..n + k /\ q[i] = s[i]
      /\ \A i \in 1..k : n + i \in 1..n + k /\ q[n + i] = r[i]
      /\ \A i, j \in 1..k : n + i = n + j <=> i = j
      /\ \A i \in 1..n, j \in 1..k : i # n + j
  BY <1>1
<1>6. ASSUME Once(q)
      PROVE  Once(s) /\ Once(r) /\ \A i \in 1..n, j \in 1..k : ~Alike(s[i], r[j])
  <2>1. \A i, j \in 1..n : Alike(s[i], s[j]) => i = j
    BY <1>2, <1>5, <1>6
  <2>2. \A i, j \in 1..k : Alike(r[i], r[j]) => i = j
    BY <1>2, <1>5, <1>6
  <2>3. \A i \in 1..n, j \in 1..k : ~Alike(s[i], r[j])
    BY <1>2, <1>5, <1>6
  <2> QED
    BY <1>2, <2>1, <2>2, <2>3
<1>7. ASSUME Once(s), Once(r), \A i \in 1..n, j \in 1..k : ~Alike(s[i], r[j])
      PROVE  Once(q)
  <2> SUFFICES ASSUME NEW i \in 1..n + k, NEW j \in 1..n + k, Alike(q[i], q[j])
               PROVE  i = j
    BY <1>2
  <2>1. CASE i \in 1..n /\ j \in 1..n
    BY <1>2, <1>5, <1>7, <2>1
  <2>2. CASE i \in 1..n /\ j \notin 1..n
    BY <1>4, <1>5, <1>7, <2>2
  <2>3. CASE i \notin 1..n /\ j \in 1..n
    BY <1>3, <1>4, <1>5, <1>7, <2>3
  <2>4. CASE i \notin 1..n /\ j \notin 1..n
    <3>1. PICK a \in 1..k : i = n + a
      BY <1>4, <2>4
    <3>2. PICK b \in 1..k : j = n + b
      BY <1>4, <2>4
    <3> QED
      BY <1>2, <1>5, <1>7, <3>1, <3>2
  <2> QED
    BY <2>1, <2>2, <2>3, <2>4
<1>8. Once(q) <=> Once(s) /\ Once(r) /\ \A i \in 1..n, j \in 1..k : ~Alike(s[i], r[j])
  BY <1>6, <1>7
<1> QED
  BY <1>8 DEF q, n, k, Alike

-----------------------------------------------------------------------------
(* What a round adds.  *)

\* What is sent again to the model: all but the nudges.
Sent == {"user", "assistant", "system", "context", "tool_call", "tool_result"}
Talks == {s \in Seq(Lines) : Accepted(s) /\ \A i \in 1..Len(s) : s[i].kind \in Sent}

\* What stands in a conversation.
LEMMA TalkParts ==
    ASSUME NEW s \in Talks
    PROVE  s \in Seq(Lines) /\ Accepted(s) /\ \A i \in 1..Len(s) : s[i].kind \in Sent
BY DEF Talks

\* One conversation after another is one.
LEMMA TalksBoth ==
    ASSUME NEW s \in Talks, NEW r \in Talks
    PROVE  s \o r \in Talks
<1> DEFINE q == s \o r
           n == Len(s)
           k == Len(r)
<1>1. /\ s \in Seq(Lines) /\ Accepted(s) /\ \A i \in 1..n : s[i].kind \in Sent
      /\ r \in Seq(Lines) /\ Accepted(r) /\ \A i \in 1..k : r[i].kind \in Sent
  BY TalkParts
<1>2. /\ q \in Seq(Lines) /\ n \in Nat /\ k \in Nat /\ DOMAIN q = 1..n + k
      /\ \A i \in 1..n : q[i] = s[i]
      /\ \A i \in 1..k : q[n + i] = r[i]
  BY <1>1, Both
<1>3. Accepted(q)
  BY <1>1, AcceptedBoth
<1> HIDE DEF q, n, k
<1>4. \A i \in 1..n + k : q[i].kind \in Sent
  <2>1. \A i \in 1..n + k : i \in 1..n \/ \E j \in 1..k : i = n + j
    BY <1>2, Split
  <2> QED
    BY <1>1, <1>2, <2>1
<1>5. Len(q) = n + k
  BY <1>2
<1> QED
  BY <1>2, <1>3, <1>4, <1>5 DEF Talks, q

\* One line that calls nothing.
LEMMA OneLine ==
    ASSUME NEW m \in Lines, m.kind # "tool_call"
    PROVE  /\ <<m>> \in Seq(Lines) /\ Accepted(<<m>>)
           /\ m.kind \in Sent => <<m>> \in Talks
           /\ Len(<<m>>) = 1 /\ <<m>>[1] = m
           /\ \A K : m.kind \notin K => Of(<<m>>, K) = <<>>
           /\ m.kind # "tool_result" => Cardinality(Done(<<m>>)) = 0
           /\ m.kind # "context" => Once(<<m>>) /\ \A key : GivesNone(<<m>>, key)
<1> DEFINE s == <<m>>
<1>1. s \in Seq(Lines) /\ Len(s) = 1 /\ \A i \in 1..Len(s) : s[i] = m
  OBVIOUS
<1>2. s[1] = m
  OBVIOUS
<1> HIDE DEF s
<1>3. Accepted(s)
  BY <1>1, AcceptedPlain
<1>4. m.kind \in Sent => s \in Talks
  BY <1>1, <1>3 DEF Talks
<1>5. \A K : m.kind \notin K => Of(s, K) = <<>>
  BY <1>1, OfNone
<1>6. m.kind # "tool_result" => Cardinality(Done(s)) = 0
  BY <1>1, DoneNone
<1>7. m.kind # "context" => Once(s) /\ \A key : GivesNone(s, key)
  BY <1>1, NoContext
<1> QED
  BY <1>1, <1>2, <1>3, <1>4, <1>5, <1>6, <1>7 DEF s

\* No lines at all.
LEMMA NoLine ==
    /\ <<>> \in Talks /\ Once(<<>>) /\ Cardinality(Done(<<>>)) = 0
    /\ \A K : Of(<<>>, K) = <<>>
    /\ \A key : GivesNone(<<>>, key)
<1> DEFINE s == <<>>
<1>1. s \in Seq(Lines) /\ Len(s) = 0 /\ 1..Len(s) = {}
  OBVIOUS
<1> HIDE DEF s
<1>2. Accepted(s) /\ Once(s) /\ \A key : GivesNone(s, key)
  BY <1>1, AcceptedPlain, NoContext
<1>3. Cardinality(Done(s)) = 0
  BY <1>1, DoneNone
<1>4. \A K : Of(s, K) = <<>>
  BY <1>1, OfNone
<1> QED
  BY <1>1, <1>2, <1>3, <1>4 DEF s, Talks

\* The messages of a turn are lines.
LEMMA LinesMade ==
    ASSUME NEW a \in Nat
    PROVE  /\ \A k \in {"user", "assistant", "system", "nudge"} :
                 Message(k, a) \in Lines /\ Message(k, a).kind = k
           /\ \A key \in Nat : /\ ContextMessage(key, a) \in Lines
                               /\ ContextMessage(key, a).kind = "context" /\ ContextMessage(key, a).key = key
BY DEF Message, ContextMessage, Lines, Uttering, Informing

\* How one answer of the model goes: its calls in their order.
Goings == Seq({"done", "refused"})

\* What is recorded of it: the call and a result for each, numbered as they come.
LEMMA Recorded ==
    ASSUME NEW o \in Goings, NEW a \in Nat
    PROVE  LET r == Record(o, a)
               n == Len(o)
           IN  /\ r \in Seq(Lines) /\ n \in Nat /\ Len(r) = n + 1 /\ DOMAIN o = 1..n
               /\ r[1] \in Lines /\ r[1].kind = "tool_call" /\ DOMAIN r[1].ids = 1..n /\ \A i \in 1..n : r[1].ids[i] = i
               /\ \A i \in 1..n : /\ r[i + 1].kind = "tool_result" /\ r[i + 1].id = i
                                  /\ r[i + 1].how = o[i]
<1> DEFINE n == Len(o)
           f == [i \in DOMAIN o |-> ResultMessage(i, o[i], a)]
           g == [i \in DOMAIN o |-> i]
           c == CallMessage(o, a)
           e == <<c>>
           r == e \o f
<1>1. n \in Nat /\ DOMAIN o = 1..n /\ \A i \in 1..n : o[i] \in {"done", "refused"}
  BY DEF Goings
<1>2. g \in Seq(Nat) /\ Len(g) = n /\ DOMAIN g = 1..n /\ \A i \in 1..n : g[i] = i
  BY <1>1
<1>3. c \in Lines /\ c.kind = "tool_call" /\ c.ids = g
  BY <1>2 DEF CallMessage, Lines, Calling
<1>4. \A i \in 1..n : /\ ResultMessage(i, o[i], a) \in Lines
                      /\ ResultMessage(i, o[i], a).kind = "tool_result"
                      /\ ResultMessage(i, o[i], a).id = i
                      /\ ResultMessage(i, o[i], a).how = o[i]
  BY <1>1 DEF ResultMessage, Lines, Resulting
<1>5. f \in Seq(Lines) /\ Len(f) = n /\ \A i \in 1..n : f[i] = ResultMessage(i, o[i], a)
  <2> HIDE DEF n
  <2>1. f \in [1..n -> Lines]
    BY <1>1, <1>4
  <2> QED
    BY <1>1, <2>1
<1> HIDE DEF c, g, f
<1>6. e \in Seq(Lines) /\ Len(e) = 1 /\ e[1] = c
  BY <1>3
<1> HIDE DEF e, n
<1>7. r \in Seq(Lines) /\ Len(r) = n + 1 /\ r[1] = c /\ \A i \in 1..n : r[i + 1] = f[i]
  <2>1. /\ r \in Seq(Lines) /\ DOMAIN r = 1..Len(e) + Len(f)
        /\ \A i \in 1..Len(e) : r[i] = e[i]
        /\ \A i \in 1..Len(f) : r[Len(e) + i] = f[i]
    <3>1. e \in Seq(Lines) /\ f \in Seq(Lines)
      BY <1>5, <1>6
    <3> QED
      BY <3>1, Both DEF r
  <2> HIDE DEF r
  <2>2. \A i \in 1..n : 1 + i = i + 1 /\ r[1 + i] = f[i]
    BY <1>1, <1>5, <1>6, <2>1
  <2>3. 1 \in 1..Len(e) /\ Len(e) + Len(f) = n + 1
    BY <1>1, <1>5, <1>6
  <2>4. Len(r) = n + 1
    BY <1>1, <2>1, <2>3
  <2>5. \A i \in 1..n : r[i + 1] = f[i]
    BY <2>2
  <2> QED
    BY <1>6, <2>1, <2>3, <2>4, <2>5
<1>8. Record(o, a) = r
  BY DEF Record, r, e, c, f
<1> HIDE DEF r
<1>9. \A i \in 1..n : r[i + 1].kind = "tool_result" /\ r[i + 1].id = i /\ r[i + 1].how = o[i]
  BY <1>4, <1>5, <1>7
<1> QED
  BY <1>1, <1>2, <1>3, <1>7, <1>8, <1>9 DEF n

\* It is a conversation of calls and results, and what is done in it are the edits.
LEMMA RecordTalks ==
    ASSUME NEW o \in Goings, NEW a \in Nat
    PROVE  /\ Record(o, a) \in Talks
           /\ Of(Record(o, a), Tools) = Record(o, a)
           /\ Once(Record(o, a)) /\ \A key : GivesNone(Record(o, a), key)
           /\ Cardinality(Done(Record(o, a))) = Edited(o)
<1> DEFINE r == Record(o, a)
           n == Len(o)
<1>1. /\ r \in Seq(Lines) /\ n \in Nat /\ Len(r) = n + 1 /\ DOMAIN o = 1..n
      /\ r[1] \in Lines /\ r[1].kind = "tool_call" /\ DOMAIN r[1].ids = 1..n /\ \A i \in 1..n : r[1].ids[i] = i
      /\ \A i \in 1..n : r[i + 1].kind = "tool_result" /\ r[i + 1].id = i /\ r[i + 1].how = o[i]
  BY Recorded
<1> HIDE DEF r, n
<1>2. DOMAIN r = 1..n + 1 /\ \A i \in 1..n + 1 : i = 1 \/ \E j \in 1..n : i = j + 1
  <2>1. \A i \in 1..n + 1 : i # 1 => i - 1 \in 1..n /\ i = (i - 1) + 1
    BY <1>1
  <2> QED
    BY <1>1, <2>1
<1>3. \A i \in 1..Len(r) : r[i].kind \in Tools
  <2>1. r[1].kind \in Tools /\ \A j \in 1..n : r[j + 1].kind \in Tools
    BY <1>1 DEF Tools
  <2> QED
    BY <1>1, <1>2, <2>1
<1>4. Of(r, Tools) = r
  BY <1>1, <1>3, OfAll
<1>5. Once(r) /\ \A key : GivesNone(r, key)
  <2>1. \A i \in 1..Len(r) : r[i].kind # "context"
    BY <1>3 DEF Tools
  <2> QED
    BY <1>1, <2>1, NoContext
<1>6. Accepted(r)
  <2> SUFFICES ASSUME NEW i \in 1..n + 1, r[i].kind = "tool_call", NEW p \in DOMAIN r[i].ids
               PROVE  i + p \in 1..n + 1 /\ r[i + p].kind = "tool_result" /\ r[i + p].id = r[i].ids[p]
    BY <1>2 DEF Accepted
  <2>1. i = 1
    BY <1>1, <1>2
  <2>2. p \in 1..n /\ r[i].ids[p] = p
    BY <1>1, <2>1
  <2>3. i + p = p + 1 /\ p + 1 \in 1..n + 1
    BY <1>1, <2>1, <2>2
  <2> QED
    BY <1>1, <2>2, <2>3
<1>7. Cardinality(Done(r)) = Edited(o)
  <2> DEFINE E == {i \in DOMAIN o : o[i] = "done"}
  <2>1. E \subseteq 1..n /\ E \in SUBSET Nat
    BY <1>1
  <2>2. Done(r) = {1 + i : i \in E}
    <3>1. 1 \notin Done(r)
      BY <1>1 DEF Done
    <3>2. \A i \in 1..n : i + 1 \in Done(r) <=> i \in E
      BY <1>1, <1>2 DEF Done
    <3>3. Done(r) \subseteq 1..n + 1
      BY <1>2 DEF Done
    <3> HIDE DEF E
    <3>4. \A i \in E : 1 + i = i + 1
      BY <2>1
    <3> QED
      BY <1>2, <2>1, <3>1, <3>2, <3>3, <3>4
  <2> HIDE DEF E
  <2>3. IsFiniteSet(E)
    BY <1>1, <2>1, Few
  <2>4. Cardinality({1 + i : i \in E}) = Cardinality(E)
    <3>1. \A m \in Nat : Cardinality({m + i : i \in E}) = Cardinality(E)
      BY <2>1, <2>3, Shifted
    <3> QED
      BY <3>1
  <2> QED
    BY <2>2, <2>4 DEF E, Edited
<1>8. r \in Talks
  <2>1. \A i \in 1..Len(r) : r[i].kind \in Sent
    BY <1>3 DEF Tools, Sent
  <2> QED
    BY <1>1, <1>6, <2>1 DEF Talks
<1> QED
  BY <1>4, <1>5, <1>7, <1>8 DEF r

\* One more turn at the end of the conversation, whether it is the first or not.
LEMMA TurnAdded ==
    ASSUME NEW C, NEW ds \in Seq(Seq(C)), NEW s \in Seq(C)
    PROVE  FlattenSeq(Append(ds, s)) = FlattenSeq(ds) \o s
<1>1. FlattenSeq(Append(ds, s)) = IF ds = <<>> THEN s ELSE FlattenSeq(ds) \o s
  BY FlattenAppend
<1>2. ds = <<>> => FlattenSeq(ds) = <<>>
  BY DEF FlattenSeq
<1>3. <<>> \o s = s
  OBVIOUS
<1> QED
  BY <1>1, <1>2, <1>3

\* Turns of a conversation are sequences of lines.
LEMMA TurnsAreLines ==
    ASSUME NEW ds \in Seq(Talks)
    PROVE  ds \in Seq(Seq(Lines))
<1>1. Talks \subseteq Seq(Lines)
  BY DEF Talks
<1> DEFINE S == Seq(Lines)
<1> HIDE DEF S
<1>2. Talks \subseteq S
  BY <1>1 DEF S
<1>3. ds \in Seq(S)
  BY <1>2
<1> QED
  BY <1>3 DEF S

\* What is committed reads as a conversation.
LEMMA FlatTalks ==
    ASSUME NEW ds \in Seq(Talks)
    PROVE  FlattenSeq(ds) \in Talks
<1> DEFINE A == {m \in Nat : \A es \in Seq(Talks) : Len(es) = m => FlattenSeq(es) \in Talks}
<1>1. 0 \in A
  <2> SUFFICES ASSUME NEW es \in Seq(Talks), Len(es) = 0 PROVE FlattenSeq(es) \in Talks
    OBVIOUS
  <2>1. es = <<>>
    BY EmptySeq
  <2>2. FlattenSeq(es) = <<>>
    BY <2>1 DEF FlattenSeq
  <2> QED
    BY <2>2, NoLine
<1>2. ASSUME NEW m \in Nat, m \in A
      PROVE  m + 1 \in A
  <2> SUFFICES ASSUME NEW es \in Seq(Talks), Len(es) = m + 1 PROVE FlattenSeq(es) \in Talks
    OBVIOUS
  <2> DEFINE fs == Front(es)
  <2>1. es # <<>>
    BY EmptySeq
  <2>2. fs \in Seq(Talks) /\ Len(fs) = m /\ \E s \in Talks : es = Append(fs, s)
    BY <2>1, LastTurn
  <2> HIDE DEF fs
  <2>3. PICK s \in Talks : es = Append(fs, s)
    BY <2>2
  <2>4. FlattenSeq(fs) \in Talks
    BY <1>2, <2>2
  <2>5. FlattenSeq(es) = FlattenSeq(fs) \o s
    <3>1. fs \in Seq(Seq(Lines)) /\ s \in Seq(Lines)
      BY <2>2, TurnsAreLines, TalkParts
    <3> QED
      BY <2>3, <3>1, TurnAdded
  <2> QED
    BY <2>4, <2>5, TalksBoth
<1> HIDE DEF A
<1>3. Nat \subseteq A
  BY <1>1, <1>2, SetInduction
<1>4. Len(ds) \in Nat
  OBVIOUS
<1> QED
  BY <1>3, <1>4 DEF A

\* All of it is sent again.
LEMMA SentAgain ==
    ASSUME NEW s \in Talks
    PROVE  Replayed(s) = s
<1>1. s \in Seq(Lines) /\ \A i \in 1..Len(s) : s[i].kind \in Sent
  BY TalkParts
<1>2. Of(s, Sent) = s
  BY <1>1, OfAll
<1> QED
  BY <1>2 DEF Replayed, Sent

-----------------------------------------------------------------------------
(* The transcript of a turn and the view that holds it.  *)

Texts == Nat \cup {NoText}
Parts == {"staged", "answer", "thought", "drawn", "base", "stale"}
IsTranscript(t) == t = [x \in Parts |-> t[x]] /\ t.thought = NoText
Places == {"live", "loading", "t", "r"}
IsPane(v) == v = [x \in Places |-> v[x]] /\ v.live = TRUE /\ IsTranscript(v.t)

\* Messages are staged.
LEMMA StagedAll ==
    ASSUME NEW t, IsTranscript(t), NEW q
    PROVE  LET u == StageAll(t, q)
           IN  IsTranscript(u) /\ u.staged = t.staged \o q /\ u.answer = t.answer
BY DEF IsTranscript, Parts, StageAll

\* One message is.
LEMMA StagedOne ==
    ASSUME NEW t, IsTranscript(t), NEW m
    PROVE  LET u == Push(t, m)
           IN  IsTranscript(u) /\ u.staged = Append(t.staged, m) /\ u.answer = t.answer
BY DEF IsTranscript, Parts, Push

\* The document was changed by somebody else.
LEMMA TranscriptStale ==
    ASSUME NEW t, IsTranscript(t)
    PROVE  LET u == [t EXCEPT !.stale = TRUE]
           IN  IsTranscript(u) /\ u.staged = t.staged /\ u.answer = t.answer
BY DEF IsTranscript, Parts

\* What it holds is adopted.
LEMMA TranscriptAdopts ==
    ASSUME NEW t, IsTranscript(t), NEW c
    PROVE  LET u == Adopt(t, c)
           IN  IsTranscript(u) /\ u.staged = t.staged /\ u.answer = t.answer
<1> DEFINE u == [t EXCEPT !.stale = FALSE, !.drawn = c \o t.staged, !.base = Len(c)]
<1>1. IsTranscript(u) /\ u.staged = t.staged /\ u.answer = t.answer
  BY DEF IsTranscript, Parts
<1>2. Adopt(t, c) = t \/ Adopt(t, c) = u
  BY DEF Adopt
<1> QED
  BY <1>1, <1>2

\* The first token of an answer.
LEMMA AnswerBegins ==
    ASSUME NEW t, IsTranscript(t), t.answer = NoText, NEW at
    PROVE  LET u == Stream(t, "assistant", at)
           IN  IsTranscript(u) /\ u.staged = t.staged /\ u.answer = at
BY DEF IsTranscript, Parts, Stream, FlushThought, Begun

\* A transcript anew.
LEMMA TranscriptBegins ==
    ASSUME NEW c
    PROVE  LET u == NewTranscript(c)
           IN  IsTranscript(u) /\ u.staged = <<>> /\ u.answer = NoText
BY DEF IsTranscript, Parts, NewTranscript

\* The end of a turn: the answer is staged, if there is one.
WithAnswer(t) == IF t.answer = NoText THEN t.staged ELSE Append(t.staged, Message("assistant", t.answer))

\* What is handed over, and what is left.
LEMMA TurnFinished ==
    ASSUME NEW t, IsTranscript(t)
    PROVE  /\ Finished(t).staged = WithAnswer(t)
           /\ IsTranscript(Settled(t)) /\ Settled(t).staged = <<>> /\ Settled(t).answer = NoText
           /\ IsTranscript(Finished(t))
<1>1. FlushThought(t) = t
  BY DEF IsTranscript, FlushThought
<1> DEFINE u == Finished(t)
           w == Push(t, Message("assistant", t.answer))
<1>2. IsTranscript(w) /\ w.staged = Append(t.staged, Message("assistant", t.answer))
  BY StagedOne
<1>3. u = IF t.answer = NoText THEN t ELSE [w EXCEPT !.answer = NoText]
  BY <1>1 DEF Finished, FlushAll, FlushAnswer
<1>5. Settled(t) = [u EXCEPT !.staged = <<>>, !.stale = FALSE, !.base = Len(u.drawn)]
  BY DEF Settled
<1> HIDE DEF u, w
<1>4. IsTranscript(u) /\ u.staged = WithAnswer(t) /\ u.answer = NoText
  <2>1. CASE t.answer = NoText
    BY <1>3, <2>1 DEF WithAnswer
  <2>2. CASE t.answer # NoText
    <3>1. u = [w EXCEPT !.answer = NoText]
      BY <1>3, <2>2
    <3>2. IsTranscript(u) /\ u.staged = w.staged /\ u.answer = NoText
      BY <1>2, <3>1 DEF IsTranscript, Parts
    <3> QED
      BY <1>2, <2>2, <3>2 DEF WithAnswer
  <2> QED
    BY <2>1, <2>2
<1>6. IsTranscript(Settled(t)) /\ Settled(t).staged = <<>> /\ Settled(t).answer = NoText
  BY <1>4, <1>5 DEF IsTranscript, Parts
<1> QED
  BY <1>4, <1>6 DEF u

\* A view takes another transcript, with its rows.
LEMMA PaneTakes ==
    ASSUME NEW v, IsPane(v), NEW u, IsTranscript(u), NEW r
    PROVE  LET w == [v EXCEPT !.t = u, !.r = r]
           IN  IsPane(w) /\ w.t = u /\ w.loading = v.loading
BY DEF IsPane, Places

\* It shows one.
LEMMA PaneShows ==
    ASSUME NEW v, IsPane(v), NEW u, IsTranscript(u)
    PROVE  IsPane(Shown(v, u)) /\ Shown(v, u).t = u /\ Shown(v, u).loading = v.loading
<1> DEFINE r == AbsorbRows(v.r, v.t.drawn, u.drawn)
<1>1. Shown(v, u) = [v EXCEPT !.t = u, !.r = r]
  BY DEF Shown, IsPane, Places
<1> HIDE DEF r
<1>2. \A y : LET w == [v EXCEPT !.t = u, !.r = y]
             IN  IsPane(w) /\ w.t = u /\ w.loading = v.loading
  BY PaneTakes
<1> QED
  BY <1>1, <1>2, Zenon

\* It begins to load.
LEMMA PaneLoads ==
    ASSUME NEW v, IsPane(v)
    PROVE  LET w == [v EXCEPT !.loading = TRUE]
           IN  IsPane(w) /\ w.t = v.t /\ w.loading = TRUE
BY DEF IsPane, Places

\* It settles after a turn.
LEMMA PaneSettles ==
    ASSUME NEW v, IsPane(v), NEW u, IsTranscript(u)
    PROVE  LET w == [v EXCEPT !.loading = FALSE, !.t = u]
           IN  IsPane(w) /\ w.t = u
BY DEF IsPane, Places

\* It is told of a change.
LEMMA PaneStale ==
    ASSUME NEW v, IsPane(v)
    PROVE  LET w == [v EXCEPT !.t.stale = TRUE]
           IN  IsPane(w) /\ w.t.staged = v.t.staged /\ w.t.answer = v.t.answer /\ w.loading = v.loading
<1> DEFINE y == [v.t EXCEPT !.stale = TRUE]
           w == [v EXCEPT !.t.stale = TRUE]
<1>1. IsTranscript(y) /\ y.staged = v.t.staged /\ y.answer = v.t.answer
  BY TranscriptStale DEF IsPane
<1>2. w = [v EXCEPT !.t = y]
  OBVIOUS
<1> HIDE DEF w, y
<1>3. IsPane(w) /\ w.t = y /\ w.loading = v.loading
  BY <1>1, <1>2 DEF IsPane, Places
<1> QED
  BY <1>1, <1>3 DEF w, y

\* A view anew.
LEMMA PaneBegins ==
    IsPane(Mounted) /\ Mounted.t.staged = <<>> /\ Mounted.t.answer = NoText
<1>1. /\ IsTranscript(NewTranscript(Committed)) /\ NewTranscript(Committed).staged = <<>>
      /\ NewTranscript(Committed).answer = NoText
  BY TranscriptBegins
<1>2. Mounted = [live |-> TRUE, loading |-> FALSE, t |-> NewTranscript(Committed), r |-> BuildRows(Committed)]
  BY DEF Mounted
<1> QED
  BY <1>1, <1>2 DEF IsPane, Places

\* One more line of a conversation that calls nothing.
LEMMA TalksMore ==
    ASSUME NEW s \in Talks, NEW m \in Lines, m.kind \in Sent \ {"tool_call"}
    PROVE  Append(s, m) \in Talks
<1> DEFINE e == <<m>>
<1>1. e \in Talks
  BY OneLine
<1>2. Append(s, m) = s \o e
  BY TalkParts, AppendIsConcat
<1> HIDE DEF e
<1> QED
  BY <1>1, <1>2, TalksBoth

\* And one that is no context leaves no two contexts alike.
LEMMA OnceMore ==
    ASSUME NEW s \in Seq(Lines), NEW r \in Seq(Lines), NEW m \in Lines, m.kind # "context", Once(s \o r)
    PROVE  Once(s \o Append(r, m))
<1> DEFINE e == <<m>>
           q == s \o r
<1>1. e \in Seq(Lines) /\ Len(e) = 1 /\ e[1] = m
  OBVIOUS
<1>2. q \in Seq(Lines) /\ Append(r, m) = r \o e
  BY AppendIsConcat
<1> HIDE DEF e
<1>3. s \o Append(r, m) = q \o e
  <2>1. (s \o r) \o e = s \o (r \o e)
    BY <1>1, ConcatAssociative
  <2> QED
    BY <1>2, <2>1 DEF q
<1>4. Once(q)
  OBVIOUS
<1> HIDE DEF q
<1>5. Once(e)
  <2>1. \A i \in 1..Len(e) : e[i].kind # "context"
    BY <1>1
  <2> QED
    BY <1>1, <2>1, NoContext
<1>6. \A i \in 1..Len(q), j \in 1..Len(e) : ~ (IsContext(q[i]) /\ IsContext(e[j]) /\ q[i].key = e[j].key)
  <2>1. \A j \in 1..Len(e) : ~IsContext(e[j])
    BY <1>1 DEF IsContext
  <2> QED
    BY <2>1
<1>7. Once(q \o e)
  BY <1>1, <1>2, <1>4, <1>5, <1>6, OnceBoth
<1> QED
  BY <1>3, <1>7

\* One part less in the middle leaves none alike either.
LEMMA OnceLess ==
    ASSUME NEW s \in Seq(Lines), NEW r \in Seq(Lines), NEW q \in Seq(Lines), Once((s \o r) \o q)
    PROVE  Once(s \o q)
<1> DEFINE p == s \o r
           Alike(x, y) == IsContext(x) /\ IsContext(y) /\ x.key = y.key
<1>1. /\ p \in Seq(Lines) /\ Len(s) \in Nat /\ Len(p) = Len(s) + Len(r) /\ Len(r) \in Nat
      /\ \A i \in 1..Len(s) : p[i] = s[i]
  OBVIOUS
<1>2. Once(s) /\ Once(p \o q)
  <2>1. Once(p)
    <3> HIDE DEF p
    <3>1. Once(p \o q)
      BY DEF p
    <3> QED
      BY <1>1, <3>1, OnceBoth
  <2> QED
    BY <2>1, OnceBoth
<1> HIDE DEF p
<1>3. Once(q) /\ \A i \in 1..Len(p), j \in 1..Len(q) : ~Alike(p[i], q[j])
  BY <1>1, <1>2, OnceBoth
<1>4. \A i \in 1..Len(s), j \in 1..Len(q) : ~Alike(s[i], q[j])
  <2>1. \A i \in 1..Len(s) : i \in 1..Len(p) /\ p[i] = s[i]
    BY <1>1
  <2> QED
    BY <1>3, <2>1
<1> QED
  BY <1>2, <1>3, <1>4, OnceBoth

-----------------------------------------------------------------------------
(* The inductive invariant of the rounds.  *)

Tasks == [round : Nat \ {0}, chat : Seq(Lines), read : Seq(Lines), given : Nat, edits : Nat]

\* A conversation gives no rows twice, unless a turn was brought back while one ran.
Single(s) == ~spliced => Once(s)
Knows(staged) ==
  /\ task.edits = Cardinality(Done(staged))
  /\ Of(task.chat, Tools) = Of(task.read \o staged, Tools)
  /\ ~spliced /\ task.given # 0 => GivesOnce(task.chat, task.given)
Working ==
  /\ IsPane(pane) /\ pane.loading = TRUE /\ task \in Tasks
  /\ pane.t.staged \in Talks /\ pane.t.answer \in Texts
  /\ Single(Committed \o pane.t.staged)
  /\ Knows(pane.t.staged)
Resting ==
  /\ task = NoTask
  /\ \/ pane = Undrawn
     \/ IsPane(pane) /\ pane.t.staged = <<>> /\ pane.t.answer = NoText

\* Undo and redo move along one line of turns, and each of its beginnings is single.
Line == turns \o undone
Beginnings == \A k \in 0..Len(Line) : Single(FlattenSeq(SubSeq(Line, 1, k)))
RInvariant ==
  /\ turns \in Seq(Talks) /\ undone \in Seq(Talks) /\ rows \in Nat /\ clock \in Nat
  /\ Beginnings
  /\ Working \/ Resting

\* What is committed.
LEMMA CommittedTalks ==
    ASSUME RInvariant
    PROVE  Committed \in Talks /\ Committed \in Seq(Lines) /\ Len(turns) \in Nat
<1>1. turns \in Seq(Talks)
  BY DEF RInvariant
<1> QED
  BY <1>1, FlatTalks, TalkParts DEF Committed

\* The beginnings of a line are those of its first part, as far as it goes.
LEMMA FirstPart ==
    ASSUME NEW T, NEW x \in Seq(T), NEW y \in Seq(T)
    PROVE  /\ Len(x) \in Nat /\ Len(x \o y) = Len(x) + Len(y)
           /\ \A k \in 0..Len(x) : SubSeq(x \o y, 1, k) = SubSeq(x, 1, k)
           /\ SubSeq(x \o y, 1, Len(x)) = x
<1>1. Len(x) \in Nat /\ Len(x \o y) = Len(x) + Len(y)
  OBVIOUS
<1>2. SubSeq(x, 1, Len(x)) = x
  BY SubSeqFull
<1>3. ASSUME NEW k \in 0..Len(x) PROVE SubSeq(x \o y, 1, k) = SubSeq(x, 1, k)
  <2>1. CASE k = 0
    <3>1. x \o y \in Seq(T)
      OBVIOUS
    <3> QED
      BY <2>1, <3>1, SubSeqEmpty
  <2>2. CASE k # 0
    <3>1. 1 \in 1..Len(x) /\ k \in 1..Len(x)
      BY <1>1, <1>3, <2>2
    <3> QED
      BY <3>1, SubSeqOfConcat1
  <2> QED
    BY <2>1, <2>2
<1> QED
  BY <1>1, <1>2, <1>3

\* What is committed is one of the beginnings.
LEMMA CommittedSingle ==
    ASSUME RInvariant
    PROVE  Single(Committed)
<1>1. turns \in Seq(Talks) /\ undone \in Seq(Talks)
  BY DEF RInvariant
<1>2. Len(turns) \in 0..Len(Line) /\ SubSeq(Line, 1, Len(turns)) = turns
  BY <1>1, FirstPart DEF Line
<1>3. Single(FlattenSeq(SubSeq(Line, 1, Len(turns))))
  BY <1>2 DEF RInvariant, Beginnings
<1> QED
  BY <1>2, <1>3 DEF Committed

\* A line that is the same, or has only its first part left, keeps its beginnings.
LEMMA LineStays ==
    ASSUME RInvariant, spliced => spliced', Line' = Line \/ Line' = turns
    PROVE  Beginnings'
<1>1. turns \in Seq(Talks) /\ undone \in Seq(Talks)
  BY DEF RInvariant
<1>2. ASSUME NEW k \in 0..Len(Line') PROVE Single(FlattenSeq(SubSeq(Line', 1, k)))
  <2>1. CASE Line' = Line
    BY <1>2, <2>1 DEF RInvariant, Beginnings
  <2>2. CASE Line' = turns
    <3>1. k \in 0..Len(turns) /\ k \in 0..Len(Line) /\ SubSeq(Line, 1, k) = SubSeq(turns, 1, k)
      BY <1>1, <1>2, <2>2, FirstPart DEF Line
    <3> QED
      BY <2>2, <3>1 DEF RInvariant, Beginnings
  <2> QED
    BY <1>2, <2>1, <2>2
<1> QED
  BY <1>2 DEF Beginnings, Single

\* One turn more, and nothing to bring back.
LEMMA LineGrows ==
    ASSUME RInvariant, spliced' = spliced, NEW s \in Talks, turns' = Append(turns, s), undone' = <<>>,
           Single(Committed \o s)
    PROVE  Beginnings'
<1> DEFINE e == <<s>>
           n == Len(turns)
<1>1. turns \in Seq(Talks) /\ undone \in Seq(Talks) /\ e \in Seq(Talks) /\ Len(e) = 1
  BY DEF RInvariant
<1>2. Line' = turns \o e
  <2>1. turns' = turns \o e
    BY <1>1, AppendIsConcat
  <2>2. turns' \in Seq(Talks)
    BY <1>1
  <2>3. turns' \o <<>> = turns'
    BY <2>2
  <2> QED
    BY <2>1, <2>3 DEF Line
<1> HIDE DEF e
<1>3. /\ n \in Nat /\ Len(turns \o e) = n + 1
      /\ \A k \in 0..n : k \in 0..Len(Line) /\ SubSeq(turns \o e, 1, k) = SubSeq(Line, 1, k)
  BY <1>1, FirstPart DEF Line
<1>4. SubSeq(turns \o e, 1, n + 1) = turns'
  <2>1. turns \o e \in Seq(Talks)
    BY <1>1
  <2>2. SubSeq(turns \o e, 1, Len(turns \o e)) = turns \o e
    BY <2>1, SubSeqFull
  <2> QED
    BY <1>1, <1>3, <2>2, AppendIsConcat DEF e
<1>5. FlattenSeq(turns') = Committed \o s
  <2>1. turns \in Seq(Seq(Lines)) /\ s \in Seq(Lines)
    BY <1>1, TurnsAreLines, TalkParts
  <2> QED
    BY <2>1, TurnAdded DEF Committed
<1>6. ASSUME NEW k \in 0..n + 1 PROVE Single(FlattenSeq(SubSeq(turns \o e, 1, k)))
  <2>1. CASE k \in 0..n
    BY <1>3, <2>1 DEF RInvariant, Beginnings
  <2>2. CASE k = n + 1
    BY <1>4, <1>5, <2>2
  <2> QED
    BY <1>3, <1>6, <2>1, <2>2
<1> QED
  BY <1>2, <1>3, <1>6 DEF Beginnings, Single

\* A turn runs only in a view that is drawn.
LEMMA AskingWorks ==
    ASSUME RInvariant, Asking
    PROVE  Working
BY DEF RInvariant, Resting, NoTask, Asking

\* A turn that ends hands over what it staged.
LEMMA CloseKeeps ==
    ASSUME RInvariant, Working, NEW t, IsTranscript(t), t.answer \in Texts, t.staged \in Talks,
           Single(Committed \o t.staged), Close(t)
    PROVE  RInvariant'
<1> DEFINE s == WithAnswer(t)
           u == Finished(t)
<1>1. Committed \in Talks /\ Committed \in Seq(Lines) /\ Len(turns) \in Nat /\ turns \in Seq(Talks)
      /\ rows \in Nat /\ clock \in Nat
  BY CommittedTalks DEF RInvariant
<1>2. u.staged = s /\ IsTranscript(u) /\ IsTranscript(Settled(t)) /\ Settled(t).staged = <<>> /\ Settled(t).answer = NoText
  BY TurnFinished
<1>3. s \in Talks /\ Single(Committed \o s)
  <2>1. CASE t.answer = NoText
    BY <2>1 DEF WithAnswer
  <2>2. CASE t.answer # NoText
    <3> DEFINE m == Message("assistant", t.answer)
    <3>1. m \in Lines /\ m.kind = "assistant"
      BY <2>2, LinesMade DEF Texts
    <3>2. s = Append(t.staged, m)
      BY <2>2 DEF WithAnswer
    <3> HIDE DEF m
    <3>3. Append(t.staged, m) \in Talks
      BY <3>1, TalksMore DEF Sent
    <3>4. Single(Committed \o Append(t.staged, m))
      BY <1>1, <3>1, TalkParts, OnceMore DEF Single
    <3> QED
      BY <3>2, <3>3, <3>4
  <2> QED
    BY <2>1, <2>2
<1>4. /\ pane' = [Shown(pane, u) EXCEPT !.loading = FALSE, !.t = Settled(t)]
      /\ turns' = Append(turns, u.staged) /\ undone' = <<>> /\ task' = NoTask
      /\ rows' = rows /\ clock' = clock /\ spliced' = spliced
  BY DEF Close
<1> HIDE DEF s, u
<1>5. IsPane(Shown(pane, u))
  BY <1>2, PaneShows DEF Working
<1>6. IsPane(pane') /\ pane'.t = Settled(t)
  BY <1>2, <1>4, <1>5, PaneSettles
<1>7. turns' = Append(turns, s) /\ turns' \in Seq(Talks) /\ undone' \in Seq(Talks)
  BY <1>1, <1>2, <1>3, <1>4
<1>8. Beginnings'
  BY <1>2, <1>3, <1>4, LineGrows
<1>9. Resting'
  BY <1>2, <1>4, <1>6 DEF Resting
<1> QED
  BY <1>1, <1>4, <1>7, <1>8, <1>9 DEF RInvariant

\* The turn of an answer without calls, of one that failed and of one asked too often.
LEMMA EndsKeep ==
    ASSUME RInvariant, Answered \/ ModelFails \/ Limit
    PROVE  RInvariant'
<1>1. Working
  BY AskingWorks DEF Answered, ModelFails, Limit
<1> DEFINE t == pane.t
           m == Message("system", clock)
           u == Push(t, m)
<1>2. /\ IsTranscript(t) /\ t.answer \in Texts /\ t.staged \in Talks /\ Single(Committed \o t.staged)
      /\ clock \in Nat /\ Committed \in Seq(Lines)
  BY <1>1, CommittedTalks DEF Working, IsPane, RInvariant
<1>3. m \in Lines /\ m.kind = "system"
  BY <1>2, LinesMade
<1>4. CASE Answered
  <2>1. Close(t)
    BY <1>4 DEF Answered
  <2> QED
    BY <1>1, <1>2, <2>1, CloseKeeps
<1>5. CASE ModelFails \/ Limit
  <2>1. Close(u)
    BY <1>5 DEF ModelFails, Limit
  <2> HIDE DEF m, t
  <2>2. IsTranscript(u) /\ u.staged = Append(t.staged, m) /\ u.answer = t.answer
    BY <1>2, StagedOne
  <2>3. Append(t.staged, m) \in Talks
    BY <1>2, <1>3, TalksMore DEF Sent
  <2>4. Single(Committed \o Append(t.staged, m))
    BY <1>2, <1>3, TalkParts, OnceMore DEF Single
  <2> HIDE DEF u
  <2> QED
    BY <1>1, <1>2, <2>1, <2>2, <2>3, <2>4, CloseKeeps
<1> QED
  BY <1>4, <1>5

\* The rows of the wired result are gathered unless the conversation gives them.
LEMMA Gathered ==
    ASSUME NEW s \in Seq(Lines), rows \in Nat, NEW a \in Nat
    PROVE  LET g == Gather(s, a)
           IN  /\ g \in Talks /\ Of(g, Tools) = <<>> /\ Cardinality(Done(g)) = 0
               /\ Once(s) => /\ Once(s \o g) /\ Once(g)
                             /\ rows # 0 => GivesOnce(s \o g, rows)
<1> DEFINE g == Gather(s, a)
           m == ContextMessage(rows, a)
           e == <<m>>
<1>1. m \in Lines /\ m.kind = "context" /\ m.key = rows
  BY LinesMade
<1>2. Unseen(s) = {} <=> rows = 0 \/ ~GivesNone(s, rows)
  BY DEF Unseen, GivesNone, GivesAt
<1>3. g = IF Unseen(s) = {} THEN <<>> ELSE e
  BY DEF Gather
<1> HIDE DEF m
<1>4. e \in Seq(Lines) /\ Len(e) = 1 /\ e[1] = m /\ DOMAIN e = {1}
  BY <1>1
<1>5. e \in Talks /\ Of(e, Tools) = <<>> /\ Cardinality(Done(e)) = 0
  <2>1. m.kind # "tool_call" /\ m.kind \in Sent /\ m.kind # "tool_result" /\ m.kind \notin Tools
    BY <1>1 DEF Sent, Tools
  <2> QED
    BY <1>1, <2>1, OneLine
<1>6. Once(e) /\ GivesOnce(e, rows)
  <2> HIDE DEF e
  <2>1. Gives(e[1], rows)
    BY <1>1, <1>4 DEF Gives, IsContext
  <2>2. GivesAt(e, rows) = {1}
    BY <1>4, <2>1 DEF GivesAt
  <2> QED
    BY <1>4, <2>2 DEF Once, GivesOnce
<1> HIDE DEF g, e
<1>7. CASE Unseen(s) = {}
  <2>1. g = <<>> /\ s \o <<>> = s
    BY <1>3, <1>7
  <2>2. Once(s) /\ rows # 0 => GivesOnce(s, rows)
    BY <1>2, <1>7, GivenOnce
  <2> QED
    BY <2>1, <2>2, NoLine DEF g
<1>8. CASE Unseen(s) # {}
  <2>1. g = e /\ GivesNone(s, rows)
    BY <1>2, <1>3, <1>8
  <2>2. GivesOnce(s \o e, rows)
    BY <1>4, <1>6, <2>1, GivesBoth
  <2>3. ASSUME Once(s) PROVE Once(s \o e)
    <3>1. \A i \in 1..Len(s) : ~Gives(s[i], rows)
      <4>1. DOMAIN s = 1..Len(s)
        OBVIOUS
      <4> QED
        BY <2>1, <4>1 DEF GivesNone, GivesAt
    <3>2. \A i \in 1..Len(s), j \in 1..Len(e) : ~ (IsContext(s[i]) /\ IsContext(e[j]) /\ s[i].key = e[j].key)
      <4>1. \A j \in 1..Len(e) : e[j].key = rows
        BY <1>1, <1>4
      <4> QED
        BY <3>1, <4>1 DEF Gives
    <3> QED
      BY <1>4, <1>6, <2>3, <3>2, OnceBoth
  <2> QED
    BY <1>5, <1>6, <2>1, <2>2, <2>3 DEF g
<1> QED
  BY <1>7, <1>8

\* The tools of two lists of lines.
LEMMA ToolsBoth ==
    \A x, y \in Seq(Lines) : Of(x \o y, Tools) = Of(x, Tools) \o Of(y, Tools)
BY OfConcat, SMTT(30)

\* A question, on what is committed and what is known of the result.
LEMMA AskKeeps ==
    ASSUME RInvariant, AskModel
    PROVE  RInvariant'
<1> DEFINE a == clock + 1
           q == <<Message("user", a)>>
           c == Committed
           g == Gather(c, a)
           s == q \o g
           chat == Replayed(c) \o g \o q
           u == StageAll(pane.t, s)
<1>1. /\ clock \in Nat /\ a \in Nat /\ rows \in Nat /\ turns \in Seq(Talks) /\ undone \in Seq(Talks)
      /\ c \in Talks /\ c \in Seq(Lines)
  BY CommittedTalks DEF RInvariant
<1>2. Resting /\ IsPane(pane) /\ pane.t.staged = <<>> /\ pane.t.answer = NoText
  BY DEF AskModel, RInvariant, Working, Resting, Undrawn
<1>3. /\ clock' = a /\ turns' = turns /\ rows' = rows /\ undone' = undone /\ spliced' = spliced
      /\ pane' = [Shown(pane, u) EXCEPT !.loading = TRUE]
      /\ task' = [round |-> 1, given |-> rows, edits |-> 0, read |-> c, chat |-> chat]
  BY DEF AskModel, history
<1>4. /\ q \in Talks /\ q \in Seq(Lines) /\ Of(q, Tools) = <<>> /\ Cardinality(Done(q)) = 0
      /\ Once(q) /\ \A key : GivesNone(q, key)
      /\ \A i \in 1..Len(q) : q[i].kind # "context"
  <2> DEFINE m == Message("user", a)
  <2>1. m \in Lines /\ m.kind = "user"
    BY <1>1, LinesMade
  <2> HIDE DEF m
  <2>2. /\ m.kind # "tool_call" /\ m.kind \in Sent /\ m.kind # "tool_result" /\ m.kind \notin Tools
        /\ m.kind # "context"
    BY <2>1 DEF Sent, Tools
  <2>3. /\ <<m>> \in Talks /\ <<m>> \in Seq(Lines) /\ Of(<<m>>, Tools) = <<>> /\ Cardinality(Done(<<m>>)) = 0
        /\ Once(<<m>>) /\ \A key : GivesNone(<<m>>, key)
    BY <2>1, <2>2, OneLine
  <2>4. \A i \in 1..Len(<<m>>) : <<m>>[i].kind # "context"
    BY <2>1
  <2> QED
    BY <2>3, <2>4 DEF m
<1> HIDE DEF a, q
<1>5. /\ g \in Talks /\ Of(g, Tools) = <<>> /\ Cardinality(Done(g)) = 0
      /\ Single(c \o g) /\ Single(g)
      /\ ~spliced /\ rows # 0 => GivesOnce(c \o g, rows)
  <2>1. Single(c)
    BY CommittedSingle
  <2> HIDE DEF c
  <2> QED
    BY <1>1, <2>1, Gathered DEF Single
<1> HIDE DEF c, g
<1>6. g \in Seq(Lines)
  BY <1>5, TalkParts
<1>7. s \in Talks /\ s \in Seq(Lines)
  BY <1>4, <1>5, TalksBoth, TalkParts
<1>8. Cardinality(Done(s)) = 0
  BY <1>4, <1>5, <1>6, DoneBoth
<1>9. Of(s, Tools) = <<>>
  <2>1. Of(s, Tools) = Of(q, Tools) \o Of(g, Tools)
    BY <1>4, <1>6, ToolsBoth
  <2> QED
    BY <1>4, <1>5, <2>1
<1>10. Single(c \o s)
  <2> SUFFICES ASSUME ~spliced PROVE Once(c \o s)
    BY DEF Single
  <2>10. Once(c \o g) /\ Once(g)
    BY <1>5 DEF Single
  <2>1. \A i \in 1..Len(q), j \in 1..Len(g) : ~ (IsContext(q[i]) /\ IsContext(g[j]) /\ q[i].key = g[j].key)
    BY <1>4 DEF IsContext
  <2>2. Once(s)
    BY <1>4, <1>6, <2>1, <2>10, OnceBoth
  <2> DEFINE Alike(x, y) == IsContext(x) /\ IsContext(y) /\ x.key = y.key
             k == Len(q)
             l == Len(g)
             n == Len(c)
  <2>3. \A i \in 1..n, j \in 1..l : ~Alike(c[i], g[j])
    BY <1>1, <1>6, <2>10, OnceBoth
  <2>4. /\ k \in Nat /\ l \in Nat /\ Len(s) = k + l
        /\ \A j \in 1..k : s[j] = q[j]
        /\ \A j \in 1..l : s[k + j] = g[j]
    BY <1>4, <1>6
  <2>5. \A j \in 1..k : ~IsContext(q[j])
    BY <1>4 DEF IsContext
  <2> HIDE DEF s, k, l, n
  <2>6. \A j \in 1..k + l : j \in 1..k \/ \E b \in 1..l : j = k + b
    BY <2>4, Split
  <2>7. \A i \in 1..n, j \in 1..k + l : ~Alike(c[i], s[j])
    <3>1. \A i \in 1..n, j \in 1..k : ~Alike(c[i], q[j])
      BY <2>5
    <3> HIDE DEF Alike
    <3> SUFFICES ASSUME NEW i \in 1..n, NEW j \in 1..k + l PROVE ~Alike(c[i], s[j])
      OBVIOUS
    <3>2. CASE j \in 1..k
      BY <2>4, <3>1, <3>2
    <3>3. CASE \E b \in 1..l : j = k + b
      <4>1. PICK b \in 1..l : j = k + b
        BY <3>3
      <4> QED
        BY <2>3, <2>4, <4>1
    <3> QED
      BY <2>6, <3>2, <3>3
  <2>8. \A i \in 1..n, j \in 1..Len(s) : ~Alike(c[i], s[j])
    BY <2>4, <2>7
  <2>9. Once(c)
    BY <1>1, <1>6, <2>10, OnceBoth
  <2> QED
    BY <1>1, <1>7, <2>2, <2>8, <2>9, OnceBoth DEF n
<1>11. chat = (c \o g) \o q /\ chat \in Seq(Lines)
  <2>1. Replayed(c) = c
    BY <1>1, SentAgain
  <2>2. c \o g \in Seq(Lines) /\ q \in Seq(Lines)
    BY <1>1, <1>4, <1>6
  <2>3. chat = (c \o g) \o q
    BY <2>1
  <2> HIDE DEF chat
  <2>4. (c \o g) \o q \in Seq(Lines)
    BY <2>2
  <2> QED
    BY <2>3, <2>4
<1>12. Of(chat, Tools) = Of(c \o s, Tools)
  <2>1. c \o g \in Seq(Lines)
    BY <1>1, <1>6
  <2>2. Of(chat, Tools) = Of(c \o g, Tools) \o Of(q, Tools)
    BY <1>4, <1>11, <2>1, ToolsBoth
  <2>3. Of(c \o g, Tools) = Of(c, Tools) \o Of(g, Tools)
    BY <1>1, <1>6, ToolsBoth
  <2>4. Of(c \o s, Tools) = Of(c, Tools) \o Of(s, Tools)
    BY <1>1, <1>7, ToolsBoth
  <2>5. Of(c, Tools) \in Seq(Lines)
    BY <1>1, OfType
  <2>6. \A x \in Seq(Lines) : x \o <<>> = x
    OBVIOUS
  <2> HIDE DEF chat, s
  <2> QED
    BY <1>4, <1>5, <1>9, <2>2, <2>3, <2>4, <2>5, <2>6
<1>13. ~spliced /\ rows # 0 => GivesOnce(chat, rows)
  <2>1. c \o g \in Seq(Lines)
    BY <1>1, <1>6
  <2> HIDE DEF chat
  <2> QED
    BY <1>4, <1>5, <1>11, <2>1, GivesBoth
<1> HIDE DEF chat, s
<1>14. IsTranscript(u) /\ u.staged = s /\ u.answer = NoText
  <2>1. IsTranscript(u) /\ u.staged = pane.t.staged \o s /\ u.answer = pane.t.answer
    BY <1>2, StagedAll DEF IsPane
  <2> HIDE DEF u
  <2>2. <<>> \o s = s
    BY <1>7
  <2> QED
    BY <1>2, <2>1, <2>2
<1> HIDE DEF u
<1>15. IsPane(pane') /\ pane'.t = u /\ pane'.loading = TRUE
  <2>1. IsPane(Shown(pane, u)) /\ Shown(pane, u).t = u
    BY <1>2, <1>14, PaneShows
  <2> QED
    BY <1>3, <2>1, PaneLoads
<1>16. task' \in Tasks
  BY <1>1, <1>3, <1>11 DEF Tasks
<1>17. c' = c
  BY <1>3 DEF c, Committed
<1>18. task'.edits = 0 /\ task'.chat = chat /\ task'.given = rows /\ task'.read = c
  BY <1>3
<1> QED
  <2>1. Committed' = c
    BY <1>17 DEF c
  <2>2. Beginnings'
    BY <1>3, LineStays DEF Line
  <2>3. pane'.t.staged = s /\ pane'.t.answer \in Texts
    BY <1>14, <1>15 DEF Texts
  <2>4. Knows(pane.t.staged)'
    BY <1>3, <1>8, <1>12, <1>13, <1>18, <2>3 DEF Knows
  <2>5. Working'
    BY <1>3, <1>7, <1>10, <1>15, <1>16, <2>1, <2>3, <2>4 DEF Working, Single
  <2> QED
    BY <1>1, <1>3, <2>2, <2>5 DEF RInvariant

\* A batch of calls, with what each of them came to.
LEMMA BatchKeeps ==
    ASSUME RInvariant, NEW o \in Outcomes, Batch(o)
    PROVE  RInvariant'
<1> DEFINE c == Committed
           s == pane.t.staged
           r == Record(o, clock)
           m == Message("nudge", clock)
           e == <<m>>
           u == StageAll(pane.t, r)
           v == Shown(pane, u)
           w == [v EXCEPT !.t.stale = TRUE]
           chat == (task.chat \o r) \o e
<1>1. /\ clock \in Nat /\ rows \in Nat /\ turns \in Seq(Talks) /\ undone \in Seq(Talks)
      /\ c \in Talks /\ c \in Seq(Lines)
  BY CommittedTalks DEF RInvariant
<1>2. Working
  BY AskingWorks DEF Batch
<1>3. /\ IsPane(pane) /\ pane.loading = TRUE /\ task \in Tasks
      /\ s \in Talks /\ s \in Seq(Lines) /\ pane.t.answer \in Texts
      /\ Single(c \o s) /\ Knows(s)
  BY <1>2, TalkParts DEF Working
<1>4. /\ turns' = turns /\ rows' = rows /\ clock' = clock /\ spliced' = spliced
      /\ undone' = undone \/ undone' = <<>>
      /\ pane' = (IF Edited(o) = 0 THEN v ELSE w)
      /\ task' = [task EXCEPT !.round = @ + 1, !.edits = @ + Edited(o), !.chat = chat]
  BY DEF Batch
<1>5. /\ r \in Talks /\ r \in Seq(Lines) /\ Of(r, Tools) = r /\ Once(r) /\ \A key : GivesNone(r, key)
      /\ Cardinality(Done(r)) = Edited(o)
  <2>1. o \in Goings
    BY RoundsAssumption DEF Goings
  <2> QED
    BY <1>1, <2>1, RecordTalks, TalkParts
<1>6. e \in Seq(Lines) /\ Of(e, Tools) = <<>> /\ \A key : GivesNone(e, key)
  <2>1. m \in Lines /\ m.kind = "nudge"
    BY <1>1, LinesMade
  <2> HIDE DEF m
  <2>2. m.kind # "tool_call" /\ m.kind # "context" /\ m.kind \notin Tools
    BY <2>1 DEF Tools
  <2> QED
    BY <2>1, <2>2, OneLine
<1> HIDE DEF c, r, m, e
<1>7. IsPane(pane') /\ pane'.t.staged = s \o r /\ pane'.t.answer = pane.t.answer /\ pane'.loading = TRUE
  <2>1. IsTranscript(u) /\ u.staged = s \o r /\ u.answer = pane.t.answer
    BY <1>3, StagedAll DEF IsPane
  <2> HIDE DEF u
  <2>2. IsPane(v) /\ v.t = u /\ v.loading = TRUE
    BY <1>3, <2>1, PaneShows
  <2> HIDE DEF v
  <2>3. IsPane(w) /\ w.t.staged = u.staged /\ w.t.answer = u.answer /\ w.loading = TRUE
    BY <2>2, PaneStale
  <2> QED
    BY <1>4, <2>1, <2>2, <2>3
<1> HIDE DEF s
<1>8. s \o r \in Talks /\ Cardinality(Done(s)) \in Nat
      /\ Cardinality(Done(s \o r)) = Cardinality(Done(s)) + Edited(o)
  BY <1>3, <1>5, TalksBoth, DoneBoth
<1>9. Single(c \o (s \o r))
  <2> SUFFICES ASSUME ~spliced PROVE Once(c \o (s \o r))
    BY DEF Single
  <2> DEFINE q == c \o s
  <2>1. q \in Seq(Lines) /\ Once(q)
    BY <1>1, <1>3 DEF Single
  <2>2. \A j \in 1..Len(r) : ~IsContext(r[j])
    <3> SUFFICES ASSUME NEW j \in 1..Len(r), IsContext(r[j]) PROVE FALSE
      OBVIOUS
    <3>1. j \in DOMAIN r /\ Gives(r[j], r[j].key)
      BY <1>5 DEF Gives
    <3>2. GivesNone(r, r[j].key)
      BY <1>5
    <3> QED
      BY <3>1, <3>2 DEF GivesNone, GivesAt
  <2>3. c \o (s \o r) = q \o r
    <3>1. (c \o s) \o r = c \o (s \o r)
      BY <1>1, <1>3, <1>5, ConcatAssociative
    <3> QED
      BY <3>1
  <2> HIDE DEF q
  <2>4. \A i \in 1..Len(q), j \in 1..Len(r) : ~ (IsContext(q[i]) /\ IsContext(r[j]) /\ q[i].key = r[j].key)
    BY <2>2
  <2> QED
    BY <1>5, <2>1, <2>3, <2>4, OnceBoth
<1>10. task.chat \in Seq(Lines) /\ task.edits \in Nat /\ task.round \in Nat \ {0} /\ task.given \in Nat
       /\ task.read \in Seq(Lines)
  BY <1>3 DEF Tasks
<1>11. chat \in Seq(Lines) /\ task.chat \o r \in Seq(Lines)
  BY <1>5, <1>6, <1>10
<1>12. Of(chat, Tools) = Of(task.chat, Tools) \o r
  <2>1. Of(chat, Tools) = Of(task.chat \o r, Tools) \o Of(e, Tools)
    BY <1>6, <1>11, ToolsBoth
  <2>2. Of(task.chat \o r, Tools) = Of(task.chat, Tools) \o r
    BY <1>5, <1>10, ToolsBoth
  <2>3. Of(task.chat \o r, Tools) \in Seq(Lines)
    BY <1>11, OfType
  <2>4. \A x \in Seq(Lines) : x \o <<>> = x
    OBVIOUS
  <2> HIDE DEF chat
  <2> QED
    BY <1>6, <2>1, <2>2, <2>3, <2>4
<1>13. ~spliced /\ task.given # 0 => GivesOnce(chat, task.given)
  <2> SUFFICES ASSUME ~spliced, task.given # 0 PROVE GivesOnce(chat, task.given)
    OBVIOUS
  <2> DEFINE k == task.given
  <2>1. GivesOnce(task.chat, k)
    BY <1>3 DEF Knows
  <2>2. GivesNone(r, k) /\ GivesNone(e, k)
    BY <1>5, <1>6
  <2> HIDE DEF k
  <2>3. GivesOnce(task.chat \o r, k)
    BY <1>5, <1>10, <2>1, <2>2, GivesBoth
  <2>4. GivesOnce(chat, k)
    BY <1>6, <1>11, <2>2, <2>3, GivesBoth
  <2> QED
    BY <2>4 DEF k
<1>14. Of(chat, Tools) = Of(task.read \o (s \o r), Tools)
  <2> DEFINE d == task.read
  <2>1. Of(task.chat, Tools) = Of(d \o s, Tools)
    BY <1>3 DEF Knows
  <2>10. d \in Seq(Lines)
    BY <1>10
  <2> HIDE DEF d
  <2>2. Of(task.chat, Tools) = Of(d, Tools) \o Of(s, Tools)
    BY <1>3, <2>1, <2>10, ToolsBoth
  <2>3. s \o r \in Seq(Lines)
    BY <1>3, <1>5
  <2>4. Of(d \o (s \o r), Tools) = Of(d, Tools) \o Of(s \o r, Tools)
    BY <2>3, <2>10, ToolsBoth
  <2>5. Of(s \o r, Tools) = Of(s, Tools) \o r
    BY <1>3, <1>5, ToolsBoth
  <2>6. Of(d, Tools) \in Seq(Lines) /\ Of(s, Tools) \in Seq(Lines)
    BY <1>3, <2>10, OfType
  <2>7. \A x, y, z \in Seq(Lines) : (x \o y) \o z = x \o (y \o z)
    BY ConcatAssociative
  <2>8. (Of(d, Tools) \o Of(s, Tools)) \o r = Of(d, Tools) \o (Of(s, Tools) \o r)
    BY <1>5, <2>6, <2>7
  <2> HIDE DEF chat
  <2>9. Of(chat, Tools) = Of(d \o (s \o r), Tools)
    BY <1>12, <2>2, <2>4, <2>5, <2>8
  <2> QED
    BY <2>9 DEF d
<1> HIDE DEF chat
<1>15. /\ task' \in Tasks /\ task'.edits = task.edits + Edited(o) /\ task'.chat = chat
       /\ task'.given = task.given /\ task'.read = task.read
  <2>1. Edited(o) \in Nat
    BY <1>5, <1>8, NoLine, DoneBoth
  <2>2. task.edits + Edited(o) \in Nat /\ task.round + 1 \in Nat \ {0}
    BY <1>10, <2>1
  <2> HIDE DEF Lines
  <2> QED
    BY <1>3, <1>4, <1>11, <2>2 DEF Tasks
<1>16. Committed' = c
  BY <1>4 DEF c, Committed
<1>17. task'.edits = Cardinality(Done(s \o r))
  <2>1. task.edits = Cardinality(Done(s))
    BY <1>3 DEF Knows
  <2> QED
    BY <1>8, <1>15, <2>1
<1>18. Knows(pane.t.staged)'
  BY <1>4, <1>7, <1>13, <1>14, <1>15, <1>17 DEF Knows
<1>19. Working'
  BY <1>3, <1>4, <1>7, <1>8, <1>9, <1>15, <1>16, <1>18 DEF Working, Single
<1>20. Line' = Line \/ Line' = turns
  <2>1. turns \o <<>> = turns
    BY <1>1
  <2> QED
    BY <1>4, <2>1 DEF Line
<1>21. Beginnings'
  BY <1>4, <1>20, LineStays
<1>22. undone' \in Seq(Talks)
  <2>1. undone' = undone \/ undone' = <<>>
    BY <1>4
  <2>2. undone \in Seq(Talks) /\ <<>> \in Seq(Talks)
    BY <1>1
  <2> QED
    BY <2>1, <2>2
<1>23. turns' \in Seq(Talks) /\ rows' \in Nat /\ clock' \in Nat
  BY <1>1, <1>4
<1> QED
  BY <1>19, <1>21, <1>22, <1>23 DEF RInvariant

\* The view stays, or what it holds of the turn.
LEMMA PaneKeeps ==
    ASSUME RInvariant, turns' = turns, undone' = undone, spliced' = spliced, clock' = clock, task' = task, rows' \in Nat,
           pane = Undrawn => pane' = Undrawn,
           IsPane(pane) => /\ IsPane(pane') /\ pane'.loading = pane.loading
                           /\ pane'.t.staged = pane.t.staged /\ pane'.t.answer = pane.t.answer
    PROVE  RInvariant'
<1>1. Committed' = Committed
  BY DEF Committed
<1>2. ASSUME Working PROVE Working'
  <2>1. Knows(pane.t.staged)'
    BY <1>1, <1>2 DEF Working, Knows
  <2> QED
    BY <1>1, <1>2, <2>1 DEF Working, Single
<1>3. ASSUME Resting PROVE Resting'
  BY <1>1, <1>3 DEF Resting, Undrawn
<1>4. Beginnings'
  BY LineStays DEF Line
<1> QED
  BY <1>2, <1>3, <1>4 DEF RInvariant

\* A view, drawn or not.
LEMMA PaneIs ==
    ASSUME RInvariant
    PROVE  /\ pane = Undrawn \/ IsPane(pane)
           /\ pane = Undrawn => ~pane.live
           /\ IsPane(pane) => pane.live
BY DEF RInvariant, Working, Resting, Undrawn, IsPane

\* The first token of an answer.
LEMMA ChunkKeeps ==
    ASSUME RInvariant, Chunk
    PROVE  RInvariant'
<1> DEFINE u == Stream(pane.t, "assistant", clock)
<1>1. Working
  BY AskingWorks DEF Chunk
<1>2. /\ turns' = turns /\ clock' = clock /\ task' = task /\ rows' = rows /\ pane' = Shown(pane, u)
      /\ pane.t.answer = NoText /\ undone' = undone /\ spliced' = spliced
  BY DEF Chunk, history
<1>3. IsPane(pane) /\ IsTranscript(pane.t) /\ pane.loading = TRUE /\ clock \in Nat
  BY <1>1 DEF Working, IsPane, RInvariant
<1>4. IsTranscript(u) /\ u.staged = pane.t.staged /\ u.answer = clock
  BY <1>2, <1>3, AnswerBegins
<1> HIDE DEF u
<1>5. IsPane(pane') /\ pane'.t = u /\ pane'.loading = TRUE
  BY <1>2, <1>3, <1>4, PaneShows
<1>6. Committed' = Committed
  BY <1>2 DEF Committed
<1>7. Knows(pane.t.staged)'
  BY <1>1, <1>2, <1>4, <1>5, <1>6 DEF Working, Knows
<1>8. Working'
  BY <1>1, <1>2, <1>3, <1>4, <1>5, <1>6, <1>7 DEF Working, Texts, Single
<1>9. Beginnings'
  BY <1>2, LineStays DEF Line
<1> QED
  BY <1>2, <1>8, <1>9 DEF RInvariant

\* What a change of somebody else's does to the view.
LEMMA StalePane ==
    ASSUME RInvariant, pane' = Stale
    PROVE  /\ pane = Undrawn => pane' = Undrawn
           /\ IsPane(pane) => /\ IsPane(pane') /\ pane'.loading = pane.loading
                              /\ pane'.t.staged = pane.t.staged /\ pane'.t.answer = pane.t.answer
<1>1. pane = Undrawn => pane' = Undrawn
  BY PaneIs DEF Stale
<1>2. ASSUME IsPane(pane)
      PROVE  /\ IsPane(pane') /\ pane'.loading = pane.loading
             /\ pane'.t.staged = pane.t.staged /\ pane'.t.answer = pane.t.answer
  <2>1. pane' = [pane EXCEPT !.t.stale = TRUE]
    BY <1>2, PaneIs DEF Stale
  <2> QED
    BY <1>2, <2>1, PaneStale
<1> QED
  BY <1>1, <1>2

\* The wired result holds other rows.
LEMMA RerunKeeps ==
    ASSUME RInvariant, Rerun
    PROVE  RInvariant'
<1>1. /\ turns' = turns /\ undone' = undone /\ spliced' = spliced /\ clock' = clock /\ task' = task
      /\ rows' \in Nat /\ pane' = Stale
  BY WalksAssumption DEF Rerun, history
<1> QED
  BY <1>1, StalePane, PaneKeeps

\* A turn is undone, and goes to the other part of the line.
LEMMA UndoneKeeps ==
    ASSUME RInvariant, UndoTurn
    PROVE  RInvariant'
<1> DEFINE c == Committed
           d == FlattenSeq(Front(turns))
           e == <<Last(turns)>>
<1>1. /\ turns # <<>> /\ turns' = Front(turns) /\ undone' = e \o undone /\ pane' = Stale
      /\ rows' = rows /\ task' = task /\ clock' = clock /\ spliced' = spliced
  BY DEF UndoTurn
<1>2. /\ turns \in Seq(Talks) /\ undone \in Seq(Talks) /\ clock \in Nat /\ rows \in Nat
      /\ c \in Seq(Lines)
  BY CommittedTalks DEF RInvariant
<1>3. turns' \in Seq(Talks) /\ \E s \in Talks : turns = Append(turns', s)
  BY <1>1, <1>2, LastTurn
<1>4. PICK s \in Talks : turns = Append(turns', s)
  BY <1>3
<1>5. Committed' = d
  BY <1>1 DEF Committed
<1>6. d \in Seq(Lines) /\ s \in Seq(Lines) /\ c = d \o s
  <2>1. turns' \in Seq(Seq(Lines)) /\ s \in Seq(Lines)
    BY <1>3, TurnsAreLines, TalkParts
  <2>2. d \in Seq(Lines)
    BY <1>1, <2>1, FlattenType
  <2>3. FlattenSeq(turns) = FlattenSeq(turns') \o s
    BY <1>4, <2>1, TurnAdded
  <2> QED
    BY <1>1, <2>1, <2>2, <2>3 DEF Committed
<1>10. undone' \in Seq(Talks) /\ Line' = Line
  <2>1. Last(turns) = s /\ e \in Seq(Talks) /\ turns = turns' \o e
    <3>1. Last(turns) = s
      BY <1>3, <1>4 DEF Last
    <3>2. e = <<s>> /\ e \in Seq(Talks)
      BY <3>1
    <3>3. Append(turns', s) = turns' \o <<s>>
      BY <1>3, AppendIsConcat
    <3> QED
      BY <1>4, <3>1, <3>2, <3>3
  <2> HIDE DEF e
  <2>2. (turns' \o e) \o undone = turns' \o (e \o undone)
    BY <1>2, <1>3, <2>1, ConcatAssociative
  <2>3. e \o undone \in Seq(Talks)
    BY <1>2, <2>1
  <2>4. Line' = turns' \o (e \o undone)
    BY <1>1 DEF Line
  <2> QED
    BY <1>1, <2>1, <2>2, <2>3, <2>4 DEF Line
<1> HIDE DEF c, d, e
<1>7. ASSUME Working PROVE Working'
  <2>1. pane.t.staged \in Seq(Lines) /\ Single(c \o pane.t.staged) /\ IsPane(pane)
    BY <1>7, TalkParts DEF Working, c
  <2>2. Single(d \o pane.t.staged)
    BY <1>6, <2>1, OnceLess DEF Single
  <2>3. /\ IsPane(pane') /\ pane'.loading = pane.loading
        /\ pane'.t.staged = pane.t.staged /\ pane'.t.answer = pane.t.answer
    BY <1>1, <2>1, StalePane
  <2>4. Knows(pane.t.staged)'
    BY <1>1, <1>7, <2>3 DEF Working, Knows
  <2> QED
    BY <1>1, <1>5, <1>7, <2>2, <2>3, <2>4 DEF Working, Single
<1>8. ASSUME Resting PROVE Resting'
  BY <1>1, <1>8, StalePane DEF Resting, Undrawn
<1>9. Beginnings'
  BY <1>1, <1>10, LineStays
<1> QED
  BY <1>1, <1>2, <1>3, <1>7, <1>8, <1>9, <1>10 DEF RInvariant

\* A turn is brought back, from the other part of the line.
LEMMA RedoneKeeps ==
    ASSUME RInvariant, RedoTurn
    PROVE  RInvariant'
<1> DEFINE e == <<Head(undone)>>
<1>1. /\ undone # <<>> /\ turns' = Append(turns, Head(undone)) /\ undone' = Tail(undone) /\ pane' = Stale
      /\ rows' = rows /\ task' = task /\ clock' = clock /\ spliced' = (spliced \/ Asking)
  BY DEF RedoTurn
<1>2. turns \in Seq(Talks) /\ undone \in Seq(Talks) /\ clock \in Nat /\ rows \in Nat
  BY DEF RInvariant
<1>3. Head(undone) \in Talks /\ Tail(undone) \in Seq(Talks) /\ undone = e \o Tail(undone)
  <2>1. Head(undone) \in Talks /\ Tail(undone) \in Seq(Talks)
    BY <1>1, <1>2, HeadTailProperties
  <2>2. undone = SubSeq(undone, 1, Len(undone)) /\ Tail(undone) = SubSeq(undone, 2, Len(undone))
    BY <1>1, <1>2, SubSeqFull, TailIsSubSeq
  <2>3. Len(undone) \in Nat \ {0} /\ undone[1] = Head(undone)
    BY <1>1, <1>2, EmptySeq
  <2>4. SubSeq(undone, 1, Len(undone)) = <<undone[1]>> \o SubSeq(undone, 2, Len(undone))
    BY <1>2, <2>3, SubSeqRecursiveFirst
  <2> QED
    BY <2>1, <2>2, <2>3, <2>4
<1>4. turns' \in Seq(Talks) /\ undone' \in Seq(Talks) /\ e \in Seq(Talks)
  BY <1>1, <1>2, <1>3
<1>5. Line' = Line
  <2>1. turns' = turns \o e
    BY <1>1, <1>2, <1>3, AppendIsConcat
  <2> HIDE DEF e
  <2>2. (turns \o e) \o Tail(undone) = turns \o (e \o Tail(undone))
    BY <1>2, <1>3, <1>4, ConcatAssociative
  <2> QED
    BY <1>1, <1>3, <2>1, <2>2 DEF Line
<1>6. Beginnings'
  BY <1>1, <1>5, LineStays
<1>7. ASSUME Working PROVE Working'
  <2>1. spliced' /\ IsPane(pane)
    <3>1. Asking
      BY <1>7, PaneIs DEF Working, Asking, Tasks
    <3> QED
      BY <1>1, <1>7, <3>1 DEF Working
  <2>2. /\ IsPane(pane') /\ pane'.loading = pane.loading
        /\ pane'.t.staged = pane.t.staged /\ pane'.t.answer = pane.t.answer
    BY <1>1, <2>1, StalePane
  <2>3. Knows(pane.t.staged)'
    BY <1>1, <1>7, <2>1, <2>2 DEF Working, Knows
  <2> QED
    BY <1>1, <1>7, <2>1, <2>2, <2>3 DEF Working, Single
<1>8. ASSUME Resting PROVE Resting'
  BY <1>1, <1>8, StalePane DEF Resting, Undrawn
<1> QED
  BY <1>1, <1>2, <1>4, <1>6, <1>7, <1>8 DEF RInvariant

\* The view of a node that is not drawn is dropped, and made anew.
LEMMA ViewsKeep ==
    ASSUME RInvariant, DropView \/ MountView
    PROVE  RInvariant'
<1>1. turns' = turns /\ undone' = undone /\ spliced' = spliced /\ rows' = rows /\ clock' = clock
  BY DEF DropView, MountView, history
<1>2. Beginnings'
  BY <1>1, LineStays DEF Line
<1>3. Resting'
  <2>1. CASE DropView
    BY <2>1 DEF DropView, Resting, Undrawn
  <2>2. CASE MountView
    <3>1. pane' = Mounted /\ task' = task
      BY <2>2 DEF MountView
    <3>2. task = NoTask
      BY <2>2, PaneIs DEF MountView, RInvariant, Resting, Working
    <3> QED
      BY <3>1, <3>2, PaneBegins DEF Resting
  <2> QED
    BY <2>1, <2>2
<1> QED
  BY <1>1, <1>2, <1>3 DEF RInvariant

\* The view looks at the document.
LEMMA ReconcileKeeps ==
    ASSUME RInvariant, Reconcile
    PROVE  RInvariant'
<1> DEFINE u == Adopt(pane.t, Committed)
<1>1. IsPane(pane) /\ IsTranscript(pane.t) /\ rows \in Nat
  BY PaneIs DEF Reconcile, IsPane, RInvariant
<1>2. /\ turns' = turns /\ undone' = undone /\ spliced' = spliced /\ rows' = rows
      /\ clock' = clock /\ task' = task
  BY DEF Reconcile, history
<1>3. \E r : pane' = [pane EXCEPT !.t = u, !.r = r]
  <2> DEFINE now == Committed \o pane.t.staged
             r == IF now = pane.t.drawn THEN pane.r ELSE BuildRows(now)
  <2>1. pane' = [pane EXCEPT !.t = u, !.r = r]
    BY <1>1 DEF Reconcile, IsPane, Places
  <2> QED
    BY <2>1, Zenon
<1>4. IsTranscript(u) /\ u.staged = pane.t.staged /\ u.answer = pane.t.answer
  BY <1>1, TranscriptAdopts
<1> HIDE DEF u
<1>5. IsPane(pane') /\ pane'.t = u /\ pane'.loading = pane.loading
  <2>1. PICK r : pane' = [pane EXCEPT !.t = u, !.r = r]
    BY <1>3
  <2> QED
    <3>1. \A y : LET w == [pane EXCEPT !.t = u, !.r = y]
                 IN  IsPane(w) /\ w.t = u /\ w.loading = pane.loading
      BY <1>1, <1>4, PaneTakes
    <3> QED
      BY <2>1, <3>1, Zenon
<1>6. pane # Undrawn
  BY <1>1, PaneIs
<1> QED
  BY <1>1, <1>2, <1>4, <1>5, <1>6, PaneKeeps

\* Before anything is asked.
LEMMA RoundsBegin ==
    ASSUME RoundsInit
    PROVE  RInvariant
<1>1. Resting
  BY PaneBegins DEF RoundsInit, Resting
<1>2. turns = <<>> /\ undone = <<>> /\ rows = 0 /\ clock = 0
  BY DEF RoundsInit
<1>3. Beginnings
  <2>1. Line = <<>>
    BY <1>2 DEF Line
  <2>2. ASSUME NEW k \in 0..Len(Line) PROVE Once(FlattenSeq(SubSeq(Line, 1, k)))
    <3>1. k = 0 /\ SubSeq(<<>>, 1, 0) = <<>>
      BY <2>1, <2>2
    <3>2. FlattenSeq(<<>>) = <<>>
      BY DEF FlattenSeq
    <3> QED
      BY <2>1, <3>1, <3>2, NoLine
  <2> QED
    BY <2>2 DEF Beginnings, Single
<1> QED
  BY <1>1, <1>2, <1>3 DEF RInvariant

\* Every step keeps the invariant.
LEMMA RoundsKeep ==
    ASSUME RInvariant, [RoundsNext]_roundsVars
    PROVE  RInvariant'
<1>1. CASE UNCHANGED roundsVars
  <2>1. turns' = turns /\ undone' = undone /\ spliced' = spliced /\ clock' = clock /\ task' = task /\ rows' = rows /\ pane' = pane /\ rows \in Nat
    BY <1>1 DEF roundsVars, RInvariant
  <2> QED
    BY <2>1, PaneKeeps
<1>2. CASE Turn
  <2>1. ASSUME NEW o \in Outcomes, Batch(o) PROVE RInvariant'
    BY <2>1, BatchKeeps
  <2> QED
    BY <1>2, <2>1, EndsKeep DEF Turn
<1>3. CASE RoundsNext /\ ~Turn
  BY <1>3, AskKeeps, ChunkKeeps, RerunKeeps, UndoneKeeps, RedoneKeeps, ViewsKeep, ReconcileKeeps DEF RoundsNext
<1> QED
  BY <1>1, <1>2, <1>3

\* What the turns of the local model hold, whatever is run, undone and drawn meanwhile.
THEOREM RoundsInvariant == RoundsSpec => []RInvariant
<1>1. RoundsInit => RInvariant
  BY RoundsBegin
<1>2. RInvariant /\ [RoundsNext]_roundsVars => RInvariant'
  BY RoundsKeep
<1> QED
  BY <1>1, <1>2, PTL DEF RoundsSpec

\* What a node holds of its conversation, of it with what its turn has staged.
LEMMA KeptIs ==
    ASSUME RInvariant
    PROVE  /\ Asking => Kept = Committed \o pane.t.staged
           /\ Kept \in Talks
<1>1. Committed \in Talks /\ Committed \in Seq(Lines)
  BY CommittedTalks
<1>2. Committed \o <<>> = Committed
  BY <1>1
<1>3. ASSUME IsPane(pane) PROVE Kept = Committed \o pane.t.staged
  BY <1>3, PaneIs DEF Kept
<1>4. CASE Working
  BY <1>1, <1>3, <1>4, TalksBoth DEF Working
<1>5. CASE Resting
  <2>1. ~Asking
    BY <1>5 DEF Resting, NoTask, Asking
  <2>2. Kept = Committed
    <3>1. CASE pane = Undrawn
      BY <1>2, <3>1, PaneIs DEF Kept
    <3>2. CASE IsPane(pane) /\ pane.t.staged = <<>>
      BY <1>2, <1>3, <3>2
    <3> QED
      BY <1>5, <3>1, <3>2 DEF Resting
  <2> QED
    BY <1>1, <2>1, <2>2
<1> QED
  BY <1>4, <1>5 DEF RInvariant

\* Every call is answered before anything else is said, also where some calls of a
\* batch failed, and the results without error are the edits (ollama.rs record).
THEOREM Answering == RoundsSpec => []CallsAnswered
<1>1. RInvariant => CallsAnswered
  <2> SUFFICES ASSUME RInvariant PROVE CallsAnswered
    OBVIOUS
  <2>1. Accepted(Kept)
    BY KeptIs, TalkParts
  <2>2. Asking => task.edits = Cardinality(Done(pane.t.staged))
    BY AskingWorks DEF Working, Knows
  <2> QED
    BY <2>1, <2>2 DEF CallsAnswered
<1> QED
  BY <1>1, RoundsInvariant, PTL

\* The calls and results the model works with are those of the transcript its turn began
\* with and those the turn adds, also when turns are undone and brought back meanwhile
\* (ollama.rs ask and record, model.rs undo and redo).
THEOREM Replaying == RoundsSpec => []ModelKnowsTranscript
<1>1. RInvariant => ModelKnowsTranscript
  BY AskingWorks DEF ModelKnowsTranscript, Working, Knows
<1> QED
  BY <1>1, RoundsInvariant, PTL

\* The rows the result had at the question are before the model, once, also when they
\* were shown, undone, brought back and shown again, if that was never while a turn ran
\* (context.rs gather and unseen).
THEOREM Context == RoundsSpec => []ContextIsGiven
<1>1. RInvariant => ContextIsGiven
  BY AskingWorks DEF ContextIsGiven, ContextOnce, Working, Knows, GivesOnce, GivesAt
<1> QED
  BY <1>1, RoundsInvariant, PTL
====
