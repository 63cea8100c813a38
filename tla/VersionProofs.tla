---------------------------- MODULE VersionProofs ----------------------------
(***************************************************************************)
(* VersionLog keeps every version it shows to the nodes it was taken of,   *)
(* and VersionPanel what it selects, previews and reads in step with the   *)
(* log, for every set of windows, pages, nodes and bodies and for every    *)
(* bound on the versions kept.                                             *)
(*                                                                         *)
(* A page is rebuilt from its last full version by applying deltas, and a  *)
(* history is read from its file line by line, by recursive functions:     *)
(* what they keep is shown by induction on the number of steps.  First     *)
(* the lists of nodes and the deltas between them; then the entries a      *)
(* capture makes and a compaction keeps; then the file and what a reader   *)
(* of it adopts; then the invariant of the log, one step after the other;  *)
(* then the panel that follows it.                                         *)
(***************************************************************************)
EXTENDS VersionPanel, Integers, FiniteSetTheorems, WellFoundedInduction, SequenceTheorems, TLAPS

\* Natural numbers are well ordered.
LEMMA Least ==
    ASSUME NEW T, T \subseteq Nat, T # {}
    PROVE  \E x \in T : \A y \in T : x <= y
<1> DEFINE R == OpToRel(<, Nat)
<1>1. IsWellFoundedOn(R, Nat)
  BY NatLessThanWellFounded, Zenon
<1>2. \A x, y \in Nat : y < x => <<y, x>> \in R
  BY DEF OpToRel
<1> HIDE DEF R
<1>3. PICK x \in T : \A y \in T : ~ (<<y, x>> \in R)
  BY <1>1, WFMin
<1>4. \A y \in T : ~ (y < x)
  BY <1>2, <1>3
<1>5. \A y \in T : x <= y
  BY <1>4
<1> QED
  BY <1>5

\* What holds of zero, and of the next number with each, holds of all.
LEMMA SetInduction ==
    ASSUME NEW S, 0 \in S, \A n \in Nat : n \in S => n + 1 \in S
    PROVE  Nat \subseteq S
<1> SUFFICES ASSUME Nat \ S # {} PROVE FALSE
  OBVIOUS
<1>1. PICK x \in Nat \ S : \A y \in Nat \ S : x <= y
  BY Least
<1>2. x # 0 /\ x - 1 \in Nat /\ x - 1 \in S
  BY <1>1
<1> QED
  BY <1>2

\* A value per step: the first is given, and each makes the next.
IsRun(f, n, b, F) == f = [i \in 0..n |-> IF i = 0 THEN b ELSE F[i][f[i - 1]]]

\* There is such a run, and its values stay where its steps do.
LEMMA RunExists ==
    ASSUME NEW S, NEW b \in S, NEW F \in [Nat -> [S -> S]], NEW n \in Nat
    PROVE  \E f \in [0..n -> S] : IsRun(f, n, b, F)
<1> DEFINE A == {m \in Nat : \E f \in [0..m -> S] : IsRun(f, m, b, F)}
<1>1. 0 \in A
  <2> DEFINE f == [i \in 0..0 |-> b]
  <2>1. f \in [0..0 -> S] /\ IsRun(f, 0, b, F)
    BY DEF IsRun
  <2> QED
    BY <2>1
<1>2. ASSUME NEW m \in Nat, m \in A
      PROVE  m + 1 \in A
  <2>1. PICK f \in [0..m -> S] : IsRun(f, m, b, F)
    BY <1>2
  <2> DEFINE g == [i \in 0..m + 1 |-> IF i = m + 1 THEN F[m + 1][f[m]] ELSE f[i]]
  <2>2. f[m] \in S /\ F[m + 1][f[m]] \in S /\ \A i \in 0..m + 1 : i = m + 1 \/ i \in 0..m
    OBVIOUS
  <2>3. g \in [0..m + 1 -> S]
    BY <2>2
  <2>4. \A i \in 0..m : f[i] = IF i = 0 THEN b ELSE F[i][f[i - 1]]
    BY <2>1 DEF IsRun
  <2>5. \A i \in 0..m + 1 : g[i] = IF i = 0 THEN b ELSE F[i][g[i - 1]]
    <3> SUFFICES ASSUME NEW i \in 0..m + 1
                 PROVE  g[i] = IF i = 0 THEN b ELSE F[i][g[i - 1]]
      OBVIOUS
    <3>1. CASE i = 0
      <4>1. 0 \in 0..m /\ g[0] = f[0] /\ f[0] = b
        BY <2>4
      <4> QED
        BY <3>1, <4>1
    <3>2. CASE i = m + 1
      <4>1. m \in 0..m + 1 /\ m # m + 1 /\ i - 1 = m /\ i # 0
        BY <3>2
      <4>2. g[i - 1] = f[m] /\ g[i] = F[m + 1][f[m]]
        BY <3>2, <4>1
      <4> QED
        BY <3>2, <4>1, <4>2
    <3>3. CASE i # 0 /\ i # m + 1
      <4>1. i \in 0..m /\ i - 1 \in 0..m + 1 /\ i - 1 # m + 1
        BY <3>3
      <4>2. g[i] = f[i] /\ g[i - 1] = f[i - 1]
        BY <3>3, <4>1
      <4> QED
        BY <2>4, <3>3, <4>1, <4>2
    <3> QED
      BY <3>1, <3>2, <3>3
  <2> HIDE DEF g
  <2>6. IsRun(g, m + 1, b, F)
    <3>1. g = [i \in 0..m + 1 |-> g[i]]
      BY <2>3
    <3> QED
      BY <2>5, <3>1 DEF IsRun
  <2> QED
    BY <2>3, <2>6
<1> HIDE DEF A
<1>3. Nat \subseteq A
  BY <1>1, <1>2, SetInduction
<1> QED
  BY <1>3 DEF A

\* Values that stay where they are from one step to the next stay there.
LEMMA RunStays ==
    ASSUME NEW S, NEW n \in Nat, NEW f, f[0] \in S, \A i \in 1..n : f[i - 1] \in S => f[i] \in S
    PROVE  \A i \in 0..n : f[i] \in S
<1> DEFINE A == {m \in Nat : m <= n => f[m] \in S}
<1>1. 0 \in A
  OBVIOUS
<1>2. ASSUME NEW m \in Nat, m \in A
      PROVE  m + 1 \in A
  <2> SUFFICES ASSUME m + 1 <= n PROVE f[m + 1] \in S
    OBVIOUS
  <2>1. m <= n /\ m + 1 \in 1..n /\ (m + 1) - 1 = m
    OBVIOUS
  <2>2. f[m] \in S
    BY <1>2, <2>1
  <2> QED
    BY <2>1, <2>2
<1> HIDE DEF A
<1>3. Nat \subseteq A
  BY <1>1, <1>2, SetInduction
<1> QED
  BY <1>3 DEF A

-----------------------------------------------------------------------------
(* What is kept.  *)

\* The nodes of a page: no id twice.  (Pages bounds their number for TLC, which
\* the ids do as well.)
Snapshots == {s \in Seq(Nodes) : \A i, j \in DOMAIN s : s[i].id = s[j].id => i = j}
Changes == [puts : Snapshots, del : SUBSET Ids]
Es == [id : Nat, parent : Nat, full : BOOLEAN, delta : Changes, shows : Snapshots]

-----------------------------------------------------------------------------
(* Sequences.  *)

\* What a sequence and another one hold.
LEMMA AppendSet ==
    ASSUME NEW C, NEW s \in Seq(C), NEW x \in C
    PROVE  Append(s, x) \in Seq(C) /\ ToSet(Append(s, x)) = ToSet(s) \cup {x}
<1>1. /\ Append(s, x) \in Seq(C) /\ Len(Append(s, x)) = Len(s) + 1 /\ Len(s) \in Nat
      /\ DOMAIN s = 1..Len(s) /\ DOMAIN Append(s, x) = 1..Len(s) + 1
      /\ Append(s, x)[Len(s) + 1] = x
      /\ \A i \in 1..Len(s) : Append(s, x)[i] = s[i]
  OBVIOUS
<1> DEFINE t == Append(s, x)
<1> HIDE DEF t
<1>2. ASSUME NEW y \in ToSet(t) PROVE y \in ToSet(s) \cup {x}
  <2>1. PICK i \in 1..Len(s) + 1 : y = t[i]
    BY <1>1, <1>2 DEF ToSet, t
  <2>2. i = Len(s) + 1 \/ i \in 1..Len(s)
    BY <1>1, <2>1
  <2> QED
    BY <1>1, <2>1, <2>2 DEF ToSet, t
<1>3. ASSUME NEW y \in ToSet(s) \cup {x} PROVE y \in ToSet(t)
  <2>1. CASE y = x
    BY <1>1, <2>1 DEF ToSet, t
  <2>2. CASE y \in ToSet(s)
    <3>1. PICK i \in 1..Len(s) : y = s[i]
      BY <1>1, <2>2 DEF ToSet
    <3>2. i \in 1..Len(s) + 1 /\ t[i] = y
      BY <1>1, <3>1 DEF t
    <3> QED
      BY <1>1, <3>2 DEF ToSet, t
  <2> QED
    BY <1>3, <2>1, <2>2
<1>4. ToSet(t) = ToSet(s) \cup {x}
  BY <1>2, <1>3
<1> QED
  BY <1>1, <1>4 DEF t

\* What two sequences one after the other hold.
LEMMA ConcatSet ==
    ASSUME NEW C, NEW s \in Seq(C), NEW r \in Seq(C)
    PROVE  s \o r \in Seq(C) /\ ToSet(s \o r) = ToSet(s) \cup ToSet(r)
<1>1. /\ s \o r \in Seq(C) /\ Len(s \o r) = Len(s) + Len(r) /\ Len(s) \in Nat /\ Len(r) \in Nat
      /\ DOMAIN s = 1..Len(s) /\ DOMAIN r = 1..Len(r) /\ DOMAIN (s \o r) = 1..Len(s) + Len(r)
      /\ \A i \in 1..Len(s) : (s \o r)[i] = s[i]
      /\ \A i \in 1..Len(r) : (s \o r)[Len(s) + i] = r[i]
  OBVIOUS
<1> DEFINE t == s \o r
<1> HIDE DEF t
<1>2. ASSUME NEW y \in ToSet(t) PROVE y \in ToSet(s) \cup ToSet(r)
  <2>1. PICK i \in 1..Len(s) + Len(r) : y = t[i]
    BY <1>1, <1>2 DEF ToSet, t
  <2>2. CASE i \in 1..Len(s)
    BY <1>1, <2>1, <2>2 DEF ToSet, t
  <2>3. CASE i \notin 1..Len(s)
    <3>1. i - Len(s) \in 1..Len(r) /\ Len(s) + (i - Len(s)) = i
      BY <1>1, <2>1, <2>3
    <3>2. y = r[i - Len(s)]
      BY <1>1, <2>1, <3>1 DEF t
    <3> QED
      BY <1>1, <3>1, <3>2 DEF ToSet
  <2> QED
    BY <2>2, <2>3
<1>3. ASSUME NEW y \in ToSet(s) PROVE y \in ToSet(t)
  <2>1. PICK i \in 1..Len(s) : y = s[i]
    BY <1>1, <1>3 DEF ToSet
  <2>2. i \in 1..Len(s) + Len(r) /\ t[i] = y
    BY <1>1, <2>1 DEF t
  <2> QED
    BY <1>1, <2>2 DEF ToSet, t
<1>4. ASSUME NEW y \in ToSet(r) PROVE y \in ToSet(t)
  <2>1. PICK i \in 1..Len(r) : y = r[i]
    BY <1>1, <1>4 DEF ToSet
  <2>2. Len(s) + i \in 1..Len(s) + Len(r) /\ t[Len(s) + i] = y
    BY <1>1, <2>1 DEF t
  <2> QED
    BY <1>1, <2>2 DEF ToSet, t
<1>5. ToSet(t) = ToSet(s) \cup ToSet(r)
  BY <1>2, <1>3, <1>4
<1> QED
  BY <1>1, <1>5 DEF t

\* A node of another id at the end of a page makes a page.
LEMMA AppendPage ==
    ASSUME NEW s \in Snapshots, NEW x \in Nodes, \A y \in ToSet(s) : y.id # x.id
    PROVE  Append(s, x) \in Snapshots
<1>1. s \in Seq(Nodes) /\ \A i, j \in DOMAIN s : s[i].id = s[j].id => i = j
  BY DEF Snapshots
<1>2. /\ Append(s, x) \in Seq(Nodes) /\ Len(s) \in Nat
      /\ DOMAIN s = 1..Len(s) /\ DOMAIN Append(s, x) = 1..Len(s) + 1
      /\ Append(s, x)[Len(s) + 1] = x
      /\ \A i \in 1..Len(s) : Append(s, x)[i] = s[i]
  BY <1>1
<1> DEFINE t == Append(s, x)
<1> HIDE DEF t
<1>3. \A i \in 1..Len(s) : s[i].id # x.id
  BY <1>2 DEF ToSet
<1>4. ASSUME NEW i \in DOMAIN t, NEW j \in DOMAIN t, t[i].id = t[j].id
      PROVE  i = j
  <2>1. (i = Len(s) + 1 \/ i \in 1..Len(s)) /\ (j = Len(s) + 1 \/ j \in 1..Len(s))
    BY <1>2 DEF t
  <2> QED
    BY <1>1, <1>2, <1>3, <1>4, <2>1 DEF t
<1> QED
  BY <1>2, <1>4 DEF Snapshots, t

\* So do two pages that share no id.
LEMMA ConcatPage ==
    ASSUME NEW s \in Snapshots, NEW r \in Snapshots, \A y \in ToSet(s), z \in ToSet(r) : y.id # z.id
    PROVE  s \o r \in Snapshots
<1>1. /\ s \in Seq(Nodes) /\ \A i, j \in DOMAIN s : s[i].id = s[j].id => i = j
      /\ r \in Seq(Nodes) /\ \A i, j \in DOMAIN r : r[i].id = r[j].id => i = j
  BY DEF Snapshots
<1>2. /\ s \o r \in Seq(Nodes) /\ Len(s) \in Nat /\ Len(r) \in Nat
      /\ DOMAIN s = 1..Len(s) /\ DOMAIN r = 1..Len(r) /\ DOMAIN (s \o r) = 1..Len(s) + Len(r)
      /\ \A i \in 1..Len(s) : (s \o r)[i] = s[i]
      /\ \A i \in 1..Len(r) : (s \o r)[Len(s) + i] = r[i]
  BY <1>1
<1> DEFINE t == s \o r
<1> HIDE DEF t
<1>3. \A i \in 1..Len(s) : \A j \in 1..Len(r) : s[i].id # r[j].id
  BY <1>2 DEF ToSet
<1>4. \A i \in DOMAIN t : \/ i \in 1..Len(s) /\ t[i] = s[i]
                          \/ i - Len(s) \in 1..Len(r) /\ t[i] = r[i - Len(s)]
  <2> SUFFICES ASSUME NEW i \in 1..Len(s) + Len(r), i \notin 1..Len(s)
               PROVE  i - Len(s) \in 1..Len(r) /\ t[i] = r[i - Len(s)]
    BY <1>2 DEF t
  <2>1. i - Len(s) \in 1..Len(r) /\ Len(s) + (i - Len(s)) = i
    BY <1>2
  <2> QED
    BY <1>2, <2>1 DEF t
<1>5. ASSUME NEW i \in DOMAIN t, NEW j \in DOMAIN t, t[i].id = t[j].id
      PROVE  i = j
  <2>1. i \in Int /\ j \in Int
    BY <1>2 DEF t
  <2>2. CASE i \in 1..Len(s)
    BY <1>1, <1>2, <1>3, <1>4, <1>5, <2>1, <2>2 DEF t
  <2>3. CASE i \notin 1..Len(s)
    <3>1. i - Len(s) \in 1..Len(r) /\ t[i] = r[i - Len(s)]
      BY <1>4, <2>3
    <3>2. j \notin 1..Len(s)
      BY <1>2, <1>3, <1>5, <3>1 DEF t
    <3>3. j - Len(s) \in 1..Len(r) /\ t[j] = r[j - Len(s)]
      BY <1>4, <3>2
    <3>4. i - Len(s) = j - Len(s)
      BY <1>1, <1>2, <1>5, <3>1, <3>3
    <3> QED
      BY <1>2, <2>1, <3>4
  <2> QED
    BY <2>2, <2>3
<1> QED
  BY <1>2, <1>5 DEF Snapshots, t

\* Those up to each node of a page.
AreThose(f, s, T) ==
  /\ f[0] = <<>> /\ Those(s, T) = f[Len(s)]
  /\ \A i \in 1..Len(s) : /\ s[i] \in T => f[i] = Append(f[i - 1], s[i])
                          /\ s[i] \notin T => f[i] = f[i - 1]

\* There are such.
LEMMA ThoseRun ==
    ASSUME NEW C, NEW s \in Seq(C), NEW T
    PROVE  \E f \in [0..Len(s) -> Seq(C)] : AreThose(f, s, T)
<1> DEFINE L == Seq(C)
           n == Len(s)
           Next1(x, i) == IF s[i] \in T THEN Append(x, s[i]) ELSE x
           Is(f) == f = [i \in 0..n |-> IF i = 0 THEN <<>> ELSE Next1(f[i - 1], i)]
           F == [i \in Nat |-> [x \in L |-> IF i \in 1..n THEN Next1(x, i) ELSE x]]
<1>1. n \in Nat /\ <<>> \in L /\ \A i \in 1..n : s[i] \in C
  OBVIOUS
<1>2. \A x \in L : \A i \in 1..n : Next1(x, i) \in L
  BY <1>1
<1> HIDE DEF L, Next1
<1>3. F \in [Nat -> [L -> L]]
  BY <1>2 DEF AreThose
<1> HIDE DEF n
<1>4. \E f \in [0..n -> L] : Is(f)
  <2> HIDE DEF F
  <2>1. PICK f \in [0..n -> L] : IsRun(f, n, <<>>, F)
    BY <1>1, <1>3, RunExists
  <2>2. \A i \in 0..n : i # 0 => F[i][f[i - 1]] = Next1(f[i - 1], i)
    <3> SUFFICES ASSUME NEW i \in 0..n, i # 0
                 PROVE  F[i][f[i - 1]] = Next1(f[i - 1], i)
      OBVIOUS
    <3>1. i \in Nat /\ i \in 1..n /\ i - 1 \in 0..n
      BY <1>1
    <3>2. f[i - 1] \in L
      BY <3>1
    <3> QED
      BY <3>1, <3>2 DEF F
  <2>3. f = [i \in 0..n |-> IF i = 0 THEN <<>> ELSE Next1(f[i - 1], i)]
    BY <2>1, <2>2 DEF IsRun
  <2> QED
    BY <2>3
<1> DEFINE f == CHOOSE f : Is(f)
<1>5. Is(f)
  BY <1>4
<1>6. Those(s, T) = f[n]
  BY DEF Those, n, Next1
<1> HIDE DEF f
<1>7. f[0] = <<>> /\ \A i \in 1..n : f[i] = Next1(f[i - 1], i)
  BY <1>1, <1>5
<1>8. f[0] \in L /\ \A i \in 1..n : f[i - 1] \in L => f[i] \in L
  BY <1>1, <1>2, <1>7
<1>9. \A i \in 0..n : f[i] \in L
  BY <1>1, <1>8, RunStays
<1>10. f = [i \in 0..n |-> f[i]]
  BY <1>5
<1>11. f \in [0..n -> L]
  BY <1>9, <1>10
<1>12. \A i \in 1..n : /\ s[i] \in T => f[i] = Append(f[i - 1], s[i])
                       /\ s[i] \notin T => f[i] = f[i - 1]
  BY <1>7 DEF Next1
<1> QED
  BY <1>6, <1>7, <1>11, <1>12 DEF L, n, AreThose

\* They are the nodes of both, in their order.
LEMMA ThoseLemma ==
    ASSUME NEW s \in Snapshots, NEW T
    PROVE  Those(s, T) \in Snapshots /\ ToSet(Those(s, T)) = ToSet(s) \cap T
<1>1. s \in Seq(Nodes) /\ Len(s) \in Nat /\ DOMAIN s = 1..Len(s) /\ \A i, j \in DOMAIN s : s[i].id = s[j].id => i = j
  BY DEF Snapshots
<1>2. PICK f \in [0..Len(s) -> Seq(Nodes)] : AreThose(f, s, T)
  BY <1>1, ThoseRun
<1> DEFINE n == Len(s)
           Upto(m) == {s[k] : k \in 1..m} \cap T
           A == {m \in Nat : m <= n => f[m] \in Snapshots /\ ToSet(f[m]) = Upto(m)}
<1>9. n \in Nat /\ DOMAIN s = 1..n /\ ToSet(s) = {s[k] : k \in 1..n}
  BY <1>1 DEF ToSet
<1>10. /\ f[0] = <<>> /\ Those(s, T) = f[n]
       /\ \A i \in 1..n : /\ s[i] \in T => f[i] = Append(f[i - 1], s[i])
                          /\ s[i] \notin T => f[i] = f[i - 1]
  BY <1>2 DEF AreThose
<1> HIDE DEF n
<1>3. 0 \in A
  <2>1. <<>> \in Snapshots /\ ToSet(<<>>) = {}
    BY DEF Snapshots, ToSet
  <2>2. Upto(0) = {}
    OBVIOUS
  <2> QED
    BY <1>10, <2>1, <2>2
<1>4. ASSUME NEW m \in Nat, m \in A
      PROVE  m + 1 \in A
  <2> SUFFICES ASSUME m + 1 <= n PROVE f[m + 1] \in Snapshots /\ ToSet(f[m + 1]) = Upto(m + 1)
    OBVIOUS
  <2>1. f[m] \in Snapshots /\ ToSet(f[m]) = Upto(m) /\ m + 1 \in 1..n /\ s[m + 1] \in Nodes
    BY <1>1, <1>9, <1>4
  <2>2. \A k \in 1..m + 1 : k = m + 1 \/ k \in 1..m
    OBVIOUS
  <2>3. CASE s[m + 1] \in T
    <3>1. f[m + 1] = Append(f[m], s[m + 1])
      <4>1. (m + 1) - 1 = m
        OBVIOUS
      <4> QED
        BY <1>10, <2>1, <2>3, <4>1
    <3>2. \A y \in ToSet(f[m]) : y.id # s[m + 1].id
      <4> SUFFICES ASSUME NEW y \in Upto(m) PROVE y.id # s[m + 1].id
        BY <2>1
      <4>1. PICK k \in 1..m : y = s[k]
        OBVIOUS
      <4>2. k \in 1..n /\ k # m + 1
        BY <1>9, <2>1
      <4> QED
        BY <1>1, <1>9, <2>1, <4>1, <4>2
    <3>3. Upto(m + 1) = Upto(m) \cup {s[m + 1]}
      BY <2>2, <2>3
    <3>4. f[m] \in Seq(Nodes)
      BY <2>1 DEF Snapshots
    <3> QED
      BY <2>1, <3>1, <3>2, <3>3, <3>4, AppendPage, AppendSet
  <2>4. CASE s[m + 1] \notin T
    <3>1. f[m + 1] = f[m]
      <4>1. (m + 1) - 1 = m
        OBVIOUS
      <4> QED
        BY <1>10, <2>1, <2>4, <4>1
    <3>2. Upto(m + 1) = Upto(m)
      BY <2>2, <2>4
    <3> QED
      BY <2>1, <3>1, <3>2
  <2> QED
    BY <2>3, <2>4
<1> HIDE DEF A
<1>5. Nat \subseteq A
  BY <1>3, <1>4, SetInduction
<1>6. f[n] \in Snapshots /\ ToSet(f[n]) = Upto(n)
  <2>1. n \in A
    BY <1>1, <1>9, <1>5
  <2> QED
    BY <1>1, <1>9, <2>1 DEF A
<1> QED
  BY <1>10, <1>6, <1>9

-----------------------------------------------------------------------------
(* Deltas.  *)

\* A page holds nodes, and one of each id.
LEMMA OneOfEach ==
    ASSUME NEW s \in Snapshots
    PROVE  /\ ToSet(s) \subseteq Nodes /\ IdsOf(s) \subseteq Ids
           /\ \A x, y \in ToSet(s) : x.id = y.id => x = y
<1>1. s \in Seq(Nodes) /\ DOMAIN s = 1..Len(s) /\ \A i, j \in DOMAIN s : s[i].id = s[j].id => i = j
  BY DEF Snapshots
<1>2. ToSet(s) \subseteq Nodes
  BY <1>1 DEF ToSet
<1>3. \A n \in Nodes : n.id \in Ids
  BY DEF Nodes
<1> QED
  BY <1>1, <1>2, <1>3 DEF ToSet, IdsOf

\* A put takes the place of the node of its id, or the end; a node that is neither
\* deleted nor replaced stays.
LEMMA ApplyLemma ==
    ASSUME NEW nodes \in Snapshots, NEW d \in Changes
    PROVE  /\ Apply(nodes, d) \in Snapshots
           /\ ToSet(Apply(nodes, d)) =
                ToSet(d.puts) \cup {n \in ToSet(nodes) : n.id \notin d.del /\ \A p \in ToSet(d.puts) : p.id # n.id}
<1> DEFINE K == {n \in ToSet(nodes) : n.id \notin d.del}
           P == ToSet(d.puts)
           kept == Those(nodes, K)
           R == {p \in P : p.id \notin IdsOf(kept)}
           rest == Those(d.puts, R)
           Put(n) == {p \in P : p.id = n.id}
           Now(n) == IF Put(n) = {} THEN n ELSE CHOOSE p \in Put(n) : TRUE
           first == [i \in DOMAIN kept |-> Now(kept[i])]
<1>1. d.puts \in Snapshots /\ d.del \subseteq Ids
  BY DEF Changes
<1>2. Apply(nodes, d) = first \o rest
  BY DEF Apply
<1>3. kept \in Snapshots /\ ToSet(kept) = K
  <2> HIDE DEF K
  <2>1. kept \in Snapshots /\ ToSet(kept) = ToSet(nodes) \cap K
    BY ThoseLemma
  <2> QED
    BY <2>1 DEF K
<1>4. rest \in Snapshots /\ ToSet(rest) = R
  <2> HIDE DEF R
  <2>1. rest \in Snapshots /\ ToSet(rest) = ToSet(d.puts) \cap R
    BY <1>1, ThoseLemma
  <2> QED
    BY <2>1 DEF R
<1>5. P \subseteq Nodes /\ \A x, y \in P : x.id = y.id => x = y
  BY <1>1, OneOfEach
<1>6. K \subseteq Nodes
  BY OneOfEach
<1>7. \A n \in K : /\ Now(n) \in Nodes /\ Now(n).id = n.id
                   /\ \A p \in P : p.id = n.id => Now(n) = p
                   /\ (\A p \in P : p.id # n.id) => Now(n) = n
                   /\ Now(n) = n \/ Now(n) \in P
  <2> SUFFICES ASSUME NEW n \in K
               PROVE  /\ Now(n) \in Nodes /\ Now(n).id = n.id
                      /\ \A p \in P : p.id = n.id => Now(n) = p
                      /\ (\A p \in P : p.id # n.id) => Now(n) = n
                      /\ Now(n) = n \/ Now(n) \in P
    OBVIOUS
  <2> HIDE DEF K, P
  <2>1. CASE Put(n) = {}
    BY <1>6, <2>1
  <2>2. CASE Put(n) # {}
    <3>1. Now(n) \in Put(n)
      BY <2>2
    <3> HIDE DEF Now
    <3> QED
      BY <1>5, <3>1
  <2> QED
    BY <2>1, <2>2
<1> HIDE DEF Now
<1>8. IdsOf(kept) = {n.id : n \in K}
  BY <1>3 DEF IdsOf
<1>9. kept \in Seq(Nodes) /\ \A i \in DOMAIN kept : kept[i] \in K
  BY <1>3 DEF Snapshots, ToSet
<1>10. first \in Snapshots
  <2> HIDE DEF K, kept
  <2>1. DOMAIN kept = 1..Len(kept) /\ Len(kept) \in Nat
    BY <1>9
  <2>2. first \in Seq(Nodes) /\ DOMAIN first = DOMAIN kept
    BY <1>7, <1>9, <2>1
  <2>3. \A i \in DOMAIN kept : first[i].id = kept[i].id
    BY <1>7, <1>9
  <2> HIDE DEF first
  <2> QED
    BY <1>3, <2>2, <2>3 DEF Snapshots
<1>11. ToSet(first) = {Now(n) : n \in K}
  <2>1. ToSet(first) = {Now(kept[i]) : i \in DOMAIN kept}
    <3> HIDE DEF kept
    <3> QED
      BY DEF ToSet
  <2>2. K = {kept[i] : i \in DOMAIN kept}
    <3> HIDE DEF kept, K
    <3> QED
      BY <1>3 DEF ToSet
  <2> HIDE DEF kept, K, first
  <2> QED
    BY <2>1, <2>2
<1> HIDE DEF first, rest, kept, K, P
<1>12. \A y \in ToSet(first), z \in ToSet(rest) : y.id # z.id
  BY <1>4, <1>7, <1>8, <1>11
<1>13. first \o rest \in Snapshots
  BY <1>4, <1>10, <1>12, ConcatPage
<1>14. ToSet(first \o rest) = ToSet(first) \cup ToSet(rest)
  BY <1>4, <1>10, ConcatSet DEF Snapshots
<1>15. {Now(n) : n \in K} \cup R = P \cup {n \in K : \A p \in P : p.id # n.id}
  <2>1. ASSUME NEW n \in K PROVE Now(n) \in P \cup {m \in K : \A p \in P : p.id # m.id}
    BY <1>7
  <2>2. ASSUME NEW p \in P PROVE p \in {Now(n) : n \in K} \cup R
    <3>1. CASE \E n \in K : n.id = p.id
      BY <1>7, <3>1
    <3>2. CASE ~ \E n \in K : n.id = p.id
      BY <1>8, <3>2
    <3> QED
      BY <3>1, <3>2
  <2>3. ASSUME NEW n \in K, \A p \in P : p.id # n.id PROVE n \in {Now(m) : m \in K}
    BY <1>7, <2>3
  <2>4. R \subseteq P
    OBVIOUS
  <2> HIDE DEF R
  <2> QED
    BY <2>1, <2>2, <2>3, <2>4
<1> QED
  BY <1>2, <1>4, <1>11, <1>13, <1>14, <1>15 DEF K, P

\* The delta between two pages makes the nodes of the second of those of the first,
\* in whatever order the first had them.
LEMMA DiffLemma ==
    ASSUME NEW old \in Snapshots, NEW new \in Snapshots
    PROVE  /\ Diff(old, new) \in Changes
           /\ \A nodes \in Snapshots : ToSet(nodes) = ToSet(old) => ToSet(Apply(nodes, Diff(old, new))) = ToSet(new)
<1> DEFINE d == Diff(old, new)
           N == ToSet(new)
           O == ToSet(old)
<1>1. Those(new, N \ O) \in Snapshots /\ ToSet(Those(new, N \ O)) = N \ O
  <2> DEFINE T == N \ O
  <2> HIDE DEF T
  <2>1. Those(new, T) \in Snapshots /\ ToSet(Those(new, T)) = ToSet(new) \cap T
    BY ThoseLemma
  <2> QED
    BY <2>1 DEF T
<1>2. /\ N \subseteq Nodes /\ IdsOf(old) \subseteq Ids
      /\ (\A x, y \in N : x.id = y.id => x = y) /\ (\A x, y \in O : x.id = y.id => x = y)
  BY OneOfEach
<1>3. d.puts = Those(new, N \ O) /\ d.del = IdsOf(old) \ IdsOf(new) /\ d \in Changes
  BY <1>1, <1>2 DEF Diff, Changes
<1>4. IdsOf(old) = {n.id : n \in O} /\ IdsOf(new) = {n.id : n \in N}
  BY DEF IdsOf
<1> HIDE DEF d, N, O
<1>5. (N \ O) \cup {n \in O : n.id \notin d.del /\ \A p \in N \ O : p.id # n.id} = N
  <2>1. ASSUME NEW n \in O, n.id \notin d.del, \A p \in N \ O : p.id # n.id PROVE n \in N
    <3>1. PICK m \in N : m.id = n.id
      BY <1>3, <1>4, <2>1
    <3>2. m \in O
      BY <2>1, <3>1
    <3> QED
      BY <1>2, <3>1, <3>2
  <2>2. ASSUME NEW n \in N, n \in O PROVE n.id \notin d.del /\ \A p \in N \ O : p.id # n.id
    <3>1. n.id \in IdsOf(new)
      BY <1>4
    <3> QED
      BY <1>2, <1>3, <2>2, <3>1
  <2> QED
    BY <2>1, <2>2
<1>6. ASSUME NEW nodes \in Snapshots, ToSet(nodes) = O
      PROVE  ToSet(Apply(nodes, d)) = N
  <2>1. ToSet(Apply(nodes, d)) =
          ToSet(d.puts) \cup {n \in ToSet(nodes) : n.id \notin d.del /\ \A p \in ToSet(d.puts) : p.id # n.id}
    BY <1>3, ApplyLemma
  <2> QED
    BY <1>1, <1>3, <1>5, <1>6, <2>1
<1> QED
  BY <1>3, <1>6 DEF d, N, O

\* A part of a sequence.
LEMMA PartSet ==
    ASSUME NEW C, NEW s \in Seq(C), NEW m \in Nat \ {0}, NEW n \in 0..Len(s)
    PROVE  SubSeq(s, m, n) \in Seq(C) /\ ToSet(SubSeq(s, m, n)) \subseteq ToSet(s)
<1>1. /\ SubSeq(s, m, n) \in Seq(C)
      /\ \A i \in 1..Len(SubSeq(s, m, n)) : SubSeq(s, m, n)[i] = s[m + i - 1] /\ m + i - 1 \in 1..Len(s)
  OBVIOUS
<1>2. DOMAIN s = 1..Len(s) /\ DOMAIN SubSeq(s, m, n) = 1..Len(SubSeq(s, m, n))
  OBVIOUS
<1> QED
  BY <1>1, <1>2 DEF ToSet

\* All but the last.
LEMMA FrontSet ==
    ASSUME NEW C, NEW s \in Seq(C)
    PROVE  Front(s) \in Seq(C) /\ ToSet(Front(s)) \subseteq ToSet(s)
<1>1. CASE s = <<>>
  <2>1. SubSeq(s, 1, Len(s) - 1) = <<>>
    BY <1>1
  <2> QED
    BY <1>1, <2>1 DEF Front
<1>2. CASE s # <<>>
  <2>1. Len(s) - 1 \in 0..Len(s)
    BY <1>2
  <2> QED
    BY <2>1, PartSet DEF Front
<1> QED
  BY <1>1, <1>2

\* The last is one of them.
LEMMA LastIn ==
    ASSUME NEW C, NEW s \in Seq(C), s # <<>>
    PROVE  Last(s) = s[Len(s)] /\ Last(s) \in ToSet(s) /\ Len(s) \in DOMAIN s /\ Last(s) \in C
<1>1. Len(s) \in DOMAIN s
  OBVIOUS
<1> QED
  BY <1>1 DEF Last, ToSet

\* What was added is the last.
LEMMA LastAdded ==
    ASSUME NEW C, NEW s \in Seq(C), NEW x \in C
    PROVE  Last(Append(s, x)) = x /\ Append(s, x) # <<>>
BY DEF Last

-----------------------------------------------------------------------------
(* Histories.  *)

\* A chain: each entry is full, or a delta from the one before.
Chain(es) == \A i \in DOMAIN es : es[i].full \/ (i > 1 /\ es[i].parent = es[i - 1].id)

\* A page has the nodes of the last version.
Fits(es, shown) == es # <<>> => ToSet(shown) = ToSet(Last(es).shows)

\* A delta makes the nodes of its own version of those of another.
Leads(f, e) ==
  \A nodes \in Snapshots : ToSet(nodes) = ToSet(f.shows) => ToSet(Apply(nodes, e.delta)) = ToSet(e.shows)

\* Of all the entries there are, an id is of one; and a delta leads from its parent,
\* wherever that still is, to its version.
Sound(some, n) ==
  /\ \A e \in some : e.id \in 1..n /\ e.parent \in 0..n
  /\ \A e, f \in some : e.id = f.id => e = f
  /\ \A e, f \in some : ~e.full /\ e.parent = f.id => Leads(f, e)

\* What is lost does no harm.
LEMMA SoundFewer ==
    ASSUME NEW S, NEW T, NEW n \in Nat, NEW m \in Nat, T \subseteq S, n <= m, Sound(S, n)
    PROVE  Sound(T, m)
<1>1. \A i \in 1..n : i \in 1..m
  OBVIOUS
<1>2. \A i \in 0..n : i \in 0..m
  OBVIOUS
<1> QED
  BY <1>1, <1>2 DEF Sound

\* A new entry that leads on from its parent does none.
LEMMA SoundMore ==
    ASSUME NEW S \in SUBSET Es, NEW n \in Nat, Sound(S, n),
           NEW e \in Es, e.id = n + 1, e.parent \in 0..n,
           ~e.full => \A f \in S : f.id = e.parent => Leads(f, e)
    PROVE  Sound(S \cup {e}, n + 1)
<1>1. \A f \in S : f.id \in 1..n /\ f.parent \in 0..n
  BY DEF Sound
<1>2. /\ \A i \in 1..n : i \in 1..n + 1 /\ i # n + 1
      /\ \A i \in 0..n : i \in 0..n + 1 /\ i # n + 1
      /\ n + 1 \in 1..n + 1
  OBVIOUS
<1>3. \A f \in S \cup {e} : f.id \in 1..n + 1 /\ f.parent \in 0..n + 1
  BY <1>1, <1>2
<1>4. \A f, g \in S \cup {e} : f.id = g.id => f = g
  BY <1>1, <1>2 DEF Sound
<1>5. \A f, g \in S \cup {e} : ~f.full /\ f.parent = g.id => Leads(g, f)
  BY <1>1, <1>2 DEF Sound
<1> QED
  BY <1>3, <1>4, <1>5 DEF Sound

\* A chain that a full entry, or a delta from its last, is added to.
LEMMA ChainMore ==
    ASSUME NEW es \in Seq(Es), NEW e \in Es, Chain(es),
           e.full \/ (es # <<>> /\ e.parent = Last(es).id)
    PROVE  Chain(Append(es, e))
<1> DEFINE n == Len(es)
           t == Append(es, e)
<1>1. /\ n \in Nat /\ DOMAIN t = 1..n + 1 /\ t[n + 1] = e /\ DOMAIN es = 1..n
      /\ \A i \in 1..n : t[i] = es[i]
  OBVIOUS
<1>2. es # <<>> => n > 0 /\ Last(es) = es[n]
  BY DEF Last
<1> HIDE DEF n, t
<1>3. ASSUME NEW i \in 1..n + 1 PROVE t[i].full \/ (i > 1 /\ t[i].parent = t[i - 1].id)
  <2>1. CASE i = n + 1
    <3>1. CASE e.full
      BY <1>1, <2>1, <3>1
    <3>2. CASE es # <<>> /\ e.parent = Last(es).id
      <4>1. i - 1 = n /\ n \in 1..n /\ i > 1
        BY <1>1, <1>2, <2>1, <3>2
      <4>2. t[i - 1] = es[n]
        BY <1>1, <4>1
      <4> QED
        BY <1>1, <1>2, <2>1, <3>2, <4>1, <4>2
    <3> QED
      BY <3>1, <3>2
  <2>2. CASE i \in 1..n
    <3>1. es[i].full \/ (i > 1 /\ es[i].parent = es[i - 1].id)
      BY <1>1, <2>2 DEF Chain
    <3>2. i > 1 => i - 1 \in 1..n
      BY <1>1, <2>2
    <3> QED
      BY <1>1, <2>2, <3>1, <3>2
  <2> QED
    BY <1>1, <2>1, <2>2
<1> QED
  BY <1>1, <1>3 DEF Chain, t

-----------------------------------------------------------------------------
(* Recording.  *)

\* What a capture starts from.
Histories == [entries : Seq(Es), tail : Snapshots, lines : Seq(Es), ending : Endings, ids : Nat]
Good(h, S) == /\ h \in Histories /\ S \subseteq Es /\ Sound(S, h.ids)
              /\ ToSet(h.entries) \subseteq S /\ ToSet(h.lines) \subseteq S
              /\ Chain(h.entries) /\ Fits(h.entries, h.tail)

\* The entry that a capture makes.
Made(h, nodes, e) == /\ e \in Es /\ e.shows = nodes /\ e.id = h.ids + 1
                     /\ e.full \/ (h.entries # <<>> /\ e.parent = Last(h.entries).id)
Recorded(h, e) == [entries |-> Append(h.entries, e), tail |-> e.shows, lines |-> Appended(h, e),
                   ending |-> "newline", ids |-> e.id]

\* The parts of a history.
LEMMA HistoryParts ==
    ASSUME NEW h \in Histories
    PROVE  /\ h.entries \in Seq(Es) /\ h.tail \in Snapshots /\ h.lines \in Seq(Es)
           /\ h.ending \in Endings /\ h.ids \in Nat
BY DEF Histories

\* A new entry leads on from the last version.
LEMMA EntryLemma ==
    ASSUME NEW h, NEW S, Good(h, S), NEW nodes \in Snapshots, NEW full \in BOOLEAN,
           h.entries = <<>> => full
    PROVE  /\ Made(h, nodes, NewEntry(h, nodes, full))
           /\ Sound(S \cup {NewEntry(h, nodes, full)}, h.ids + 1)
<1> DEFINE e == NewEntry(h, nodes, full)
           es == h.entries
           old == h.tail
           n == h.ids
           d == Diff(old, nodes)
           p == IF es = <<>> THEN 0 ELSE Last(es).id
<1>1. es \in Seq(Es) /\ old \in Snapshots /\ n \in Nat
  BY HistoryParts DEF Good
<1>2. /\ S \in SUBSET Es /\ Sound(S, n) /\ ToSet(es) \subseteq S /\ Chain(es)
      /\ es # <<>> => ToSet(old) = ToSet(Last(es).shows)
  BY DEF Good, Fits
<1>3. /\ d \in Changes
      /\ \A ns \in Snapshots : ToSet(ns) = ToSet(old) => ToSet(Apply(ns, d)) = ToSet(nodes)
  BY <1>1, DiffLemma
<1>4. NoDelta \in Changes
  BY DEF NoDelta, Changes, Snapshots
<1>5. e = [id |-> n + 1, parent |-> p, full |-> full, delta |-> IF full THEN NoDelta ELSE d, shows |-> nodes]
  BY DEF NewEntry
<1> HIDE DEF es, old, n, d, e
<1>6. es # <<>> => Last(es) \in S
  BY <1>1, <1>2, LastIn
<1>7. p \in 0..n /\ (es # <<>> => p = Last(es).id)
  <2>1. \A f \in S : f.id \in 1..n
    BY <1>2 DEF Sound
  <2>2. \A i \in 1..n : i \in 0..n
    OBVIOUS
  <2>3. 0 \in 0..n
    BY <1>1
  <2> QED
    BY <1>6, <2>1, <2>2, <2>3
<1> HIDE DEF p
<1>8. e \in Es /\ e.id = n + 1 /\ e.parent = p /\ e.full = full /\ e.shows = nodes /\ (~full => e.delta = d)
  <2>1. (IF full THEN NoDelta ELSE d) \in Changes
    BY <1>3, <1>4
  <2>2. n + 1 \in Nat /\ p \in Nat
    BY <1>1, <1>7
  <2> QED
    BY <1>5, <2>1, <2>2 DEF Es
<1>9. ~full => \A f \in S : f.id = p => Leads(f, e)
  <2> SUFFICES ASSUME ~full, NEW f \in S, f.id = p PROVE Leads(f, e)
    OBVIOUS
  <2>1. es # <<>>
    BY DEF es
  <2>2. f = Last(es)
    BY <1>2, <1>6, <1>7, <2>1 DEF Sound
  <2> QED
    BY <1>2, <1>3, <1>8, <2>1, <2>2 DEF Leads
<1>10. Sound(S \cup {e}, n + 1)
  BY <1>1, <1>2, <1>7, <1>8, <1>9, SoundMore
<1>11. Made(h, nodes, e)
  <2>1. ~full => es # <<>>
    BY DEF es
  <2>2. e.full \/ (es # <<>> /\ e.parent = Last(es).id)
    BY <1>7, <1>8, <2>1
  <2> QED
    BY <1>8, <2>2 DEF Made, es, n
<1> QED
  BY <1>10, <1>11 DEF e, n

\* The line that is added, and those it does not make unreadable.
LEMMA AppendedLemma ==
    ASSUME NEW h \in Histories, NEW e \in Es
    PROVE  /\ Appended(h, e) \in Seq(Es) /\ ToSet(Appended(h, e)) \subseteq ToSet(h.lines) \cup {e}
           /\ h.ending = "newline" => Appended(h, e) = Append(h.lines, e)
<1> DEFINE ls == h.lines
<1>1. ls \in Seq(Es) /\ h.ending \in Endings
  BY HistoryParts
<1>2. Append(ls, e) \in Seq(Es) /\ ToSet(Append(ls, e)) = ToSet(ls) \cup {e}
  BY <1>1, AppendSet
<1>3. Front(ls) \in Seq(Es) /\ ToSet(Front(ls)) \subseteq ToSet(ls)
  BY <1>1, FrontSet
<1>4. CASE h.ending = "newline"
  <2>1. Appended(h, e) = Append(ls, e)
    BY <1>4 DEF Appended
  <2> QED
    BY <1>2, <2>1
<1>5. CASE h.ending = "line"
  <2>1. Appended(h, e) = Front(ls)
    BY <1>5 DEF Appended
  <2> QED
    BY <1>3, <1>5, <2>1
<1>6. CASE h.ending = "torn"
  <2>1. Appended(h, e) = ls
    BY <1>6 DEF Appended
  <2> QED
    BY <1>1, <1>6, <2>1
<1> QED
  BY <1>1, <1>4, <1>5, <1>6 DEF Endings

\* A capture records nothing, or a version that leads on from the last.
LEMMA CaptureLemma ==
    ASSUME NEW h, NEW S, Good(h, S), NEW nodes \in Snapshots, NEW g \in Captures(h, nodes)
    PROVE  \/ g = h /\ h.entries # <<>> /\ h.tail = nodes
           \/ \E e : /\ Made(h, nodes, e) /\ g = Recorded(h, e)
                     /\ Sound(S \cup {e}, h.ids + 1) /\ Good(g, S \cup {e})
<1> DEFINE es == h.entries
           MustBeFull == es = <<>> \/ SinceFull(es) + 1 >= FullEvery
           Kinds1 == IF MustBeFull THEN {TRUE} ELSE BOOLEAN
           Fulls == {k \in Kinds1 : h.ids < MaxVersions}
<1>1. CASE es # <<>> /\ h.tail = nodes
  BY <1>1 DEF Captures
<1>2. CASE ~(es # <<>> /\ h.tail = nodes)
  <2> DEFINE New(e) == [entries |-> Append(es, e), tail |-> nodes, lines |-> Appended(h, e), ending |-> "newline", ids |-> e.id]
  <2>1. Captures(h, nodes) = {New(e) : e \in {NewEntry(h, nodes, full) : full \in Fulls}}
    <3> HIDE DEF New
    <3> QED
      BY <1>2 DEF Captures, New
  <2> HIDE DEF New
  <2>2. PICK full \in Fulls : g = New(NewEntry(h, nodes, full))
    BY <2>1
  <2> DEFINE e == NewEntry(h, nodes, full)
  <2>3. full \in BOOLEAN /\ (es = <<>> => full)
    BY <2>2
  <2>4. Made(h, nodes, e) /\ Sound(S \cup {e}, h.ids + 1)
    BY <2>3, EntryLemma
  <2>5. e \in Es /\ e.shows = nodes /\ e.id = h.ids + 1
    BY <2>4 DEF Made
  <2> HIDE DEF e
  <2>6. g = Recorded(h, e)
    BY <2>2, <2>5 DEF Recorded, New, e
  <2>7. Good(g, S \cup {e})
    <3>1. /\ h \in Histories /\ S \subseteq Es /\ ToSet(es) \subseteq S /\ ToSet(h.lines) \subseteq S
          /\ Chain(es)
      BY DEF Good
    <3>2. es \in Seq(Es) /\ h.ids \in Nat /\ h.ids + 1 \in Nat
      BY <3>1, HistoryParts
    <3>3. Append(es, e) \in Seq(Es) /\ ToSet(Append(es, e)) = ToSet(es) \cup {e}
      BY <2>5, <3>2, AppendSet
    <3>4. Appended(h, e) \in Seq(Es) /\ ToSet(Appended(h, e)) \subseteq ToSet(h.lines) \cup {e}
      BY <2>5, <3>1, AppendedLemma
    <3>5. Chain(Append(es, e))
      BY <2>4, <2>5, <3>1, <3>2, ChainMore DEF Made
    <3>6. Last(Append(es, e)) = e
      BY <2>5, <3>2, LastAdded
    <3>7. /\ g.entries = Append(es, e) /\ g.tail = nodes /\ g.lines = Appended(h, e)
          /\ g.ending = "newline" /\ g.ids = h.ids + 1
      BY <2>5, <2>6 DEF Recorded
    <3> HIDE DEF es
    <3>8. g \in Histories
      <4>1. g = [entries |-> Append(es, e), tail |-> nodes, lines |-> Appended(h, e), ending |-> "newline", ids |-> h.ids + 1]
        BY <2>5, <2>6 DEF Recorded, es
      <4> DEFINE a == Append(es, e)
                 b == Appended(h, e)
                 c == h.ids + 1
      <4>2. a \in Seq(Es) /\ b \in Seq(Es) /\ c \in Nat
        BY <3>2, <3>3, <3>4
      <4> HIDE DEF a, b, c
      <4>3. g = [entries |-> a, tail |-> nodes, lines |-> b, ending |-> "newline", ids |-> c]
        BY <4>1 DEF a, b, c
      <4> QED
        BY <4>2, <4>3 DEF Histories, Endings
    <3>9. Fits(g.entries, g.tail)
      BY <2>5, <3>6, <3>7 DEF Fits
    <3>10. ToSet(g.entries) \subseteq S \cup {e} /\ ToSet(g.lines) \subseteq S \cup {e} /\ S \cup {e} \subseteq Es
      BY <2>5, <3>1, <3>3, <3>4, <3>7 DEF es
    <3> QED
      BY <2>4, <3>5, <3>7, <3>8, <3>9, <3>10 DEF Good
  <2> QED
    BY <2>4, <2>6, <2>7
<1> QED
  BY <1>1, <1>2

-----------------------------------------------------------------------------
(* Loading.  *)

\* What has been read of some lines.
Readings(S) == {h \in [entries : Seq(Es), tail : Snapshots] :
                  ToSet(h.entries) \subseteq S /\ Chain(h.entries) /\ Fits(h.entries, h.tail)}

\* Its parts.
LEMMA ReadingParts ==
    ASSUME NEW es \in Seq(Es), NEW shown \in Snapshots, NEW S,
           ToSet(es) \subseteq S, Chain(es), Fits(es, shown)
    PROVE  [entries |-> es, tail |-> shown] \in Readings(S)
<1> DEFINE h == [entries |-> es, tail |-> shown]
<1>1. h \in [entries : Seq(Es), tail : Snapshots] /\ h.entries = es /\ h.tail = shown
  OBVIOUS
<1> HIDE DEF h
<1>2. h \in Readings(S)
  BY <1>1 DEF Readings
<1> QED
  BY <1>2 DEF h

\* A line that is trusted leads on from the last.
LEMMA AdoptLemma ==
    ASSUME NEW S \in SUBSET Es, NEW n \in Nat, Sound(S, n), NEW h \in Readings(S), NEW e \in S
    PROVE  /\ Adopt(h, e) \in Readings(S)
           /\ e.full \/ Linked(h.entries, e) => Adopt(h, e).entries = Append(h.entries, e)
<1> DEFINE es == h.entries
           shown == h.tail
<1>1. es \in Seq(Es) /\ shown \in Snapshots /\ ToSet(es) \subseteq S /\ Chain(es) /\ Fits(es, shown)
  BY DEF Readings
<1>2. e \in Es
  OBVIOUS
<1>3. e.delta \in Changes /\ e.shows \in Snapshots /\ e.full \in BOOLEAN
  BY <1>2 DEF Es
<1> HIDE DEF es, shown
<1>4. Append(es, e) \in Seq(Es) /\ ToSet(Append(es, e)) \subseteq S /\ Last(Append(es, e)) = e
  <2>1. Append(es, e) \in Seq(Es) /\ ToSet(Append(es, e)) = ToSet(es) \cup {e}
    BY <1>1, <1>2, AppendSet
  <2>2. Last(Append(es, e)) = e
    BY <1>1, <1>2, LastAdded
  <2> QED
    BY <1>1, <2>1, <2>2
<1>5. ASSUME NEW now \in Snapshots, ToSet(now) = ToSet(e.shows), e.full \/ Linked(es, e)
      PROVE  Adding(h, e, now) \in Readings(S) /\ Adding(h, e, now).entries = Append(es, e)
  <2>1. Chain(Append(es, e))
    BY <1>1, <1>2, <1>5, ChainMore DEF Linked
  <2>2. Fits(Append(es, e), now)
    BY <1>4, <1>5 DEF Fits
  <2> DEFINE t == Append(es, e)
  <2>3. Adding(h, e, now) = [entries |-> t, tail |-> now]
    BY DEF Adding, es
  <2>4. t \in Seq(Es) /\ ToSet(t) \subseteq S /\ Chain(t) /\ Fits(t, now)
    BY <1>4, <2>1, <2>2
  <2> HIDE DEF t
  <2>5. Adding(h, e, now) \in Readings(S) /\ Adding(h, e, now).entries = t
    BY <2>3, <2>4, ReadingParts
  <2> QED
    BY <2>5 DEF t
<1>6. CASE e.full
  <2>1. Adopt(h, e) = Adding(h, e, e.shows)
    BY <1>6 DEF Adopt
  <2> QED
    BY <1>3, <1>5, <1>6, <2>1 DEF es
<1>7. CASE ~e.full /\ Linked(es, e)
  <2>1. Adopt(h, e) = Adding(h, e, Apply(shown, e.delta))
    BY <1>7 DEF Adopt, es, shown
  <2>2. es # <<>> /\ e.parent = Last(es).id
    BY <1>7 DEF Linked
  <2>3. Last(es) \in S /\ ToSet(shown) = ToSet(Last(es).shows)
    BY <1>1, <2>2, LastIn DEF Fits
  <2>4. Leads(Last(es), e)
    BY <1>7, <2>2, <2>3 DEF Sound
  <2>5. ToSet(Apply(shown, e.delta)) = ToSet(e.shows)
    BY <1>1, <2>3, <2>4 DEF Leads
  <2>6. Apply(shown, e.delta) \in Snapshots
    BY <1>1, <1>3, ApplyLemma
  <2> QED
    BY <1>5, <1>7, <2>1, <2>5, <2>6 DEF es
<1>8. CASE ~e.full /\ ~Linked(es, e)
  BY <1>8 DEF Adopt, es
<1> QED
  BY <1>6, <1>7, <1>8

\* What is read of a log, line by line.
AreRead(f, lines) ==
  /\ f[0] = NoHistory /\ Verified(lines) = f[Len(lines)]
  /\ \A i \in 1..Len(lines) : f[i] = Adopt(f[i - 1], lines[i])

\* There is such a reading.
LEMMA ReadRun ==
    ASSUME NEW lines \in Seq(Es), NEW k \in Nat, Sound(ToSet(lines), k)
    PROVE  \E f \in [0..Len(lines) -> Readings(ToSet(lines))] : AreRead(f, lines)
<1> DEFINE S == ToSet(lines)
           L == Readings(S)
           n == Len(lines)
           Is(f) == f = [i \in 0..n |-> IF i = 0 THEN NoHistory ELSE Adopt(f[i - 1], lines[i])]
           F == [i \in Nat |-> [x \in L |-> IF i \in 1..n THEN Adopt(x, lines[i]) ELSE x]]
<1>1. n \in Nat /\ S \in SUBSET Es /\ Sound(S, k) /\ \A i \in 1..n : lines[i] \in S
  BY DEF ToSet
<1>2. NoHistory \in L
  <2>1. <<>> \in Seq(Es) /\ <<>> \in Snapshots /\ ToSet(<<>>) \subseteq S /\ Chain(<<>>) /\ Fits(<<>>, <<>>)
    BY DEF Snapshots, ToSet, Chain, Fits
  <2> HIDE DEF S
  <2> QED
    BY <2>1, ReadingParts DEF NoHistory
<1> HIDE DEF S
<1>3. \A x \in L : \A i \in 1..n : Adopt(x, lines[i]) \in L
  BY <1>1, AdoptLemma
<1> HIDE DEF L
<1>4. F \in [Nat -> [L -> L]]
  BY <1>3
<1> HIDE DEF n
<1>5. \E f \in [0..n -> L] : Is(f)
  <2> HIDE DEF F
  <2>1. PICK f \in [0..n -> L] : IsRun(f, n, NoHistory, F)
    BY <1>1, <1>2, <1>4, RunExists
  <2>2. \A i \in 0..n : i # 0 => F[i][f[i - 1]] = Adopt(f[i - 1], lines[i])
    <3> SUFFICES ASSUME NEW i \in 0..n, i # 0
                 PROVE  F[i][f[i - 1]] = Adopt(f[i - 1], lines[i])
      OBVIOUS
    <3>1. i \in Nat /\ i \in 1..n /\ i - 1 \in 0..n
      BY <1>1
    <3>2. f[i - 1] \in L
      BY <3>1
    <3> QED
      BY <3>1, <3>2 DEF F
  <2>3. f = [i \in 0..n |-> IF i = 0 THEN NoHistory ELSE Adopt(f[i - 1], lines[i])]
    BY <2>1, <2>2 DEF IsRun
  <2> QED
    BY <2>3
<1> DEFINE f == CHOOSE f : Is(f)
<1>6. Is(f)
  BY <1>5
<1>7. Verified(lines) = f[n]
  BY DEF Verified, n
<1> HIDE DEF f
<1>8. f[0] = NoHistory /\ \A i \in 1..n : f[i] = Adopt(f[i - 1], lines[i])
  BY <1>1, <1>6
<1>9. f[0] \in L /\ \A i \in 1..n : f[i - 1] \in L => f[i] \in L
  BY <1>2, <1>3, <1>8
<1>10. \A i \in 0..n : f[i] \in L
  BY <1>1, <1>9, RunStays
<1>11. f = [i \in 0..n |-> f[i]]
  BY <1>6
<1>12. f \in [0..n -> L]
  BY <1>10, <1>11
<1>13. AreRead(f, lines)
  BY <1>7, <1>8 DEF AreRead, n
<1> QED
  BY <1>12, <1>13 DEF L, n, S

\* What is trusted of a log is a chain of its lines.
LEMMA VerifiedLemma ==
    ASSUME NEW lines \in Seq(Es), NEW k \in Nat, Sound(ToSet(lines), k)
    PROVE  Verified(lines) \in Readings(ToSet(lines))
<1>1. PICK f \in [0..Len(lines) -> Readings(ToSet(lines))] : AreRead(f, lines)
  BY ReadRun
<1>2. Len(lines) \in 0..Len(lines)
  OBVIOUS
<1> QED
  BY <1>1, <1>2 DEF AreRead

\* Of a log that is a chain all is trusted.
LEMMA ChainIsRead ==
    ASSUME NEW lines \in Seq(Es), NEW k \in Nat, Sound(ToSet(lines), k), Chain(lines)
    PROVE  Verified(lines).entries = lines
<1> DEFINE S == ToSet(lines)
           n == Len(lines)
<1>1. PICK f \in [0..n -> Readings(S)] : AreRead(f, lines)
  BY ReadRun
<1>2. n \in Nat /\ S \in SUBSET Es /\ Sound(S, k) /\ \A i \in 1..n : lines[i] \in S /\ lines[i] \in Es
  BY DEF ToSet
<1>3. /\ f[0] = NoHistory /\ Verified(lines) = f[n]
      /\ \A i \in 1..n : f[i] = Adopt(f[i - 1], lines[i])
  BY <1>1 DEF AreRead
<1>4. \A i \in 1..n : lines[i].full \/ (i > 1 /\ lines[i].parent = lines[i - 1].id)
  BY DEF Chain
<1>5. lines = [i \in 1..n |-> lines[i]]
  OBVIOUS
<1> DEFINE A == {m \in Nat : m <= n => f[m].entries = [i \in 1..m |-> lines[i]]}
<1> HIDE DEF S, n
<1>6. 0 \in A
  <2>1. f[0].entries = <<>>
    BY <1>3 DEF NoHistory
  <2>2. [i \in 1..0 |-> lines[i]] = <<>>
    OBVIOUS
  <2> QED
    BY <2>1, <2>2
<1>7. ASSUME NEW m \in Nat, m \in A
      PROVE  m + 1 \in A
  <2> SUFFICES ASSUME m + 1 <= n PROVE f[m + 1].entries = [i \in 1..m + 1 |-> lines[i]]
    OBVIOUS
  <2> DEFINE t == [i \in 1..m |-> lines[i]]
             e == lines[m + 1]
  <2>1. m <= n /\ m + 1 \in 1..n /\ m \in 0..n /\ (m + 1) - 1 = m /\ f[m].entries = t
    BY <1>2, <1>7
  <2>2. f[m + 1] = Adopt(f[m], e) /\ f[m] \in Readings(S) /\ e \in S
    BY <1>2, <1>3, <2>1
  <2>3. t \in Seq(Es) /\ Len(t) = m /\ \A i \in 1..m : t[i] = lines[i]
    <3>1. \A i \in 1..m : lines[i] \in Es
      BY <1>2, <2>1
    <3> QED
      BY <3>1
  <2>4. e.full \/ Linked(t, e)
    <3>1. CASE ~e.full
      <4>1. m + 1 > 1 /\ e.parent = lines[m].id
        BY <1>4, <2>1, <3>1
      <4>2. t # <<>> /\ Last(t) = lines[m]
        BY <2>3, <4>1 DEF Last
      <4> HIDE DEF t, e
      <4> QED
        BY <4>1, <4>2 DEF Linked
    <3> QED
      BY <3>1
  <2>5. f[m + 1].entries = Append(t, e)
    <3> DEFINE h == f[m]
    <3>1. h \in Readings(S) /\ h.entries = t /\ f[m + 1] = Adopt(h, e)
      BY <2>1, <2>2
    <3> HIDE DEF h, t, e
    <3>2. Adopt(h, e).entries = Append(h.entries, e)
      BY <1>2, <2>2, <2>4, <3>1, AdoptLemma
    <3> QED
      BY <3>1, <3>2
  <2>6. Append(t, e) = [i \in 1..m + 1 |-> lines[i]]
    BY <1>2, <2>1, <2>3
  <2> QED
    BY <2>5, <2>6
<1> HIDE DEF A
<1>8. Nat \subseteq A
  BY <1>6, <1>7, SetInduction
<1>9. n \in A
  BY <1>2, <1>8
<1>10. f[n].entries = [i \in 1..n |-> lines[i]]
  BY <1>2, <1>9 DEF A
<1> QED
  BY <1>3, <1>5, <1>10

\* What is left of a chain that is cut is a chain, and ends in the same version.
LEMMA CompactLemma ==
    ASSUME NEW es \in Seq(Es), Chain(es)
    PROVE  /\ Compact(es) \in Seq(Es) /\ ToSet(Compact(es)) \subseteq ToSet(es) /\ Chain(Compact(es))
           /\ es # <<>> => Compact(es) # <<>> /\ Last(Compact(es)) = Last(es)
           /\ es = <<>> => Compact(es) = <<>>
<1> DEFINE n == Len(es)
           Starts == {i \in DOMAIN es : i > n - MaxEntries /\ es[i].full}
           b == CHOOSE i \in Starts : \A j \in Starts : i <= j
           c == SubSeq(es, b, n)
<1>1. CASE n <= MaxEntries \/ Starts = {}
  BY <1>1 DEF Compact
<1>2. CASE ~(n <= MaxEntries \/ Starts = {})
  <2>1. Compact(es) = c
    BY <1>2 DEF Compact
  <2>2. b \in Starts
    <3>1. Starts \subseteq Nat
      OBVIOUS
    <3> HIDE DEF Starts
    <3>2. \E i \in Starts : \A j \in Starts : i <= j
      BY <1>2, <3>1, Least
    <3> QED
      BY <3>2
  <2> HIDE DEF b
  <2>3. b \in 1..n /\ es[b].full /\ n \in Nat /\ DOMAIN es = 1..n
    BY <2>2
  <2>4. c \in Seq(Es) /\ ToSet(c) \subseteq ToSet(es)
    BY <2>3, PartSet
  <2>5. /\ Len(c) = n - b + 1 /\ DOMAIN c = 1..n - b + 1
        /\ \A i \in 1..n - b + 1 : c[i] = es[b + i - 1]
    BY <2>3
  <2> HIDE DEF n, c, Starts
  <2>6. Chain(c)
    <3>1. ASSUME NEW i \in 1..n - b + 1 PROVE c[i].full \/ (i > 1 /\ c[i].parent = c[i - 1].id)
      <4>1. CASE i = 1
        <5>1. b + i - 1 = b
          BY <2>3, <4>1
        <5> QED
          BY <2>3, <2>5, <5>1
      <4>2. CASE i # 1
        <5>1. /\ i > 1 /\ i - 1 \in 1..n - b + 1 /\ b + i - 1 \in 1..n /\ b + i - 1 > 1
              /\ b + (i - 1) - 1 = (b + i - 1) - 1
          BY <2>3, <4>2
        <5>2. c[i] = es[b + i - 1] /\ c[i - 1] = es[(b + i - 1) - 1]
          <6>1. c[i - 1] = es[b + (i - 1) - 1]
            BY <2>5, <5>1
          <6> QED
            BY <2>5, <5>1, <6>1
        <5>3. es[b + i - 1].full \/ es[b + i - 1].parent = es[(b + i - 1) - 1].id
          BY <2>3, <5>1 DEF Chain
        <5> QED
          BY <5>1, <5>2, <5>3
      <4> QED
        BY <4>1, <4>2
    <3> QED
      BY <2>5, <3>1 DEF Chain
  <2>7. es # <<>> /\ c # <<>> /\ Last(c) = Last(es)
    <3>1. n - b + 1 \in 1..n - b + 1 /\ b + (n - b + 1) - 1 = n
      BY <2>3
    <3>2. c[n - b + 1] = es[n]
      BY <2>5, <3>1
    <3>3. c # <<>> /\ es # <<>>
      BY <2>3, <2>5, <3>1
    <3> QED
      BY <2>5, <3>2, <3>3 DEF Last, n
  <2> QED
    BY <2>1, <2>4, <2>6, <2>7
<1> QED
  BY <1>1, <1>2

-----------------------------------------------------------------------------
(* Replaying.  *)

\* There is a full entry to replay from.
LEMMA BaseLemma ==
    ASSUME NEW es \in Seq(Es), Chain(es), NEW i \in DOMAIN es
    PROVE  Base(es, i) \in 1..i /\ es[Base(es, i)].full /\ \A k \in Base(es, i) + 1..i : ~es[k].full
<1> DEFINE Is(b, m) == es[b].full /\ \A k \in b + 1..m : ~es[k].full
           A == {m \in Nat : m \in DOMAIN es => \E b \in 1..m : Is(b, m)}
<1>1. DOMAIN es = 1..Len(es) /\ Len(es) \in Nat
  OBVIOUS
<1>2. 0 \in A
  BY <1>1
<1>3. ASSUME NEW m \in Nat, m \in A
      PROVE  m + 1 \in A
  <2> SUFFICES ASSUME m + 1 \in DOMAIN es PROVE \E b \in 1..m + 1 : Is(b, m + 1)
    OBVIOUS
  <2>1. CASE es[m + 1].full
    <3>1. m + 1 \in 1..m + 1 /\ \A k \in (m + 1) + 1..m + 1 : FALSE
      OBVIOUS
    <3> QED
      BY <2>1, <3>1
  <2>2. CASE ~es[m + 1].full
    <3>1. m + 1 > 1
      BY <2>2 DEF Chain
    <3>2. m \in DOMAIN es
      BY <1>1, <3>1
    <3>3. PICK b \in 1..m : Is(b, m)
      BY <1>3, <3>2
    <3>4. b \in 1..m + 1 /\ \A k \in b + 1..m + 1 : k = m + 1 \/ k \in b + 1..m
      OBVIOUS
    <3> QED
      BY <2>2, <3>3, <3>4
  <2> QED
    BY <2>1, <2>2
<1> HIDE DEF A
<1>4. Nat \subseteq A
  BY <1>2, <1>3, SetInduction
<1>5. \E b \in 1..i : Is(b, i)
  BY <1>1, <1>4 DEF A
<1> QED
  BY <1>5 DEF Base

\* The pages that replaying comes by.
AreShown(f, es, i) ==
  LET b == Base(es, i)
  IN  /\ f[0] = es[b].shows /\ Reconstruct(es, i) = f[i - b]
      /\ \A k \in 1..i - b : f[k] = Apply(f[k - 1], es[b + k].delta)

\* There are such.
LEMMA ShownRun ==
    ASSUME NEW es \in Seq(Es), Chain(es), NEW i \in DOMAIN es
    PROVE  \E f \in [0..i - Base(es, i) -> Snapshots] : AreShown(f, es, i)
<1> DEFINE b == Base(es, i)
           n == i - b
           L == Snapshots
           Step(x, k) == Apply(x, es[b + k].delta)
           Is(f) == f = [k \in 0..n |-> IF k = 0 THEN es[b].shows ELSE Step(f[k - 1], k)]
           F == [k \in Nat |-> [x \in L |-> IF k \in 1..n THEN Step(x, k) ELSE x]]
<1>1. b \in 1..i /\ i \in 1..Len(es)
  BY BaseLemma
<1> HIDE DEF b
<1>2. n \in Nat /\ b \in DOMAIN es /\ \A k \in 1..n : b + k \in DOMAIN es
  BY <1>1
<1>3. \A k \in DOMAIN es : es[k].shows \in Snapshots /\ es[k].delta \in Changes
  <2>1. \A k \in DOMAIN es : es[k] \in Es
    OBVIOUS
  <2>2. \A e \in Es : e.shows \in Snapshots /\ e.delta \in Changes
    BY DEF Es
  <2> QED
    BY <2>1, <2>2
<1>4. \A x \in L : \A k \in 1..n : Step(x, k) \in L
  BY <1>2, <1>3, ApplyLemma
<1>5. es[b].shows \in L
  BY <1>2, <1>3
<1> HIDE DEF L, Step
<1>6. F \in [Nat -> [L -> L]]
  BY <1>4
<1> HIDE DEF n
<1>7. \E f \in [0..n -> L] : Is(f)
  <2> HIDE DEF F
  <2>1. PICK f \in [0..n -> L] : IsRun(f, n, es[b].shows, F)
    BY <1>2, <1>5, <1>6, RunExists
  <2>2. \A k \in 0..n : k # 0 => F[k][f[k - 1]] = Step(f[k - 1], k)
    <3> SUFFICES ASSUME NEW k \in 0..n, k # 0
                 PROVE  F[k][f[k - 1]] = Step(f[k - 1], k)
      OBVIOUS
    <3>1. k \in Nat /\ k \in 1..n /\ k - 1 \in 0..n
      BY <1>2
    <3>2. f[k - 1] \in L
      BY <3>1
    <3> QED
      BY <3>1, <3>2 DEF F
  <2>3. f = [k \in 0..n |-> IF k = 0 THEN es[b].shows ELSE Step(f[k - 1], k)]
    BY <2>1, <2>2 DEF IsRun
  <2> QED
    BY <2>3
<1> DEFINE f == CHOOSE f : Is(f)
<1>8. Is(f)
  BY <1>7
<1>9. Reconstruct(es, i) = f[n]
  BY DEF Reconstruct, n, b, Step
<1> HIDE DEF f
<1>10. f[0] = es[b].shows /\ \A k \in 1..n : f[k] = Step(f[k - 1], k)
  BY <1>2, <1>8
<1>11. f[0] \in L /\ \A k \in 1..n : f[k - 1] \in L => f[k] \in L
  BY <1>4, <1>5, <1>10
<1>12. \A k \in 0..n : f[k] \in L
  BY <1>2, <1>11, RunStays
<1>13. f = [k \in 0..n |-> f[k]]
  BY <1>8
<1>14. f \in [0..n -> L]
  BY <1>12, <1>13
<1>15. AreShown(f, es, i)
  BY <1>9, <1>10 DEF AreShown, Step, n, b
<1> QED
  BY <1>14, <1>15 DEF L, n, b

\* A version of a chain comes back with the nodes it was recorded with.
LEMMA ReconstructLemma ==
    ASSUME NEW es \in Seq(Es), Chain(es), NEW m \in Nat, Sound(ToSet(es), m), NEW i \in DOMAIN es
    PROVE  Reconstruct(es, i) \in Snapshots /\ ToSet(Reconstruct(es, i)) = ToSet(es[i].shows)
<1> DEFINE b == Base(es, i)
           n == i - b
<1>1. PICK f \in [0..n -> Snapshots] : AreShown(f, es, i)
  BY ShownRun
<1>2. b \in 1..i /\ i \in 1..Len(es) /\ DOMAIN es = 1..Len(es) /\ \A k \in b + 1..i : ~es[k].full
  BY BaseLemma
<1>3. /\ f[0] = es[b].shows /\ Reconstruct(es, i) = f[n]
      /\ \A k \in 1..n : f[k] = Apply(f[k - 1], es[b + k].delta)
  BY <1>1 DEF AreShown
<1> HIDE DEF b
<1>4. n \in Nat /\ b + n = i
  BY <1>2
<1> DEFINE A == {k \in Nat : k \in 0..n => ToSet(f[k]) = ToSet(es[b + k].shows)}
<1>5. 0 \in A
  <2>1. b + 0 = b
    BY <1>2
  <2> QED
    BY <1>3, <2>1
<1>6. ASSUME NEW k \in Nat, k \in A
      PROVE  k + 1 \in A
  <2> SUFFICES ASSUME k + 1 \in 0..n PROVE ToSet(f[k + 1]) = ToSet(es[b + (k + 1)].shows)
    OBVIOUS
  <2> DEFINE e == es[b + (k + 1)]
             o == es[b + k]
  <2>1. /\ k \in 0..n /\ k + 1 \in 1..n /\ (k + 1) - 1 = k
        /\ b + (k + 1) \in b + 1..i /\ b + (k + 1) \in 1..Len(es) /\ b + k \in 1..Len(es)
        /\ (b + (k + 1)) - 1 = b + k
    BY <1>2, <1>4
  <2>2. f[k] \in Snapshots /\ ToSet(f[k]) = ToSet(o.shows) /\ f[k + 1] = Apply(f[k], e.delta)
    BY <1>3, <1>6, <2>1
  <2>3. ~e.full /\ e.parent = o.id
    <3>1. ~es[b + (k + 1)].full
      BY <1>2, <2>1
    <3>2. es[b + (k + 1)].full \/ es[b + (k + 1)].parent = es[(b + (k + 1)) - 1].id
      BY <1>2, <2>1 DEF Chain
    <3> QED
      BY <2>1, <3>1, <3>2
  <2>4. e \in ToSet(es) /\ o \in ToSet(es)
    BY <1>2, <2>1 DEF ToSet
  <2> HIDE DEF e, o
  <2>5. Leads(o, e)
    BY <2>3, <2>4 DEF Sound
  <2>6. ToSet(f[k + 1]) = ToSet(e.shows)
    BY <2>2, <2>5 DEF Leads
  <2> QED
    BY <2>6 DEF e
<1> HIDE DEF A
<1>7. Nat \subseteq A
  BY <1>5, <1>6, SetInduction
<1>8. n \in A
  BY <1>4, <1>7
<1>9. n \in 0..n
  BY <1>4
<1>10. ToSet(f[n]) = ToSet(es[b + n].shows)
  BY <1>8, <1>9 DEF A
<1>11. f[n] \in Snapshots
  BY <1>9
<1> QED
  BY <1>3, <1>4, <1>10, <1>11

\* What comes after a version does not change it.
LEMMA ReconstructAgree ==
    ASSUME NEW es \in Seq(Es), Chain(es), NEW e \in Es, Chain(Append(es, e)), NEW i \in DOMAIN es
    PROVE  Reconstruct(Append(es, e), i) = Reconstruct(es, i)
<1> DEFINE t == Append(es, e)
           b == Base(es, i)
           n == i - b
<1>1. /\ t \in Seq(Es) /\ DOMAIN es = 1..Len(es) /\ DOMAIN t = 1..Len(es) + 1 /\ Len(es) \in Nat
      /\ \A k \in 1..Len(es) : t[k] = es[k]
  OBVIOUS
<1> HIDE DEF t
<1>2. i \in DOMAIN t /\ Chain(t)
  BY <1>1 DEF t
<1>3. Base(t, i) = b
  <2> DEFINE c == Base(t, i)
  <2>1. b \in 1..i /\ es[b].full /\ \A k \in b + 1..i : ~es[k].full
    BY BaseLemma
  <2>2. c \in 1..i /\ t[c].full /\ \A k \in c + 1..i : ~t[k].full
    BY <1>1, <1>2, BaseLemma
  <2> HIDE DEF b, c
  <2>3. es[c].full /\ \A k \in c + 1..i : ~es[k].full
    BY <1>1, <2>2
  <2>4. c <= b /\ b <= c
    <3>1. CASE c < b
      <4>1. b \in c + 1..i
        BY <2>1, <2>2, <3>1
      <4> QED
        BY <2>1, <2>3, <4>1
    <3>2. CASE b < c
      <4>1. c \in b + 1..i
        BY <2>1, <2>2, <3>2
      <4> QED
        BY <2>1, <2>3, <4>1
    <3> QED
      BY <2>1, <2>2, <3>1, <3>2
  <2>5. c = b
    BY <2>1, <2>2, <2>4
  <2> QED
    BY <2>5 DEF c
<1>4. PICK f \in [0..n -> Snapshots] : AreShown(f, es, i)
  BY ShownRun
<1>5. PICK g : AreShown(g, t, i)
  BY <1>1, <1>2, ShownRun
<1>6. /\ f[0] = es[b].shows /\ Reconstruct(es, i) = f[n]
      /\ \A k \in 1..n : f[k] = Apply(f[k - 1], es[b + k].delta)
  BY <1>4 DEF AreShown
<1>7. /\ g[0] = t[b].shows /\ Reconstruct(t, i) = g[n]
      /\ \A k \in 1..n : g[k] = Apply(g[k - 1], t[b + k].delta)
  BY <1>3, <1>5 DEF AreShown
<1>8. b \in 1..i /\ i \in 1..Len(es)
  BY BaseLemma
<1> HIDE DEF b
<1>9. n \in Nat
  BY <1>8
<1> DEFINE A == {k \in Nat : k \in 0..n => f[k] = g[k]}
<1>10. 0 \in A
  BY <1>1, <1>6, <1>7, <1>8
<1>11. ASSUME NEW k \in Nat, k \in A
       PROVE  k + 1 \in A
  <2> SUFFICES ASSUME k + 1 \in 0..n PROVE f[k + 1] = g[k + 1]
    OBVIOUS
  <2>1. k \in 0..n /\ k + 1 \in 1..n /\ (k + 1) - 1 = k /\ b + (k + 1) \in 1..Len(es)
    BY <1>8, <1>9
  <2>2. f[k] = g[k] /\ t[b + (k + 1)] = es[b + (k + 1)]
    BY <1>1, <1>11, <2>1
  <2>3. f[k + 1] = Apply(f[k], es[b + (k + 1)].delta) /\ g[k + 1] = Apply(g[k], t[b + (k + 1)].delta)
    BY <1>6, <1>7, <2>1
  <2> QED
    BY <2>2, <2>3
<1> HIDE DEF A
<1>12. Nat \subseteq A
  BY <1>10, <1>11, SetInduction
<1>13. n \in A /\ n \in 0..n
  BY <1>9, <1>12
<1>14. f[n] = g[n]
  BY <1>13 DEF A
<1> QED
  BY <1>6, <1>7, <1>14 DEF t

-----------------------------------------------------------------------------
(* Edits.  *)

\* A part of a page is one.
LEMMA PartPage ==
    ASSUME NEW s \in Snapshots, NEW m \in Nat \ {0}, NEW n \in 0..Len(s)
    PROVE  SubSeq(s, m, n) \in Snapshots /\ \A x \in ToSet(SubSeq(s, m, n)) : \E i \in m..n : i \in DOMAIN s /\ x = s[i]
<1> DEFINE t == SubSeq(s, m, n)
<1>1. s \in Seq(Nodes) /\ DOMAIN s = 1..Len(s) /\ Len(s) \in Nat /\ \A i, j \in DOMAIN s : s[i].id = s[j].id => i = j
  BY DEF Snapshots
<1>2. /\ t \in Seq(Nodes) /\ DOMAIN t = 1..Len(t) /\ Len(t) \in Nat
      /\ \A i \in 1..Len(t) : t[i] = s[m + i - 1] /\ m + i - 1 \in 1..Len(s) /\ m + i - 1 \in m..n
  BY <1>1
<1> HIDE DEF t
<1>3. ASSUME NEW i \in DOMAIN t, NEW j \in DOMAIN t, t[i].id = t[j].id PROVE i = j
  <2>1. t[i] = s[m + i - 1] /\ m + i - 1 \in DOMAIN s /\ t[j] = s[m + j - 1] /\ m + j - 1 \in DOMAIN s
    BY <1>1, <1>2
  <2>2. m + i - 1 = m + j - 1
    BY <1>1, <1>3, <2>1
  <2> QED
    BY <1>2, <2>2
<1>4. t \in Snapshots
  BY <1>2, <1>3 DEF Snapshots
<1>5. \A x \in ToSet(t) : \E i \in m..n : i \in DOMAIN s /\ x = s[i]
  BY <1>1, <1>2 DEF ToSet
<1> QED
  BY <1>4, <1>5 DEF t

\* One node is a page.
LEMMA OnePage ==
    ASSUME NEW x \in Nodes
    PROVE  <<x>> \in Snapshots /\ ToSet(<<x>>) = {x}
BY DEF Snapshots, ToSet

\* A node is removed.
LEMMA RemovePage ==
    ASSUME NEW s \in Snapshots, NEW k \in DOMAIN s
    PROVE  RemoveAt(s, k) \in Snapshots
<1> DEFINE a == SubSeq(s, 1, k - 1)
           b == SubSeq(s, k + 1, Len(s))
<1>1. s \in Seq(Nodes) /\ DOMAIN s = 1..Len(s) /\ Len(s) \in Nat /\ \A i, j \in DOMAIN s : s[i].id = s[j].id => i = j
  BY DEF Snapshots
<1>2. k - 1 \in 0..Len(s) /\ k + 1 \in Nat \ {0} /\ Len(s) \in 0..Len(s)
  BY <1>1
<1>3. a \in Snapshots /\ \A x \in ToSet(a) : \E i \in 1..k - 1 : i \in DOMAIN s /\ x = s[i]
  BY <1>2, PartPage
<1>4. b \in Snapshots /\ \A x \in ToSet(b) : \E i \in k + 1..Len(s) : i \in DOMAIN s /\ x = s[i]
  BY <1>2, PartPage
<1>5. RemoveAt(s, k) = a \o b
  BY DEF RemoveAt
<1> HIDE DEF a, b
<1>6. ASSUME NEW x \in ToSet(a), NEW y \in ToSet(b) PROVE x.id # y.id
  <2>1. PICK i \in 1..k - 1 : i \in DOMAIN s /\ x = s[i]
    BY <1>3
  <2>2. PICK j \in k + 1..Len(s) : j \in DOMAIN s /\ y = s[j]
    BY <1>4
  <2>3. i # j
    BY <1>1
  <2> QED
    BY <1>1, <2>1, <2>2, <2>3
<1> QED
  BY <1>3, <1>4, <1>5, <1>6, ConcatPage

\* A node comes back, anywhere.
LEMMA InsertPage ==
    ASSUME NEW s \in Snapshots, NEW k \in 1..Len(s) + 1, NEW n \in Nodes, n.id \notin IdsOf(s)
    PROVE  InsertAt(s, k, n) \in Snapshots
<1> DEFINE a == SubSeq(s, 1, k - 1)
           b == SubSeq(s, k, Len(s))
           c == a \o <<n>>
<1>1. s \in Seq(Nodes) /\ DOMAIN s = 1..Len(s) /\ Len(s) \in Nat /\ \A i, j \in DOMAIN s : s[i].id = s[j].id => i = j
  BY DEF Snapshots
<1>2. k - 1 \in 0..Len(s) /\ k \in Nat \ {0} /\ Len(s) \in 0..Len(s)
  BY <1>1
<1>3. a \in Snapshots /\ \A x \in ToSet(a) : \E i \in 1..k - 1 : i \in DOMAIN s /\ x = s[i]
  BY <1>2, PartPage
<1>4. b \in Snapshots /\ \A x \in ToSet(b) : \E i \in k..Len(s) : i \in DOMAIN s /\ x = s[i]
  BY <1>2, PartPage
<1>5. InsertAt(s, k, n) = c \o b
  BY DEF InsertAt
<1>6. <<n>> \in Snapshots /\ ToSet(<<n>>) = {n}
  BY OnePage
<1>7. \A i \in DOMAIN s : s[i].id # n.id
  BY DEF IdsOf, ToSet
<1> DEFINE o == <<n>>
<1> HIDE DEF a, b, o
<1>8. \A x \in ToSet(a), y \in ToSet(o) : x.id # y.id
  BY <1>3, <1>6, <1>7 DEF o
<1>9. a \o o \in Snapshots /\ ToSet(a \o o) = ToSet(a) \cup ToSet(o)
  <2>1. o \in Snapshots
    BY <1>6 DEF o
  <2>2. a \in Seq(Nodes) /\ o \in Seq(Nodes)
    BY <1>3, <2>1 DEF Snapshots
  <2> QED
    BY <1>3, <1>8, <2>1, <2>2, ConcatPage, ConcatSet
<1>10. c \in Snapshots /\ ToSet(c) = ToSet(a) \cup {n}
  BY <1>6, <1>9 DEF o
<1> HIDE DEF c
<1>11. ASSUME NEW x \in ToSet(c), NEW y \in ToSet(b) PROVE x.id # y.id
  <2>1. PICK j \in k..Len(s) : j \in DOMAIN s /\ y = s[j]
    BY <1>4
  <2>2. CASE x \in ToSet(a)
    <3>1. PICK i \in 1..k - 1 : i \in DOMAIN s /\ x = s[i]
      BY <1>3, <2>2
    <3>2. i # j
      BY <1>1
    <3> QED
      BY <1>1, <2>1, <3>1, <3>2
  <2>3. CASE x = n
    BY <1>7, <2>1, <2>3
  <2> QED
    BY <1>10, <2>2, <2>3
<1> QED
  BY <1>4, <1>5, <1>10, <1>11, ConcatPage

\* A node is changed in place.
LEMMA ChangePage ==
    ASSUME NEW s \in Snapshots, NEW k \in DOMAIN s, NEW b \in Bodies
    PROVE  [s EXCEPT ![k].body = b] \in Snapshots
<1> DEFINE x == [s[k] EXCEPT !.body = b]
           t == [s EXCEPT ![k] = x]
<1>1. s \in Seq(Nodes) /\ DOMAIN s = 1..Len(s) /\ Len(s) \in Nat /\ \A i, j \in DOMAIN s : s[i].id = s[j].id => i = j
  BY DEF Snapshots
<1>2. x \in Nodes /\ x.id = s[k].id
  <2>1. s[k] \in Nodes
    BY <1>1
  <2> QED
    BY <2>1 DEF Nodes
<1> HIDE DEF x
<1>3. t \in Seq(Nodes) /\ DOMAIN t = DOMAIN s /\ \A i \in DOMAIN s : t[i] = IF i = k THEN x ELSE s[i]
  BY <1>1, <1>2
<1>4. \A i \in DOMAIN s : t[i].id = s[i].id
  BY <1>2, <1>3
<1> HIDE DEF t
<1>5. t \in Snapshots
  BY <1>1, <1>3, <1>4 DEF Snapshots
<1> QED
  BY <1>5 DEF t, x

-----------------------------------------------------------------------------
(* The inductive invariant of the log.  *)

\* What each variable holds.
Typed == /\ log \in Seq(Es) /\ ending \in Endings /\ recorded \in Nat
         /\ saved \in Snapshots /\ page \in [Writers -> Snapshots]
         /\ entries \in [Writers -> Seq(Es)] /\ tail \in [Writers -> Snapshots]
         /\ phase \in [Writers -> Phases]

\* Every entry there still is, on disk or in memory.
All == ToSet(log) \cup UNION {ToSet(entries[w]) : w \in Writers}

VInvariant == /\ Typed /\ Sound(All, recorded)
              /\ \A w \in Writers : Chain(entries[w]) /\ Fits(entries[w], tail[w])

\* The parts of it at one writer.
LEMMA AtWriter ==
    ASSUME VInvariant, NEW w \in Writers
    PROVE  /\ Good(History(w), All) /\ All \in SUBSET Es /\ ToSet(log) \subseteq All /\ Sound(All, recorded)
           /\ entries[w] \in Seq(Es) /\ tail[w] \in Snapshots /\ page[w] \in Snapshots /\ saved \in Snapshots
           /\ log \in Seq(Es) /\ ending \in Endings /\ recorded \in Nat /\ ToSet(entries[w]) \subseteq All
           /\ Chain(entries[w]) /\ Fits(entries[w], tail[w]) /\ phase[w] \in Phases
<1>1. /\ log \in Seq(Es) /\ ending \in Endings /\ recorded \in Nat
      /\ saved \in Snapshots /\ page[w] \in Snapshots /\ entries[w] \in Seq(Es) /\ tail[w] \in Snapshots
      /\ phase[w] \in Phases /\ Sound(All, recorded)
      /\ Chain(entries[w]) /\ Fits(entries[w], tail[w])
  BY DEF VInvariant, Typed
<1>2. \A s \in Seq(Es) : ToSet(s) \subseteq Es
  BY DEF ToSet
<1>3. \A v \in Writers : ToSet(entries[v]) \subseteq Es
  BY <1>2 DEF VInvariant, Typed
<1>4. All \subseteq Es /\ ToSet(log) \subseteq All /\ ToSet(entries[w]) \subseteq All
  BY <1>1, <1>2, <1>3 DEF All
<1>5. History(w) \in Histories
  BY <1>1 DEF History, Histories
<1>6. History(w).entries = entries[w] /\ History(w).tail = tail[w] /\ History(w).lines = log /\ History(w).ids = recorded
  BY DEF History
<1>7. Good(History(w), All)
  BY <1>1, <1>4, <1>5, <1>6 DEF Good
<1> QED
  BY <1>1, <1>4, <1>7

\* A step of one writer keeps it, if what it makes leads on from what there was.
LEMMA StepKeeps ==
    ASSUME VInvariant, NEW w \in Writers, NEW T \in SUBSET Es, All \subseteq T,
           NEW es \in Seq(Es), NEW shown \in Snapshots, ToSet(es) \subseteq T, Chain(es), Fits(es, shown),
           entries' = [entries EXCEPT ![w] = es], tail' = [tail EXCEPT ![w] = shown],
           log' \in Seq(Es), ToSet(log') \subseteq T, ending' \in Endings,
           recorded' \in Nat, Sound(T, recorded'),
           page' \in [Writers -> Snapshots], saved' \in Snapshots, phase' \in [Writers -> Phases]
    PROVE  VInvariant'
<1>1. Typed'
  BY DEF VInvariant, Typed
<1>2. \A v \in Writers : /\ v = w => entries'[v] = es /\ tail'[v] = shown
                         /\ v # w => entries'[v] = entries[v] /\ tail'[v] = tail[v]
  BY DEF VInvariant, Typed
<1>3. \A v \in Writers : ToSet(entries[v]) \subseteq T
  BY DEF All
<1>4. \A v \in Writers : ToSet(entries'[v]) \subseteq T
  BY <1>2, <1>3
<1>5. All' \subseteq T
  BY <1>4 DEF All
<1>6. Sound(All', recorded')
  BY <1>5, SoundFewer
<1>7. \A v \in Writers : Chain(entries'[v]) /\ Fits(entries'[v], tail'[v])
  BY <1>2 DEF VInvariant
<1>8. Sound(All, recorded)'
  BY <1>6 DEF Sound, Leads
<1>9. (\A v \in Writers : Chain(entries[v]) /\ Fits(entries[v], tail[v]))'
  BY <1>7 DEF Chain, Fits
<1> QED
  BY <1>1, <1>8, <1>9 DEF VInvariant

\* So does one that records, ...
LEMMA BecomesKeeps ==
    ASSUME VInvariant, NEW w \in Writers, NEW T, NEW g, Good(g, T), All \subseteq T, Becomes(w, g),
           page' \in [Writers -> Snapshots], saved' \in Snapshots, phase' \in [Writers -> Phases]
    PROVE  VInvariant'
<1> DEFINE es == g.entries
           shown == g.tail
<1>1. /\ es \in Seq(Es) /\ shown \in Snapshots /\ g.lines \in Seq(Es) /\ g.ending \in Endings /\ g.ids \in Nat
      /\ T \in SUBSET Es /\ ToSet(es) \subseteq T /\ ToSet(g.lines) \subseteq T
      /\ Chain(es) /\ Fits(es, shown) /\ Sound(T, g.ids)
  BY HistoryParts DEF Good
<1>2. /\ entries' = [entries EXCEPT ![w] = es] /\ tail' = [tail EXCEPT ![w] = shown]
      /\ log' = g.lines /\ ending' = g.ending /\ recorded' = g.ids
  BY DEF Becomes
<1> HIDE DEF es, shown
<1> QED
  BY <1>1, <1>2, StepKeeps

\* ... and one that leaves the log and the chains alone, ...
LEMMA StillKeeps ==
    ASSUME VInvariant, UNCHANGED <<disk, chain>>,
           page' \in [Writers -> Snapshots], saved' \in Snapshots, phase' \in [Writers -> Phases]
    PROVE  VInvariant'
<1>1. UNCHANGED <<log, ending, recorded, entries, tail>>
  BY DEF disk, chain
<1>2. Typed'
  BY <1>1 DEF VInvariant, Typed
<1>3. Sound(All, recorded)'
  BY <1>1 DEF VInvariant, All, Sound, Leads
<1>4. (\A v \in Writers : Chain(entries[v]) /\ Fits(entries[v], tail[v]))'
  BY <1>1 DEF VInvariant, Chain, Fits
<1> QED
  BY <1>2, <1>3, <1>4 DEF VInvariant

\* ... and one after which a writer is gone.
LEMMA DropKeeps ==
    ASSUME VInvariant, NEW w \in Writers, NEW T \in SUBSET Es, All \subseteq T, Drop(w),
           log' \in Seq(Es), ToSet(log') \subseteq T, ending' \in Endings,
           recorded' \in Nat, Sound(T, recorded'), saved' \in Snapshots
    PROVE  VInvariant'
<1>1. /\ phase' = [phase EXCEPT ![w] = "closed"] /\ page' = [page EXCEPT ![w] = <<>>]
      /\ entries' = [entries EXCEPT ![w] = <<>>] /\ tail' = [tail EXCEPT ![w] = <<>>]
  BY DEF Drop
<1>2. <<>> \in Seq(Es) /\ <<>> \in Snapshots /\ ToSet(<<>>) \subseteq T /\ Chain(<<>>) /\ Fits(<<>>, <<>>)
  BY DEF Snapshots, ToSet, Chain, Fits
<1>3. page' \in [Writers -> Snapshots] /\ phase' \in [Writers -> Phases]
  BY <1>1, <1>2 DEF VInvariant, Typed, Phases
<1> QED
  BY <1>1, <1>2, <1>3, StepKeeps

\* What a capture comes to.
LEMMA CaptureGood ==
    ASSUME NEW h, NEW S, Good(h, S), NEW nodes \in Snapshots, NEW g \in Captures(h, nodes)
    PROVE  \E T : S \subseteq T /\ Good(g, T)
<1>1. CASE g = h
  BY <1>1
<1>2. CASE g # h
  BY <1>2, CaptureLemma
<1> QED
  BY <1>1, <1>2

-----------------------------------------------------------------------------
(* The steps of a writer.  *)

\* What undo brings back are nodes.
LEMMA LostNodes ==
    ASSUME VInvariant, NEW w \in Writers, NEW n \in Lost(w)
    PROVE  n \in Nodes /\ n.id \notin IdsOf(page[w])
<1> DEFINE es == entries[w]
<1>1. es \in Seq(Es) /\ saved \in Snapshots /\ ToSet(es) \subseteq Es
  BY AtWriter
<1>2. ToSet(saved) \subseteq Nodes /\ \A e \in Es : ToSet(e.shows) \subseteq Nodes
  <2>1. \A e \in Es : e.shows \in Snapshots
    BY DEF Es
  <2> QED
    BY <1>1, <2>1, OneOfEach
<1>3. n \in (UNION {ToSet(e.shows) : e \in ToSet(es)}) \cup ToSet(saved) /\ n.id \notin IdsOf(page[w])
  BY DEF Lost
<1> HIDE DEF es
<1>4. CASE n \in ToSet(saved)
  BY <1>2, <1>3, <1>4
<1>5. CASE n \in UNION {ToSet(e.shows) : e \in ToSet(es)}
  <2>1. PICK e \in ToSet(es) : n \in ToSet(e.shows)
    BY <1>5
  <2>2. e \in Es
    BY <1>1, <2>1
  <2> QED
    BY <1>2, <1>3, <2>1, <2>2
<1> QED
  BY <1>3, <1>4, <1>5

\* An id that was never used is not on the page.
LEMMA FreshIds ==
    ASSUME NEW w \in Writers, NEW i \in Fresh
    PROVE  i \in Ids /\ i \notin IdsOf(page[w])
<1> DEFINE Shown == {IdsOf(page[v]) : v \in Writers}
<1>1. IdsOf(page[w]) \in Shown
  OBVIOUS
<1>2. i \in Ids /\ i \notin UNION Shown
  BY DEF Fresh
<1> HIDE DEF Shown
<1> QED
  BY <1>1, <1>2

\* What an edit makes of a page is a page.
LEMMA EditsLemma ==
    ASSUME VInvariant, NEW w \in Writers, Edit(w)
    PROVE  \E nodes \in Snapshots : page' = [page EXCEPT ![w] = nodes]
<1> DEFINE old == page[w]
           To(nodes) == page' = [page EXCEPT ![w] = nodes]
<1>1. old \in Snapshots
  BY AtWriter
<1>2. \/ \E i \in Fresh, b \in Bodies : To(Append(old, [id |-> i, body |-> b]))
      \/ \E k \in DOMAIN old : To(RemoveAt(old, k))
      \/ \E k \in DOMAIN old, b \in Bodies : To([old EXCEPT ![k].body = b])
      \/ \E k \in 1..Len(old) + 1, n \in Lost(w) : To(InsertAt(old, k, n))
  BY Zenon DEF Edit, Change
<1> HIDE DEF To
<1>3. SUFFICES \E nodes \in Snapshots : To(nodes)
  BY DEF To
<1>4. ASSUME NEW i \in Fresh, NEW b \in Bodies, To(Append(old, [id |-> i, body |-> b]))
      PROVE  \E nodes \in Snapshots : To(nodes)
  <2> DEFINE x == [id |-> i, body |-> b]
  <2>1. x \in Nodes /\ x.id = i
    BY FreshIds DEF Nodes
  <2>2. To(Append(old, x))
    BY <1>4
  <2> HIDE DEF x
  <2>3. \A y \in ToSet(old) : y.id # x.id
    BY <2>1, FreshIds DEF IdsOf
  <2>4. Append(old, x) \in Snapshots
    BY <1>1, <2>1, <2>3, AppendPage
  <2> QED
    BY <2>2, <2>4
<1>5. ASSUME NEW k \in 1..Len(old) + 1, NEW n \in Lost(w), To(InsertAt(old, k, n))
      PROVE  \E nodes \in Snapshots : To(nodes)
  <2>1. n \in Nodes /\ n.id \notin IdsOf(old)
    BY LostNodes
  <2> HIDE DEF old
  <2>2. InsertAt(old, k, n) \in Snapshots
    BY <1>1, <2>1, InsertPage
  <2> QED
    BY <1>5, <2>2
<1>6. ASSUME NEW k \in DOMAIN old, To(RemoveAt(old, k))
      PROVE  \E nodes \in Snapshots : To(nodes)
  BY <1>1, <1>6, RemovePage
<1>7. ASSUME NEW k \in DOMAIN old, NEW b \in Bodies, To([old EXCEPT ![k].body = b])
      PROVE  \E nodes \in Snapshots : To(nodes)
  BY <1>1, <1>7, ChangePage
<1> HIDE DEF old
<1> QED
  BY <1>2, <1>4, <1>5, <1>6, <1>7

\* A capture keeps the invariant, of whatever page it is.
LEMMA CaptureKeeps ==
    ASSUME VInvariant, NEW w \in Writers, NEW nodes \in Snapshots,
           NEW g \in Captures(History(w), nodes), Becomes(w, g),
           page' \in [Writers -> Snapshots], saved' \in Snapshots, phase' \in [Writers -> Phases]
    PROVE  VInvariant'
<1> DEFINE h == History(w)
<1>1. Good(h, All)
  BY AtWriter
<1> HIDE DEF h
<1>2. g \in Captures(h, nodes)
  BY DEF h
<1>3. PICK T : All \subseteq T /\ Good(g, T)
  BY <1>1, <1>2, CaptureGood
<1> QED
  BY <1>3, BecomesKeeps

\* VersionHistory::flush.
LEMMA FlushKeeps ==
    ASSUME VInvariant, NEW w \in Writers, Flush(w), UNCHANGED <<saved, page, phase>>
    PROVE  VInvariant'
<1>1. page' \in [Writers -> Snapshots] /\ saved' \in Snapshots /\ phase' \in [Writers -> Phases]
  BY DEF VInvariant, Typed
<1>2. page[w] \in Snapshots
  BY AtWriter
<1>3. CASE Capture(w)
  BY <1>1, <1>2, <1>3, CaptureKeeps DEF Capture
<1>4. CASE UNCHANGED <<disk, chain>>
  BY <1>1, <1>4, StillKeeps
<1> QED
  BY <1>3, <1>4 DEF Flush

\* An edit.
LEMMA EditKeeps ==
    ASSUME VInvariant, NEW w \in Writers, Edit(w)
    PROVE  VInvariant'
<1>1. PICK nodes \in Snapshots : page' = [page EXCEPT ![w] = nodes]
  BY EditsLemma
<1>3. UNCHANGED <<disk, saved, chain, phase>>
  BY DEF Edit
<1>4. page' \in [Writers -> Snapshots] /\ saved' \in Snapshots /\ phase' \in [Writers -> Phases]
  BY <1>1, <1>3 DEF VInvariant, Typed
<1> QED
  BY <1>3, <1>4, StillKeeps

\* What a version is put back as.
LEMMA VersionIsPage ==
    ASSUME VInvariant, NEW w \in Writers, NEW i \in DOMAIN entries[w]
    PROVE  /\ Reconstruct(entries[w], i) \in Snapshots
           /\ ToSet(Reconstruct(entries[w], i)) = ToSet(entries[w][i].shows)
<1> DEFINE es == entries[w]
<1>1. es \in Seq(Es) /\ Chain(es) /\ ToSet(es) \subseteq All /\ Sound(All, recorded) /\ recorded \in Nat /\ i \in DOMAIN es
  BY AtWriter
<1> HIDE DEF es
<1>2. Sound(ToSet(es), recorded)
  BY <1>1, SoundFewer
<1>3. Reconstruct(es, i) \in Snapshots /\ ToSet(Reconstruct(es, i)) = ToSet(es[i].shows)
  BY <1>1, <1>2, ReconstructLemma
<1> QED
  BY <1>3 DEF es

\* restore_version.
LEMMA RestoreKeeps ==
    ASSUME VInvariant, NEW w \in Writers, NEW i \in 1..MaxVersions, Restore(w, i)
    PROVE  VInvariant'
<1> DEFINE nodes == Reconstruct(entries[w], i)
           h == History(w)
           now == page[w]
<1>1. i \in DOMAIN entries[w]
  BY DEF Restore
<1>2. nodes \in Snapshots
  BY <1>1, VersionIsPage
<1>3. Good(h, All) /\ now \in Snapshots
  BY AtWriter
<1>4. PICK kept \in Captures(h, now) : \E restored \in Captures(kept, nodes) : Becomes(w, restored)
  BY DEF Restore
<1>5. PICK restored \in Captures(kept, nodes) : Becomes(w, restored)
  BY <1>4
<1>6. page' = [page EXCEPT ![w] = nodes] /\ UNCHANGED <<saved, phase>>
  BY DEF Restore, Change
<1> HIDE DEF nodes, h, now
<1>7. page' \in [Writers -> Snapshots] /\ saved' \in Snapshots /\ phase' \in [Writers -> Phases]
  BY <1>2, <1>6 DEF VInvariant, Typed
<1>8. PICK T : All \subseteq T /\ Good(kept, T)
  BY <1>3, CaptureGood
<1>9. PICK U : T \subseteq U /\ Good(restored, U)
  BY <1>2, <1>8, CaptureGood
<1>10. All \subseteq U
  BY <1>8, <1>9
<1> QED
  BY <1>5, <1>7, <1>9, <1>10, BecomesKeeps

\* What a load keeps of the log.
LEMMA ReadGood ==
    ASSUME VInvariant
    PROVE  /\ Verified(log).entries \in Seq(Es) /\ Verified(log).tail \in Snapshots
           /\ Compact(Verified(log).entries) \in Seq(Es) /\ Chain(Compact(Verified(log).entries))
           /\ ToSet(Compact(Verified(log).entries)) \subseteq All
           /\ Fits(Compact(Verified(log).entries), Verified(log).tail)
<1>1. log \in Seq(Es) /\ recorded \in Nat /\ Sound(All, recorded) /\ ToSet(log) \subseteq All
  BY DEF VInvariant, Typed, All
<1>2. Sound(ToSet(log), recorded)
  BY <1>1, SoundFewer
<1>3. Verified(log) \in Readings(ToSet(log))
  BY <1>1, <1>2, VerifiedLemma
<1> DEFINE es == Verified(log).entries
           shown == Verified(log).tail
<1>4. es \in Seq(Es) /\ shown \in Snapshots /\ ToSet(es) \subseteq ToSet(log) /\ Chain(es) /\ Fits(es, shown)
  BY <1>3 DEF Readings
<1> HIDE DEF es, shown
<1>5. /\ Compact(es) \in Seq(Es) /\ ToSet(Compact(es)) \subseteq ToSet(es) /\ Chain(Compact(es))
      /\ es # <<>> => Compact(es) # <<>> /\ Last(Compact(es)) = Last(es)
      /\ es = <<>> => Compact(es) = <<>>
  BY <1>4, CompactLemma
<1>6. Fits(Compact(es), shown)
  BY <1>4, <1>5 DEF Fits
<1> QED
  BY <1>1, <1>4, <1>5, <1>6 DEF es, shown

\* The background load.
LEMMA LoadKeeps ==
    ASSUME VInvariant, NEW w \in Writers, Open(w) \/ Read(w) \/ Rewrite(w) \/ Arrive(w)
    PROVE  VInvariant'
<1>1. /\ log \in Seq(Es) /\ ending \in Endings /\ recorded \in Nat
      /\ saved \in Snapshots /\ page \in [Writers -> Snapshots] /\ phase \in [Writers -> Phases]
      /\ entries \in [Writers -> Seq(Es)] /\ tail \in [Writers -> Snapshots] /\ Sound(All, recorded)
  BY DEF VInvariant, Typed
<1>2. CASE Open(w)
  <2>1. page' \in [Writers -> Snapshots] /\ saved' \in Snapshots /\ phase' \in [Writers -> Phases]
    BY <1>1, <1>2 DEF Open, Phases
  <2> QED
    BY <1>2, <2>1, StillKeeps DEF Open
<1>3. CASE Read(w)
  <2> DEFINE whole == Verified(log)
             es == Compact(whole.entries)
             shown == whole.tail
  <2>1. /\ entries' = [entries EXCEPT ![w] = es] /\ tail' = [tail EXCEPT ![w] = shown]
        /\ phase' = [phase EXCEPT ![w] = IF es = whole.entries THEN "adopting" ELSE "rewriting"]
        /\ UNCHANGED <<log, ending, recorded, saved, page>>
    BY <1>3 DEF Read, disk
  <2>2. es \in Seq(Es) /\ shown \in Snapshots /\ ToSet(es) \subseteq All /\ Chain(es) /\ Fits(es, shown)
    BY ReadGood
  <2>3. phase' \in [Writers -> Phases]
    <3> DEFINE p == IF es = whole.entries THEN "adopting" ELSE "rewriting"
    <3>1. p \in Phases
      BY DEF Phases
    <3>2. phase' = [phase EXCEPT ![w] = p]
      BY <2>1
    <3> HIDE DEF p
    <3> QED
      BY <1>1, <3>1, <3>2
  <2>4. All \in SUBSET Es /\ ToSet(log) \subseteq All
    BY AtWriter
  <2> HIDE DEF whole, es, shown
  <2>5. /\ log' \in Seq(Es) /\ ToSet(log') \subseteq All /\ ending' \in Endings /\ recorded' \in Nat
        /\ Sound(All, recorded') /\ page' \in [Writers -> Snapshots] /\ saved' \in Snapshots
    BY <1>1, <2>1, <2>4
  <2>6. entries' = [entries EXCEPT ![w] = es] /\ tail' = [tail EXCEPT ![w] = shown]
    BY <2>1
  <2> QED
    BY <2>2, <2>3, <2>4, <2>5, <2>6, StepKeeps
<1>4. CASE Rewrite(w)
  <2>1. /\ log' = entries[w] /\ ending' = "newline"
        /\ phase' = [phase EXCEPT ![w] = "adopting"]
        /\ UNCHANGED <<recorded, saved, page, entries, tail>>
    BY <1>4 DEF Rewrite, chain
  <2>2. /\ entries[w] \in Seq(Es) /\ tail[w] \in Snapshots /\ All \in SUBSET Es
        /\ ToSet(entries[w]) \subseteq All /\ Chain(entries[w]) /\ Fits(entries[w], tail[w])
    BY AtWriter
  <2>3. entries' = [entries EXCEPT ![w] = entries[w]] /\ tail' = [tail EXCEPT ![w] = tail[w]]
    BY <1>1, <2>1
  <2>4. page' \in [Writers -> Snapshots] /\ saved' \in Snapshots /\ phase' \in [Writers -> Phases]
        /\ ending' \in Endings
    BY <1>1, <2>1 DEF Phases, Endings
  <2>5. log' \in Seq(Es) /\ ToSet(log') \subseteq All /\ recorded' \in Nat /\ Sound(All, recorded')
    BY <1>1, <2>1, <2>2
  <2> QED
    BY <2>2, <2>3, <2>4, <2>5, StepKeeps
<1>5. CASE Arrive(w)
  <2>1. page' \in [Writers -> Snapshots] /\ saved' \in Snapshots /\ phase' \in [Writers -> Phases]
    BY <1>1, <1>5 DEF Arrive, Phases
  <2>2. page[w] \in Snapshots
    BY AtWriter
  <2>3. CASE Capture(w)
    BY <2>1, <2>2, <2>3, CaptureKeeps DEF Capture
  <2>4. CASE UNCHANGED <<disk, chain>>
    BY <2>1, <2>4, StillKeeps
  <2> QED
    BY <1>5, <2>3, <2>4 DEF Arrive
<1> QED
  BY <1>2, <1>3, <1>4, <1>5

\* The canvas goes away, with or without a last capture.
LEMMA LeaveKeeps ==
    ASSUME VInvariant, NEW w \in Writers, Leave(w)
    PROVE  VInvariant'
<1> DEFINE h == History(w)
           now == page[w]
<1>1. /\ Good(h, All) /\ now \in Snapshots /\ saved \in Snapshots /\ log \in Seq(Es) /\ ending \in Endings
      /\ recorded \in Nat /\ All \in SUBSET Es /\ ToSet(log) \subseteq All /\ Sound(All, recorded)
  BY AtWriter
<1>2. ASSUME UNCHANGED disk, saved' \in {saved, now}, Drop(w)
      PROVE  VInvariant'
  <2>1. log' = log /\ ending' = ending /\ recorded' = recorded /\ saved' \in Snapshots
    BY <1>1, <1>2 DEF disk
  <2> QED
    BY <1>1, <1>2, <2>1, DropKeeps
<1>3. ASSUME NEW g \in Captures(h, now), log' = g.lines, ending' = g.ending, recorded' = g.ids,
             saved' \in {saved, now}, Drop(w)
      PROVE  VInvariant'
  <2> HIDE DEF h, now
  <2>1. PICK T : All \subseteq T /\ Good(g, T)
    BY <1>1, CaptureGood
  <2>2. /\ g.lines \in Seq(Es) /\ g.ending \in Endings /\ g.ids \in Nat
        /\ T \in SUBSET Es /\ ToSet(g.lines) \subseteq T /\ Sound(T, g.ids)
    BY <2>1, HistoryParts DEF Good
  <2>3. saved' \in Snapshots
    BY <1>1, <1>3
  <2>4. log' \in Seq(Es) /\ ToSet(log') \subseteq T /\ ending' \in Endings /\ recorded' \in Nat /\ Sound(T, recorded')
    BY <1>3, <2>2
  <2> QED
    BY <1>3, <2>1, <2>2, <2>3, <2>4, DropKeeps
<1>4. CASE Close(w)
  BY <1>2, <1>3, <1>4 DEF Close
<1>5. CASE Crash(w)
  BY <1>2, <1>5 DEF Crash
<1> QED
  BY <1>4, <1>5 DEF Leave

\* A checkpoint whose line is lost.
LEMMA UnwrittenKeeps ==
    ASSUME VInvariant, NEW w \in Writers, Unwritten(w)
    PROVE  VInvariant'
<1> DEFINE h == History(w)
           now == page[w]
<1>1. /\ Good(h, All) /\ now \in Snapshots /\ log \in Seq(Es) /\ ending \in Endings /\ ToSet(log) \subseteq All
  BY AtWriter
<1>2. PICK g \in Captures(h, now) : Becomes(w, [g EXCEPT !.lines = log, !.ending = ending])
  BY DEF Unwritten
<1>3. page' \in [Writers -> Snapshots] /\ saved' \in Snapshots /\ phase' \in [Writers -> Phases]
  BY DEF Unwritten, VInvariant, Typed
<1> HIDE DEF h, now
<1>4. PICK T : All \subseteq T /\ Good(g, T)
  BY <1>1, <1>2, CaptureGood
<1> DEFINE f == [g EXCEPT !.lines = log, !.ending = ending]
<1>5. g \in Histories
  BY <1>4 DEF Good
<1>6. f \in Histories
  BY <1>1, <1>5 DEF Histories
<1>7. f.entries = g.entries /\ f.tail = g.tail /\ f.lines = log /\ f.ids = g.ids
  BY <1>5 DEF Histories
<1> HIDE DEF f
<1>8. Good(f, T)
  <2>1. /\ T \subseteq Es /\ Sound(T, g.ids) /\ ToSet(g.entries) \subseteq T /\ Chain(g.entries)
        /\ Fits(g.entries, g.tail)
    BY <1>4 DEF Good
  <2>2. ToSet(log) \subseteq T
    BY <1>1, <1>4
  <2> QED
    BY <1>6, <1>7, <2>1, <2>2 DEF Good
<1>9. Becomes(w, f)
  BY <1>2 DEF f
<1> QED
  BY <1>3, <1>4, <1>8, <1>9, BecomesKeeps

\* A crash in the middle of an append.
LEMMA CrashAppendingKeeps ==
    ASSUME VInvariant, NEW w \in Writers, CrashAppending(w)
    PROVE  VInvariant'
<1> DEFINE h == History(w)
           now == page[w]
<1>1. /\ Good(h, All) /\ now \in Snapshots /\ saved \in Snapshots /\ log \in Seq(Es)
      /\ ToSet(log) \subseteq All
  BY AtWriter
<1>2. /\ \E g \in Captures(h, now) :
            /\ recorded' = g.ids
            /\ log' = g.lines \/ log' = log \/ log' = Front(log)
      /\ ending' \in Endings /\ Drop(w) /\ saved' = saved
  <2>1. ending' \in {"newline", "line", "torn"}
    BY DEF CrashAppending
  <2> QED
    BY <2>1 DEF CrashAppending, Endings
<1> HIDE DEF h, now
<1>3. PICK g \in Captures(h, now) : recorded' = g.ids /\ (log' = g.lines \/ log' = log \/ log' = Front(log))
  BY <1>2
<1>4. PICK T : All \subseteq T /\ Good(g, T)
  BY <1>1, CaptureGood
<1>5. /\ g.lines \in Seq(Es) /\ g.ids \in Nat
      /\ T \in SUBSET Es /\ ToSet(g.lines) \subseteq T /\ Sound(T, g.ids)
  BY <1>4, HistoryParts DEF Good
<1>6. Front(log) \in Seq(Es) /\ ToSet(Front(log)) \subseteq ToSet(log)
  BY <1>1, FrontSet
<1>7. log' \in Seq(Es) /\ ToSet(log') \subseteq T
  BY <1>1, <1>3, <1>4, <1>5, <1>6
<1>8. recorded' \in Nat /\ Sound(T, recorded') /\ saved' \in Snapshots
  BY <1>1, <1>2, <1>3, <1>5
<1> QED
  BY <1>2, <1>4, <1>5, <1>7, <1>8, DropKeeps

\* A crash in the middle of a rewrite.
LEMMA CrashRewritingKeeps ==
    ASSUME VInvariant, NEW w \in Writers, CrashRewriting(w)
    PROVE  VInvariant'
<1> DEFINE es == entries[w]
<1>1. /\ es \in Seq(Es) /\ ToSet(es) \subseteq All /\ All \in SUBSET Es /\ saved \in Snapshots
      /\ recorded \in Nat /\ Sound(All, recorded)
  BY AtWriter
<1>2. PICK n \in 0..Len(es) : log' = SubSeq(es, 1, n)
  BY DEF CrashRewriting
<1>3. ending' \in Endings /\ Drop(w) /\ recorded' = recorded /\ saved' = saved
  BY DEF CrashRewriting
<1> HIDE DEF es
<1>4. log' \in Seq(Es) /\ ToSet(log') \subseteq ToSet(es)
  BY <1>1, <1>2, PartSet
<1>5. ToSet(log') \subseteq All
  BY <1>1, <1>4
<1>6. recorded' \in Nat /\ Sound(All, recorded') /\ saved' \in Snapshots
  BY <1>1, <1>3
<1> QED
  BY <1>1, <1>3, <1>4, <1>5, <1>6, DropKeeps

-----------------------------------------------------------------------------
(* The invariant of the log.  *)

\* It holds of the first state, where nothing is recorded.
LEMMA VersionInit == Init => VInvariant
<1> SUFFICES ASSUME Init PROVE VInvariant
  OBVIOUS
<1>1. <<>> \in Seq(Es) /\ <<>> \in Snapshots /\ ToSet(<<>>) = {} /\ Chain(<<>>) /\ Fits(<<>>, <<>>)
  BY DEF Snapshots, ToSet, Chain, Fits
<1>2. /\ log = <<>> /\ ending = "newline" /\ recorded = 0 /\ saved = <<>>
      /\ page = [w \in Writers |-> <<>>] /\ entries = [w \in Writers |-> <<>>]
      /\ tail = [w \in Writers |-> <<>>] /\ phase = [w \in Writers |-> "closed"]
  BY DEF Init
<1>3. Typed
  BY <1>1, <1>2 DEF Typed, Endings, Phases
<1>4. \A w \in Writers : ToSet(entries[w]) = {} /\ Chain(entries[w]) /\ Fits(entries[w], tail[w])
  BY <1>1, <1>2
<1>5. All = {}
  BY <1>1, <1>2, <1>4 DEF All
<1>6. Sound(All, recorded)
  BY <1>5 DEF Sound
<1> QED
  BY <1>3, <1>4, <1>6 DEF VInvariant

\* What a writer that stays does.
LEMMA StayKeeps ==
    ASSUME VInvariant, NEW w \in Writers, Stay(w)
    PROVE  VInvariant'
<1>1. CASE Fire(w) \/ LeavePage(w)
  BY <1>1, FlushKeeps DEF Fire, LeavePage
<1>2. CASE OpenTimeline(w)
  <2>1. page' \in [Writers -> Snapshots] /\ saved' \in Snapshots /\ phase' \in [Writers -> Phases]
    BY <1>2 DEF OpenTimeline, VInvariant, Typed
  <2>2. page[w] \in Snapshots
    BY AtWriter
  <2> QED
    BY <1>2, <2>1, <2>2, CaptureKeeps DEF OpenTimeline, Capture
<1> QED
  BY <1>1, <1>2, EditKeeps, RestoreKeeps, LoadKeeps DEF Stay

\* Nothing happens.
LEMMA VersionStutters ==
    ASSUME VInvariant, UNCHANGED vars
    PROVE  VInvariant'
<1>1. UNCHANGED <<disk, chain>> /\ saved' = saved /\ page' = page /\ phase' = phase
  BY DEF vars, disk, chain
<1>2. page' \in [Writers -> Snapshots] /\ saved' \in Snapshots /\ phase' \in [Writers -> Phases]
  BY <1>1 DEF VInvariant, Typed
<1> QED
  BY <1>1, <1>2, StillKeeps

\* The steps of both specifications.
LEMMA VersionSteps ==
    VInvariant /\ ([Next]_vars \/ [CrowdNext]_vars) => VInvariant'
<1> SUFFICES ASSUME VInvariant, [Next]_vars \/ [CrowdNext]_vars PROVE VInvariant'
  OBVIOUS
<1>1. ASSUME NEW w \in Writers, Stay(w) \/ Leave(w) PROVE VInvariant'
  BY <1>1, StayKeeps, LeaveKeeps
<1>2. ASSUME NEW w \in Writers, Stay(w) \/ Crash(w) \/ Unwritten(w) \/ CrashAppending(w) \/ CrashRewriting(w)
      PROVE  VInvariant'
  BY <1>2, StayKeeps, LeaveKeeps, UnwrittenKeeps, CrashAppendingKeeps, CrashRewritingKeeps DEF Leave
<1> QED
  BY <1>1, <1>2, VersionStutters DEF Next, CrowdNext

\* An open chain shows its versions as they were recorded.
LEMMA OpenChain ==
    ASSUME VInvariant, NEW w \in Writers
    PROVE  /\ OpenEntries(w) \in Seq(Es) /\ Chain(OpenEntries(w)) /\ ToSet(OpenEntries(w)) \subseteq All
           /\ Sound(ToSet(OpenEntries(w)), recorded) /\ recorded \in Nat
<1>1. /\ entries[w] \in Seq(Es) /\ Chain(entries[w]) /\ ToSet(entries[w]) \subseteq All
      /\ Sound(All, recorded) /\ recorded \in Nat
  BY AtWriter
<1>2. <<>> \in Seq(Es) /\ Chain(<<>>) /\ ToSet(<<>>) \subseteq All
  BY DEF Chain, ToSet
<1>3. OpenEntries(w) = entries[w] \/ OpenEntries(w) = <<>>
  BY DEF OpenEntries
<1>4. OpenEntries(w) \in Seq(Es) /\ Chain(OpenEntries(w)) /\ ToSet(OpenEntries(w)) \subseteq All
  BY <1>1, <1>2, <1>3
<1> QED
  BY <1>1, <1>4, SoundFewer

\* Sound versions that are chained are rebuilt as the page was.
LEMMA VersionsOfInvariant == VInvariant => VersionsKeepTheirNodes
<1> SUFFICES ASSUME VInvariant, NEW w \in Writers, NEW i \in DOMAIN OpenEntries(w)
             PROVE  ToSet(Reconstruct(OpenEntries(w), i)) = ToSet(OpenEntries(w)[i].shows)
  BY DEF VersionsKeepTheirNodes
<1> DEFINE es == OpenEntries(w)
<1>1. es \in Seq(Es) /\ Chain(es) /\ Sound(ToSet(es), recorded) /\ recorded \in Nat /\ i \in DOMAIN es
  BY OpenChain
<1> HIDE DEF es
<1>2. ToSet(Reconstruct(es, i)) = ToSet(es[i].shows)
  BY <1>1, ReconstructLemma
<1> QED
  BY <1>2 DEF es

\* Every version the timeline offers has the nodes it was recorded with, however
\* the lines of the writers mix and whichever are lost, cut or torn.
THEOREM VersionsKept == CrowdSpec => []VersionsKeepTheirNodes
<1>1. Init => VInvariant
  BY VersionInit
<1>2. VInvariant /\ [CrowdNext]_vars => VInvariant'
  BY VersionSteps
<1>3. VInvariant => VersionsKeepTheirNodes
  BY VersionsOfInvariant
<1> QED
  BY <1>1, <1>2, <1>3, PTL DEF CrowdSpec

-----------------------------------------------------------------------------
(* One window at a time: the chain is the log.  *)

\* What the chain of a writer is, by how far its load has got.
Follows(at, es, lines) ==
  /\ at \in {"closed", "reading"} => es = <<>>
  /\ at \in {"adopting", "open"} => es = lines
  /\ at = "rewriting" => es = Compact(lines)

Level == /\ ending = "newline" /\ Chain(log)
         /\ \A w \in Writers : Follows(phase[w], entries[w], log)

\* What a capture makes of a chain.
Grown(es, fs) == fs = es \/ \E e \in Es : fs = Append(es, e) /\ Chain(fs)

\* A page that is captured is a version from then on, and none is forgotten.
LEMMA KeptLemma ==
    ASSUME NEW h, NEW S, Good(h, S), NEW nodes \in Snapshots, NEW g \in Captures(h, nodes)
    PROVE  /\ \E T : S \subseteq T /\ Good(g, T)
           /\ ToSet(h.entries) \subseteq ToSet(g.entries)
           /\ \E e \in ToSet(g.entries) : ToSet(e.shows) = ToSet(nodes)
<1>1. h \in Histories
  BY DEF Good
<1> DEFINE es == h.entries
<1>2. es \in Seq(Es)
  BY <1>1, HistoryParts
<1>3. CASE g = h /\ es # <<>> /\ h.tail = nodes
  <2>1. ToSet(nodes) = ToSet(Last(es).shows)
    BY <1>3 DEF Good, Fits
  <2> HIDE DEF es
  <2>2. Last(es) \in ToSet(es)
    BY <1>2, <1>3, LastIn
  <2> QED
    BY <1>3, <2>1, <2>2 DEF es
<1>4. ASSUME NEW e, Made(h, nodes, e), g = Recorded(h, e), Good(g, S \cup {e})
      PROVE  /\ ToSet(es) \subseteq ToSet(g.entries)
             /\ \E f \in ToSet(g.entries) : ToSet(f.shows) = ToSet(nodes)
  <2>1. e \in Es /\ e.shows = nodes
    BY <1>4 DEF Made
  <2>2. g.entries = Append(es, e)
    BY <1>4 DEF Recorded
  <2> HIDE DEF es
  <2>3. ToSet(Append(es, e)) = ToSet(es) \cup {e}
    BY <1>2, <2>1, AppendSet
  <2> QED
    BY <2>1, <2>2, <2>3
<1>5. \/ g = h /\ es # <<>> /\ h.tail = nodes
      \/ \E e : Made(h, nodes, e) /\ g = Recorded(h, e) /\ Good(g, S \cup {e})
  BY CaptureLemma
<1>6. \E T : S \subseteq T /\ Good(g, T)
  BY CaptureGood
<1> QED
  BY <1>3, <1>4, <1>5, <1>6

\* The line that is added is the entry that is.
LEMMA LevelCapture ==
    ASSUME NEW h, NEW S, Good(h, S), h.entries = h.lines, h.ending = "newline",
           NEW nodes \in Snapshots, NEW g \in Captures(h, nodes)
    PROVE  g.entries = g.lines /\ g.ending = "newline" /\ Grown(h.entries, g.entries)
<1>1. h \in Histories
  BY DEF Good
<1>2. CASE g = h
  BY <1>2 DEF Grown
<1>3. ASSUME NEW e, Made(h, nodes, e), g = Recorded(h, e), Good(g, S \cup {e})
      PROVE  g.entries = g.lines /\ g.ending = "newline" /\ Grown(h.entries, g.entries)
  <2>1. e \in Es
    BY <1>3 DEF Made
  <2>2. g.entries = Append(h.entries, e) /\ g.lines = Appended(h, e) /\ g.ending = "newline"
    BY <1>3 DEF Recorded
  <2>3. Appended(h, e) = Append(h.lines, e)
    BY <1>1, <2>1, AppendedLemma
  <2>4. Chain(g.entries)
    BY <1>3 DEF Good
  <2> QED
    BY <2>1, <2>2, <2>3, <2>4 DEF Grown
<1> QED
  BY <1>2, <1>3, CaptureLemma

\* Steps of the one writer that is there.
LEMMA LevelSteps ==
    ASSUME VInvariant, Level, NEW w \in Writers, Alone(w), NEW p, NEW es,
           phase' = [phase EXCEPT ![w] = p], entries' = [entries EXCEPT ![w] = es],
           ending' = "newline", Chain(log'), Follows(p, es, log')
    PROVE  Level'
<1>1. phase \in [Writers -> Phases] /\ entries \in [Writers -> Seq(Es)]
  BY DEF VInvariant, Typed
<1>2. ASSUME NEW v \in Writers PROVE Follows(phase'[v], entries'[v], log')
  <2>1. CASE v = w
    BY <1>1, <2>1
  <2>2. CASE v # w
    <3>1. phase'[v] = "closed" /\ entries'[v] = entries[v] /\ entries[v] = <<>>
      BY <1>1, <2>2 DEF Alone, Level, Follows
    <3> QED
      BY <3>1 DEF Follows
  <2> QED
    BY <2>1, <2>2
<1>3. Chain(log)'
  BY DEF Chain
<1>4. (\A v \in Writers : Follows(phase[v], entries[v], log))'
  BY <1>2 DEF Follows, Compact
<1> QED
  BY <1>3, <1>4 DEF Level

\* Of a writer whose log is there.
LEMMA AtLevel ==
    ASSUME VInvariant, Level, NEW w \in Writers, phase[w] \in {"adopting", "open"}
    PROVE  entries[w] = log /\ History(w).entries = History(w).lines /\ History(w).ending = "newline"
<1>1. entries[w] = log /\ ending = "newline"
  BY DEF Level, Follows
<1> QED
  BY <1>1 DEF History

\* A capture of that writer.
LEMMA CaptureLevel ==
    ASSUME VInvariant, Level, NEW w \in Writers, Alone(w), phase[w] \in {"adopting", "open"},
           Capture(w), phase' = [phase EXCEPT ![w] = "open"]
    PROVE  Level' /\ Grown(entries[w], entries'[w])
<1> DEFINE h == History(w)
           nodes == page[w]
<1>1. Good(h, All) /\ nodes \in Snapshots
  BY AtWriter
<1>2. h.entries = h.lines /\ h.ending = "newline" /\ h.entries = entries[w]
  BY AtLevel DEF History
<1>3. PICK g \in Captures(h, nodes) : Becomes(w, g)
  BY DEF Capture
<1> HIDE DEF h, nodes
<1>4. g.entries = g.lines /\ g.ending = "newline" /\ Grown(h.entries, g.entries)
  BY <1>1, <1>2, <1>3, LevelCapture
<1>5. Chain(g.entries)
  BY <1>1, KeptLemma DEF Good
<1> DEFINE es == g.entries
<1>6. entries' = [entries EXCEPT ![w] = es] /\ log' = es /\ ending' = "newline"
  BY <1>3, <1>4 DEF Becomes
<1>7. Chain(es) /\ Grown(entries[w], es)
  BY <1>2, <1>4, <1>5
<1> HIDE DEF es
<1>8. Follows("open", es, log')
  BY <1>6 DEF Follows
<1>9. Level'
  BY <1>6, <1>7, <1>8, LevelSteps
<1>10. entries'[w] = es
  BY <1>6 DEF VInvariant, Typed
<1> QED
  BY <1>7, <1>9, <1>10

\* A step that leaves the log, the chains and the load alone.
LEMMA StillLevel ==
    ASSUME Level, UNCHANGED <<disk, chain, phase>>
    PROVE  Level'
BY DEF Level, disk, chain, Chain, Follows, Compact

\* VersionHistory::flush.
LEMMA FlushLevel ==
    ASSUME VInvariant, Level, NEW w \in Writers, Alone(w), Flush(w), UNCHANGED phase
    PROVE  Level' /\ Grown(OpenEntries(w), OpenEntries(w)')
<1>1. phase \in [Writers -> Phases]
  BY DEF VInvariant, Typed
<1>2. OpenEntries(w)' = IF phase'[w] = "open" THEN entries'[w] ELSE <<>>
  BY DEF OpenEntries
<1>3. CASE phase[w] = "open" /\ Capture(w)
  <2>1. phase' = [phase EXCEPT ![w] = "open"]
    BY <1>1, <1>3
  <2>2. Level' /\ Grown(entries[w], entries'[w])
    BY <1>3, <2>1, CaptureLevel
  <2>3. OpenEntries(w) = entries[w] /\ OpenEntries(w)' = entries'[w]
    BY <1>2, <1>3 DEF OpenEntries
  <2> QED
    BY <2>2, <2>3
<1>4. CASE UNCHANGED <<disk, chain>>
  <2>1. Level'
    BY <1>4, StillLevel
  <2>2. OpenEntries(w)' = OpenEntries(w)
    BY <1>2, <1>4 DEF OpenEntries, chain
  <2> QED
    BY <2>1, <2>2 DEF Grown
<1> QED
  BY <1>3, <1>4 DEF Flush

\* restore_version.
LEMMA RestoreLevel ==
    ASSUME VInvariant, Level, NEW w \in Writers, Alone(w), NEW i \in 1..MaxVersions, Restore(w, i)
    PROVE  Level' /\ \E e \in ToSet(entries'[w]) : ToSet(e.shows) = ToSet(page[w])
<1> DEFINE nodes == Reconstruct(entries[w], i)
           h == History(w)
           now == page[w]
<1>1. i \in DOMAIN entries[w] /\ phase[w] = "open" /\ UNCHANGED phase
  BY DEF Restore
<1>2. nodes \in Snapshots
  BY <1>1, VersionIsPage
<1>3. Good(h, All) /\ now \in Snapshots /\ h.entries = h.lines /\ h.ending = "newline"
  BY <1>1, AtWriter, AtLevel
<1>4. PICK kept \in Captures(h, now) : \E restored \in Captures(kept, nodes) : Becomes(w, restored)
  BY DEF Restore
<1>5. PICK restored \in Captures(kept, nodes) : Becomes(w, restored)
  BY <1>4
<1> HIDE DEF nodes, h, now
<1>6. /\ \E T : All \subseteq T /\ Good(kept, T)
      /\ \E e \in ToSet(kept.entries) : ToSet(e.shows) = ToSet(now)
      /\ kept.entries = kept.lines /\ kept.ending = "newline"
  BY <1>3, KeptLemma, LevelCapture
<1>7. PICK T : All \subseteq T /\ Good(kept, T)
  BY <1>6
<1>8. /\ \E U : T \subseteq U /\ Good(restored, U)
      /\ ToSet(kept.entries) \subseteq ToSet(restored.entries)
      /\ restored.entries = restored.lines /\ restored.ending = "newline"
  BY <1>2, <1>6, <1>7, KeptLemma, LevelCapture
<1> DEFINE es == restored.entries
<1>9. /\ entries' = [entries EXCEPT ![w] = es] /\ log' = es /\ ending' = "newline"
  BY <1>5, <1>8 DEF Becomes
<1>10. Chain(es)
  BY <1>8 DEF Good
<1>11. \E e \in ToSet(es) : ToSet(e.shows) = ToSet(now)
  BY <1>6, <1>8
<1> HIDE DEF es
<1>12. Follows("open", es, log')
  BY <1>9 DEF Follows
<1>13. phase' = [phase EXCEPT ![w] = "open"]
  BY <1>1 DEF VInvariant, Typed
<1>14. Level'
  BY <1>9, <1>10, <1>12, <1>13, LevelSteps
<1>15. entries'[w] = es
  BY <1>9 DEF VInvariant, Typed
<1> QED
  BY <1>11, <1>14, <1>15 DEF now

\* The load.
LEMMA LoadLevel ==
    ASSUME VInvariant, Level, NEW w \in Writers, Alone(w), Open(w) \/ Read(w) \/ Rewrite(w)
    PROVE  Level'
<1>1. /\ phase \in [Writers -> Phases] /\ entries \in [Writers -> Seq(Es)] /\ log \in Seq(Es)
      /\ recorded \in Nat /\ Sound(All, recorded) /\ ToSet(log) \subseteq All
      /\ Chain(log) /\ ending = "newline"
  BY DEF VInvariant, Typed, Level, All
<1>2. CASE Open(w)
  <2>1. /\ phase' = [phase EXCEPT ![w] = "reading"] /\ entries' = entries /\ log' = log /\ ending' = ending
        /\ entries[w] = <<>>
    BY <1>2 DEF Open, disk, chain, Level, Follows
  <2>2. entries' = [entries EXCEPT ![w] = <<>>]
    BY <1>1, <2>1
  <2>3. Follows("reading", <<>>, log') /\ Chain(log') /\ ending' = "newline"
    BY <1>1, <2>1 DEF Follows
  <2> QED
    BY <2>1, <2>2, <2>3, LevelSteps
<1>3. CASE Read(w)
  <2>1. Sound(ToSet(log), recorded)
    BY <1>1, SoundFewer
  <2>2. Verified(log).entries = log
    BY <1>1, <2>1, ChainIsRead
  <2> DEFINE es == Compact(log)
             p == IF es = log THEN "adopting" ELSE "rewriting"
  <2>3. /\ phase' = [phase EXCEPT ![w] = p] /\ entries' = [entries EXCEPT ![w] = es]
        /\ log' = log /\ ending' = ending
    BY <1>3, <2>2 DEF Read, disk
  <2>4. Follows(p, es, log)
    BY DEF Follows
  <2> HIDE DEF p, es
  <2>5. Follows(p, es, log') /\ Chain(log') /\ ending' = "newline"
    BY <1>1, <2>3, <2>4
  <2> QED
    BY <2>3, <2>5, LevelSteps
<1>4. CASE Rewrite(w)
  <2> DEFINE es == entries[w]
  <2>1. /\ phase' = [phase EXCEPT ![w] = "adopting"] /\ entries' = entries /\ log' = es /\ ending' = "newline"
    BY <1>4 DEF Rewrite, chain
  <2>2. Chain(es) /\ entries' = [entries EXCEPT ![w] = es]
    BY <1>1, <2>1, AtWriter
  <2> HIDE DEF es
  <2>3. Follows("adopting", es, log')
    BY <2>1 DEF Follows
  <2> QED
    BY <2>1, <2>2, <2>3, LevelSteps
<1> QED
  BY <1>2, <1>3, <1>4

\* The canvas goes away, once its log is there.
LEMMA LeaveLevel ==
    ASSUME VInvariant, Level, NEW w \in Writers, Alone(w), phase[w] = "open", Leave(w)
    PROVE  Level'
<1> DEFINE h == History(w)
           nodes == page[w]
<1>1. /\ Good(h, All) /\ nodes \in Snapshots /\ h.entries = h.lines /\ h.ending = "newline"
      /\ Chain(log) /\ ending = "newline"
  BY AtWriter, AtLevel DEF Level
<1>2. Drop(w)
  BY DEF Leave, Close, Crash
<1>3. phase' = [phase EXCEPT ![w] = "closed"] /\ entries' = [entries EXCEPT ![w] = <<>>]
  BY <1>2 DEF Drop
<1>4. Follows("closed", <<>>, log')
  BY DEF Follows
<1>5. \/ UNCHANGED disk
      \/ \E g \in Captures(h, nodes) : log' = g.lines /\ ending' = g.ending
  BY DEF Leave, Close, Crash
<1> HIDE DEF h, nodes
<1>6. CASE UNCHANGED disk
  BY <1>1, <1>3, <1>4, <1>6, LevelSteps DEF disk
<1>7. ASSUME NEW g \in Captures(h, nodes), log' = g.lines, ending' = g.ending
      PROVE  Level'
  <2>1. g.entries = g.lines /\ g.ending = "newline" /\ Chain(g.entries)
    BY <1>1, KeptLemma, LevelCapture DEF Good
  <2> QED
    BY <1>3, <1>4, <1>7, <2>1, LevelSteps
<1> QED
  BY <1>5, <1>6, <1>7

-----------------------------------------------------------------------------
(* The panel.  *)

\* An old version on the screen is the one that is selected, and not the present.
PreviewAt(id, copy, es) ==
  copy # Live => \E i \in DOMAIN es : es[i].id = id /\ i # Len(es) /\ copy = Reconstruct(es, i)

PInvariant == /\ VInvariant /\ Level
              /\ selected \in [Writers -> Nat] /\ preview \in [Writers -> Snapshots \cup {Live}]
              /\ \A w \in Writers : PreviewAt(selected[w], preview[w], OpenEntries(w))

\* What the panel selects has an id.
LEMMA PresentNat == VInvariant => \A w \in Writers : Present(OpenEntries(w)) \in Nat
<1> SUFFICES ASSUME VInvariant, NEW w \in Writers PROVE Present(OpenEntries(w)) \in Nat
  OBVIOUS
<1> DEFINE es == OpenEntries(w)
<1>1. es \in Seq(Es)
  BY OpenChain
<1> HIDE DEF es
<1>2. es # <<>> => Last(es) \in Es
  BY <1>1, LastIn
<1>3. es # <<>> => Last(es).id \in Nat
  BY <1>2 DEF Es
<1> QED
  BY <1>3 DEF Present, es

\* The same after a step.
LEMMA NextPresentNat == VInvariant' => (\A w \in Writers : Present(OpenEntries(w)) \in Nat)'
BY PresentNat, PTL

\* What was on the screen stays what it was when a version is added.
LEMMA PreviewGrown ==
    ASSUME NEW id \in Nat, NEW copy, NEW es \in Seq(Es), NEW fs, Chain(es), Grown(es, fs), PreviewAt(id, copy, es)
    PROVE  PreviewAt(id, copy, fs)
<1>1. CASE fs = es
  BY <1>1
<1>2. ASSUME NEW e \in Es, fs = Append(es, e), Chain(fs) PROVE PreviewAt(id, copy, fs)
  <2> SUFFICES ASSUME copy # Live
               PROVE  \E i \in DOMAIN fs : fs[i].id = id /\ i # Len(fs) /\ copy = Reconstruct(fs, i)
    BY DEF PreviewAt
  <2>1. PICK i \in DOMAIN es : es[i].id = id /\ copy = Reconstruct(es, i)
    BY DEF PreviewAt
  <2>2. i \in DOMAIN fs /\ fs[i] = es[i] /\ i # Len(fs)
    BY <1>2
  <2>3. Reconstruct(Append(es, e), i) = Reconstruct(es, i)
    BY <1>2, <2>1, ReconstructAgree
  <2> QED
    BY <1>2, <2>1, <2>2, <2>3
<1> QED
  BY <1>1, <1>2 DEF Grown

\* A version has an id, so that something is selected.
LEMMA PreviewSelects ==
    ASSUME PInvariant, NEW w \in Writers, preview[w] # Live
    PROVE  selected[w] # 0 /\ phase[w] = "open"
<1> DEFINE es == OpenEntries(w)
<1>1. Sound(ToSet(es), recorded) /\ es \in Seq(Es)
  BY OpenChain DEF PInvariant
<1>2. PICK i \in DOMAIN es : es[i].id = selected[w]
  BY DEF PInvariant, PreviewAt
<1>3. es = <<>> \/ phase[w] = "open"
  BY DEF OpenEntries
<1> HIDE DEF es
<1>4. es[i] \in ToSet(es) /\ es # <<>>
  BY <1>1 DEF ToSet
<1>5. \A n \in 1..recorded : n # 0
  BY DEF PInvariant, VInvariant, Typed
<1>6. es[i].id \in 1..recorded
  BY <1>1, <1>4 DEF Sound
<1> QED
  BY <1>2, <1>3, <1>4, <1>5, <1>6

\* A step of the one window there is, as far as the panel goes.
LEMMA PanelSteps ==
    ASSUME PInvariant, NEW w \in Writers, Alone(w), VInvariant', Level',
           NEW id \in Nat, NEW copy \in Snapshots \cup {Live},
           selected' = [selected EXCEPT ![w] = id], preview' = [preview EXCEPT ![w] = copy],
           PreviewAt(id, copy, OpenEntries(w)'),
           \A v \in Writers \ {w} : phase'[v] = phase[v]
    PROVE  PInvariant'
<1>1. selected' \in [Writers -> Nat] /\ preview' \in [Writers -> Snapshots \cup {Live}]
  BY DEF PInvariant
<1>2. ASSUME NEW v \in Writers PROVE PreviewAt(selected'[v], preview'[v], OpenEntries(v)')
  <2>1. CASE v = w
    BY <2>1 DEF PInvariant
  <2>2. CASE v # w
    <3>1. phase[v] = "closed" /\ preview'[v] = preview[v]
      BY <2>2 DEF Alone, PInvariant
    <3>2. preview[v] = Live
      BY <3>1, PreviewSelects
    <3> QED
      BY <3>1, <3>2 DEF PreviewAt
  <2> QED
    BY <2>1, <2>2
<1>3. (\A v \in Writers : PreviewAt(selected[v], preview[v], OpenEntries(v)))'
  BY <1>2 DEF PreviewAt
<1> QED
  BY <1>1, <1>3 DEF PInvariant

\* The live page is put on the screen.
LEMMA LiveSteps ==
    ASSUME PInvariant, NEW w \in Writers, Alone(w), VInvariant', Level',
           NEW id \in Nat, Shows(w, id, Live), \A v \in Writers \ {w} : phase'[v] = phase[v]
    PROVE  PInvariant'
<1>1. PreviewAt(id, Live, OpenEntries(w)')
  BY DEF PreviewAt
<1>2. selected' = [selected EXCEPT ![w] = id] /\ preview' = [preview EXCEPT ![w] = Live]
  BY DEF Shows
<1> QED
  BY <1>1, <1>2, PanelSteps

\* What was on the screen stays there, and versions are added under it.
LEMMA GrowSteps ==
    ASSUME PInvariant, NEW w \in Writers, Alone(w), VInvariant', Level', NEW id \in Nat,
           selected' = [selected EXCEPT ![w] = id], selected[w] # 0 => id = selected[w], preview' = preview,
           preview[w] # Live => Grown(OpenEntries(w), OpenEntries(w)'),
           \A v \in Writers \ {w} : phase'[v] = phase[v]
    PROVE  PInvariant'
<1> DEFINE es == OpenEntries(w)
           fs == OpenEntries(w)'
           copy == preview[w]
<1>1. es \in Seq(Es) /\ Chain(es) /\ selected[w] \in Nat /\ PreviewAt(selected[w], copy, es)
  BY OpenChain DEF PInvariant
<1>2. preview' = [preview EXCEPT ![w] = copy] /\ copy \in Snapshots \cup {Live}
  BY DEF PInvariant
<1>3. PreviewAt(id, copy, fs)
  <2>1. CASE copy = Live
    BY <2>1 DEF PreviewAt
  <2>2. CASE copy # Live
    <3>1. id = selected[w] /\ Grown(es, fs)
      BY <2>2, PreviewSelects
    <3> HIDE DEF es, fs, copy
    <3> QED
      BY <1>1, <3>1, PreviewGrown
  <2> QED
    BY <2>1, <2>2
<1> HIDE DEF copy
<1> QED
  BY <1>2, <1>3, PanelSteps DEF fs

\* What Observed selects.
LEMMA ObservedSelects ==
    ASSUME PInvariant, VInvariant', NEW w \in Writers, Observed(w)
    PROVE  /\ preview' = preview
           /\ \E id \in Nat : selected' = [selected EXCEPT ![w] = id] /\ (selected[w] # 0 => id = selected[w])
<1> DEFINE now == Present(OpenEntries(w))'
           id == IF w \in opened /\ selected[w] = 0 THEN now ELSE selected[w]
<1>1. now \in Nat /\ selected[w] \in Nat
  BY NextPresentNat DEF PInvariant
<1>2. preview' = preview /\ selected' = [selected EXCEPT ![w] = id]
  BY DEF Observed
<1> HIDE DEF now
<1>3. id \in Nat /\ (selected[w] # 0 => id = selected[w])
  BY <1>1
<1> QED
  BY <1>2, <1>3

\* The steps of the log below are the steps of a writer.
LEMMA VersionNext ==
    ASSUME VInvariant, NEW w \in Writers, Stay(w) \/ Leave(w)
    PROVE  VInvariant'
BY StayKeeps, LeaveKeeps

-----------------------------------------------------------------------------
(* The steps of the panel.  *)

\* Opening it.
LEMMA OpenPanelKeeps ==
    ASSUME PInvariant, NEW w \in Writers, Alone(w), OpenPanel(w)
    PROVE  PInvariant'
<1>1. VInvariant /\ Level /\ phase \in [Writers -> Phases]
  BY DEF PInvariant, VInvariant, Typed
<1>2. ShowsPresent(w)
  BY DEF OpenPanel
<1>3. CASE OpenTimeline(w)
  <2>1. VInvariant'
    BY <1>1, <1>3, VersionNext DEF Stay
  <2>2. phase[w] = "open" /\ Capture(w) /\ phase' = phase
    BY <1>3 DEF OpenTimeline, Capture
  <2>3. phase' = [phase EXCEPT ![w] = "open"]
    BY <1>1, <2>2
  <2>4. Level'
    BY <1>1, <2>2, <2>3, CaptureLevel
  <2>5. Present(OpenEntries(w))' \in Nat
    BY <2>1, NextPresentNat
  <2> QED
    BY <1>2, <2>1, <2>2, <2>4, <2>5, LiveSteps DEF ShowsPresent
<1>4. CASE UNCHANGED vars
  <2>1. VInvariant'
    BY <1>1, <1>4, VersionStutters
  <2>2. UNCHANGED <<disk, chain, phase>>
    BY <1>4 DEF vars, disk, chain
  <2>3. Level'
    BY <1>1, <2>2, StillLevel
  <2>4. Present(OpenEntries(w))' \in Nat
    BY <2>1, NextPresentNat
  <2> QED
    BY <1>2, <2>1, <2>2, <2>3, <2>4, LiveSteps DEF ShowsPresent
<1> QED
  BY <1>3, <1>4 DEF OpenPanel

\* What the panel does alone.
LEMMA ViewKeeps ==
    ASSUME PInvariant, NEW w \in Writers, Alone(w),
           ClosePanel(w) \/ CloseCard(w) \/ \E i \in 1..MaxVersions : Select(w, i)
    PROVE  PInvariant'
<1>1. UNCHANGED vars
  BY DEF ClosePanel, CloseCard, Select
<1>2. VInvariant'
  BY <1>1, VersionStutters DEF PInvariant
<1>3. UNCHANGED <<disk, chain, phase>>
  BY <1>1 DEF vars, disk, chain
<1>4. Level'
  BY <1>3, StillLevel DEF PInvariant
<1>5. CASE ClosePanel(w) \/ CloseCard(w)
  <2>1. Shows(w, 0, Live)
    BY <1>5 DEF ClosePanel, CloseCard
  <2> QED
    BY <1>2, <1>3, <1>4, <2>1, LiveSteps
<1>6. ASSUME NEW i \in 1..MaxVersions, Select(w, i) PROVE PInvariant'
  <2> DEFINE es == OpenEntries(w)
             id == es[i].id
             copy == IF i = Len(es) THEN Live ELSE Reconstruct(es, i)
  <2>1. i \in DOMAIN es /\ Shows(w, id, copy)
    BY <1>6 DEF Select
  <2>2. es \in Seq(Es) /\ Chain(es) /\ Sound(ToSet(es), recorded) /\ recorded \in Nat
    BY OpenChain DEF PInvariant
  <2>3. OpenEntries(w)' = es
    BY <1>3 DEF OpenEntries, chain
  <2> HIDE DEF es
  <2>4. Reconstruct(es, i) \in Snapshots
    BY <2>1, <2>2, ReconstructLemma
  <2>5. copy \in Snapshots \cup {Live}
    BY <2>4
  <2>6. es[i] \in Es
    BY <2>1, <2>2
  <2>7. id \in Nat
    BY <2>6 DEF Es
  <2>8. PreviewAt(id, copy, es)
    BY <2>1 DEF PreviewAt
  <2> HIDE DEF id, copy
  <2>9. selected' = [selected EXCEPT ![w] = id] /\ preview' = [preview EXCEPT ![w] = copy]
    BY <2>1 DEF Shows
  <2>10. PreviewAt(id, copy, OpenEntries(w)')
    BY <2>3, <2>8
  <2> QED
    BY <1>2, <1>3, <1>4, <2>5, <2>7, <2>9, <2>10, PanelSteps
<1> QED
  BY <1>5, <1>6

\* A version is restored.
LEMMA RestoreSelectedKeeps ==
    ASSUME PInvariant, NEW w \in Writers, Alone(w), NEW i \in 1..MaxVersions, RestoreSelected(w, i)
    PROVE  PInvariant'
<1>1. Restore(w, i) /\ ShowsPresent(w) /\ phase' = phase
  BY DEF RestoreSelected, Restore
<1>2. VInvariant'
  BY <1>1, RestoreKeeps DEF PInvariant
<1>3. Level'
  BY <1>1, RestoreLevel DEF PInvariant
<1>4. Present(OpenEntries(w))' \in Nat
  BY <1>2, NextPresentNat
<1> QED
  BY <1>1, <1>2, <1>3, <1>4, LiveSteps DEF ShowsPresent

\* The page changes under it.
LEMMA EditPanelKeeps ==
    ASSUME PInvariant, NEW w \in Writers, Alone(w), Edit(w), UNCHANGED panel
    PROVE  PInvariant'
<1>1. VInvariant'
  BY EditKeeps DEF PInvariant
<1>2. UNCHANGED <<disk, chain, phase>>
  BY DEF Edit
<1>3. Level'
  BY <1>2, StillLevel DEF PInvariant
<1>4. OpenEntries(w)' = OpenEntries(w)
  BY <1>2 DEF OpenEntries, chain
<1>5. /\ preview' = preview /\ selected' = [selected EXCEPT ![w] = selected[w]] /\ selected[w] \in Nat
  BY DEF panel, PInvariant
<1> QED
  BY <1>1, <1>2, <1>3, <1>4, <1>5, GrowSteps DEF Grown

\* The debounce fires.
LEMMA RecordsKeeps ==
    ASSUME PInvariant, NEW w \in Writers, Alone(w), Records(w)
    PROVE  PInvariant'
<1>1. Flush(w) /\ Observed(w) /\ UNCHANGED <<saved, page, phase>>
  BY DEF Records, Fire
<1>2. VInvariant'
  BY <1>1, FlushKeeps DEF PInvariant
<1>3. Level' /\ Grown(OpenEntries(w), OpenEntries(w)')
  BY <1>1, FlushLevel DEF PInvariant
<1>4. /\ preview' = preview
      /\ \E id \in Nat : selected' = [selected EXCEPT ![w] = id] /\ (selected[w] # 0 => id = selected[w])
  BY <1>1, <1>2, ObservedSelects
<1> QED
  BY <1>1, <1>2, <1>3, <1>4, GrowSteps

\* The log is there.
LEMMA ArrivesKeeps ==
    ASSUME PInvariant, NEW w \in Writers, Alone(w), LogArrives(w)
    PROVE  PInvariant'
<1>1. VInvariant /\ Level /\ phase \in [Writers -> Phases] /\ page[w] \in Snapshots
  BY AtWriter DEF PInvariant, VInvariant, Typed
<1>2. phase[w] = "adopting" /\ phase' = [phase EXCEPT ![w] = "open"] /\ Observed(w) /\ saved' = saved /\ page' = page
  BY DEF LogArrives, Arrive
<1>3. page' \in [Writers -> Snapshots] /\ saved' \in Snapshots /\ phase' \in [Writers -> Phases]
  BY <1>1, <1>2 DEF VInvariant, Typed, Phases
<1>4. Capture(w) \/ UNCHANGED <<disk, chain>>
  BY DEF LogArrives, Arrive
<1>5. VInvariant' /\ Level'
  <2>1. CASE Capture(w)
    <3>1. VInvariant'
      BY <1>1, <1>3, <2>1, CaptureKeeps DEF Capture
    <3>2. Level'
      BY <1>1, <1>2, <2>1, CaptureLevel
    <3> QED
      BY <3>1, <3>2
  <2>2. CASE UNCHANGED <<disk, chain>>
    <3>1. VInvariant'
      BY <1>1, <1>3, <2>2, StillKeeps
    <3> DEFINE es == entries[w]
    <3>2. entries' = [entries EXCEPT ![w] = es] /\ ending' = "newline" /\ log' = log /\ es = log /\ Chain(log)
      BY <1>1, <1>2, <2>2, AtLevel DEF disk, chain, Level, VInvariant, Typed
    <3> HIDE DEF es
    <3>3. Follows("open", es, log') /\ Chain(log')
      BY <3>2 DEF Follows
    <3>4. Level'
      BY <1>1, <1>2, <3>2, <3>3, LevelSteps
    <3> QED
      BY <3>1, <3>4
  <2> QED
    BY <1>4, <2>1, <2>2
<1>6. /\ preview' = preview
      /\ \E id \in Nat : selected' = [selected EXCEPT ![w] = id] /\ (selected[w] # 0 => id = selected[w])
  BY <1>2, <1>5, ObservedSelects
<1>7. preview[w] = Live
  BY <1>2, PreviewSelects
<1>8. \A v \in Writers \ {w} : phase'[v] = phase[v]
  BY <1>1, <1>2
<1> QED
  BY <1>5, <1>6, <1>7, <1>8, GrowSteps

\* The page is left.
LEMMA LeavesKeeps ==
    ASSUME PInvariant, NEW w \in Writers, Alone(w), Leaves(w)
    PROVE  PInvariant'
<1>1. Flush(w) /\ UNCHANGED <<saved, page, phase>>
  BY DEF Leaves, LeavePage
<1>2. VInvariant'
  BY <1>1, FlushKeeps DEF PInvariant
<1>3. Level' /\ Grown(OpenEntries(w), OpenEntries(w)')
  BY <1>1, FlushLevel DEF PInvariant
<1>4. CASE ShowsPresent(w)
  <2>1. Present(OpenEntries(w))' \in Nat
    BY <1>2, NextPresentNat
  <2> QED
    BY <1>1, <1>2, <1>3, <1>4, <2>1, LiveSteps DEF ShowsPresent
<1>5. CASE UNCHANGED <<selected, preview>>
  <2>1. preview' = preview /\ selected' = [selected EXCEPT ![w] = selected[w]] /\ selected[w] \in Nat
    BY <1>5 DEF PInvariant
  <2> QED
    BY <1>1, <1>2, <1>3, <2>1, GrowSteps
<1> QED
  BY <1>4, <1>5 DEF Leaves

\* The background load.
LEMMA LoadsKeeps ==
    ASSUME PInvariant, NEW w \in Writers, Alone(w), Loads(w)
    PROVE  PInvariant'
<1>1. Open(w) \/ Read(w) \/ Rewrite(w)
  BY DEF Loads
<1>2. VInvariant'
  BY <1>1, LoadKeeps DEF PInvariant
<1>3. Level'
  BY <1>1, LoadLevel DEF PInvariant
<1>4. preview' = preview /\ selected' = [selected EXCEPT ![w] = selected[w]] /\ selected[w] \in Nat
  BY DEF Loads, panel, PInvariant
<1>5. phase[w] # "open" /\ \E p : phase' = [phase EXCEPT ![w] = p]
  BY <1>1 DEF Open, Read, Rewrite
<1>6. preview[w] = Live
  BY <1>5, PreviewSelects
<1>7. \A v \in Writers \ {w} : phase'[v] = phase[v]
  BY <1>5 DEF PInvariant, VInvariant, Typed
<1> QED
  BY <1>2, <1>3, <1>4, <1>6, <1>7, GrowSteps

\* The window closes.
LEMMA GoesAwayKeeps ==
    ASSUME PInvariant, NEW w \in Writers, Alone(w), GoesAway(w)
    PROVE  PInvariant'
<1>1. phase[w] = "open" /\ Leave(w) /\ Shows(w, 0, Live)
  BY DEF GoesAway
<1>2. VInvariant'
  BY <1>1, LeaveKeeps DEF PInvariant
<1>3. Level'
  BY <1>1, LeaveLevel DEF PInvariant
<1>4. phase' = [phase EXCEPT ![w] = "closed"]
  BY <1>1 DEF Leave, Close, Crash, Drop
<1>5. \A v \in Writers \ {w} : phase'[v] = phase[v]
  BY <1>4 DEF PInvariant, VInvariant, Typed
<1> QED
  BY <1>1, <1>2, <1>3, <1>5, LiveSteps

\* All of them.
LEMMA PanelNextKeeps == PInvariant /\ [PanelNext]_panelVars => PInvariant'
<1> SUFFICES ASSUME PInvariant, [PanelNext]_panelVars PROVE PInvariant'
  OBVIOUS
<1>1. ASSUME NEW w \in Writers, Alone(w), PanelStep(w) PROVE PInvariant'
  BY <1>1, OpenPanelKeeps, ViewKeeps, RestoreSelectedKeeps, EditPanelKeeps, RecordsKeeps, ArrivesKeeps,
     LeavesKeeps, LoadsKeeps, GoesAwayKeeps DEF PanelStep
<1>2. CASE UNCHANGED panelVars
  <2>1. UNCHANGED vars /\ UNCHANGED panel
    BY <1>2 DEF panelVars
  <2>2. VInvariant'
    BY <2>1, VersionStutters DEF PInvariant
  <2>3. UNCHANGED <<disk, chain, phase>>
    BY <2>1 DEF vars, disk, chain
  <2>4. Level'
    BY <2>3, StillLevel DEF PInvariant
  <2>5. UNCHANGED <<selected, preview>> /\ \A w \in Writers : OpenEntries(w)' = OpenEntries(w)
    BY <2>1, <2>3 DEF panel, OpenEntries, chain
  <2>6. (\A w \in Writers : PreviewAt(selected[w], preview[w], OpenEntries(w)))'
    BY <2>5 DEF PInvariant, PreviewAt
  <2> QED
    BY <2>2, <2>4, <2>5, <2>6 DEF PInvariant
<1> QED
  BY <1>1, <1>2 DEF PanelNext

\* The invariant of the panel holds of the first state.
LEMMA PanelInvariantInit == PanelInit => PInvariant
<1> SUFFICES ASSUME PanelInit PROVE PInvariant
  OBVIOUS
<1>1. VInvariant
  BY VersionInit DEF PanelInit
<1>2. Level
  BY DEF PanelInit, Init, Level, Chain, Follows
<1>3. /\ selected = [w \in Writers |-> 0] /\ preview = [w \in Writers |-> Live]
  BY DEF PanelInit
<1>4. \A w \in Writers : PreviewAt(selected[w], preview[w], OpenEntries(w))
  BY <1>3 DEF PreviewAt
<1> QED
  BY <1>1, <1>2, <1>3, <1>4 DEF PInvariant

-----------------------------------------------------------------------------
(* What holds of one window at a time.  *)

\* The invariant of the panel always holds.
LEMMA PanelAlways == PanelSpec => []PInvariant
BY PanelInvariantInit, PanelNextKeeps, PTL DEF PanelSpec

\* The old version on the screen is the one that is selected, and not the present.
THEOREM PreviewSelected == PanelSpec => []PreviewIsSelected
<1>1. PInvariant => PreviewIsSelected
  BY DEF PInvariant, PreviewAt, PreviewIsSelected
<1> QED
  BY <1>1, PanelAlways, PTL

\* The last line of the log is a version of every later load.
THEOREM LastLineRead == PanelSpec => []LastLineIsRead
<1>1. ASSUME VInvariant, Level, log # <<>>
      PROVE  Last(log) \in ToSet(Compact(Verified(log).entries))
  <2>1. log \in Seq(Es) /\ recorded \in Nat /\ Sound(All, recorded) /\ ToSet(log) \subseteq All /\ Chain(log)
    BY <1>1 DEF VInvariant, Typed, All, Level
  <2>2. Sound(ToSet(log), recorded)
    BY <2>1, SoundFewer
  <2>3. Verified(log).entries = log
    BY <2>1, <2>2, ChainIsRead
  <2> DEFINE es == Compact(log)
  <2>4. es \in Seq(Es) /\ es # <<>> /\ Last(es) = Last(log)
    BY <1>1, <2>1, CompactLemma
  <2> HIDE DEF es
  <2>5. Last(es) \in ToSet(es)
    BY <2>4, LastIn
  <2> QED
    BY <2>3, <2>4, <2>5 DEF es
<1>2. PInvariant => LastLineIsRead
  BY <1>1 DEF PInvariant, LastLineIsRead
<1> QED
  BY <1>2, PanelAlways, PTL

\* A step in which a canvas goes away is one of a canvas whose log is there.
LEMMA OnlyOpenCloses ==
    ASSUME PInvariant, PanelNext, NEW w \in Writers, phase[w] # "closed", phase'[w] = "closed"
    PROVE  phase[w] = "open"
<1>1. PICK v \in Writers : Alone(v) /\ PanelStep(v)
  BY DEF PanelNext
<1>2. v = w
  BY <1>1 DEF Alone
<1>3. phase \in [Writers -> Phases]
  BY DEF PInvariant, VInvariant, Typed
<1>4. CASE phase' = phase
  BY <1>4
<1>5. CASE GoesAway(w)
  BY <1>5 DEF GoesAway
<1>6. CASE Loads(w) \/ LogArrives(w)
  <2>1. \E p \in {"reading", "adopting", "rewriting", "open"} : phase' = [phase EXCEPT ![w] = p]
    BY <1>6 DEF Loads, Open, Read, Rewrite, LogArrives, Arrive
  <2>2. phase'[w] # "closed"
    BY <1>3, <2>1
  <2> QED
    BY <2>2
<1>7. phase' = phase \/ GoesAway(w) \/ Loads(w) \/ LogArrives(w)
  <2>1. UNCHANGED vars => phase' = phase
    BY DEF vars
  <2>2. CASE OpenPanel(w) \/ ClosePanel(w) \/ CloseCard(w) \/ \E i \in 1..MaxVersions : Select(w, i)
    BY <2>1, <2>2 DEF OpenPanel, OpenTimeline, ClosePanel, CloseCard, Select
  <2>3. CASE (\E i \in 1..MaxVersions : RestoreSelected(w, i)) \/ Edit(w)
    BY <2>3 DEF RestoreSelected, Restore, Edit
  <2>4. CASE Records(w) \/ Leaves(w)
    BY <2>4 DEF Records, Fire, Leaves, LeavePage
  <2> QED
    BY <1>1, <1>2, <2>2, <2>3, <2>4 DEF PanelStep
<1> QED
  BY <1>4, <1>5, <1>6, <1>7

\* The page a restore replaces, and the one a canvas that goes away held, is a
\* version from then on.
THEOREM WorkKept == PanelSpec => WorkIsKept
<1> DEFINE Kept(w) ==
             /\ (\E i \in 1..MaxVersions : Restore(w, i)) =>
                   \E e \in ToSet(entries'[w]) : ToSet(e.shows) = ToSet(page[w])
             /\ (Close(w) /\ (timer[w] \/ owed[w]) /\ recorded < MaxVersions) =>
                   \E e \in ToSet(log') : ToSet(e.shows) = ToSet(page[w])
<1>1. ASSUME PInvariant, NEW w \in Writers, NEW i \in 1..MaxVersions, Restore(w, i)
      PROVE  \E e \in ToSet(entries'[w]) : ToSet(e.shows) = ToSet(page[w])
  <2>1. Good(History(w), All) /\ page[w] \in Snapshots /\ i \in DOMAIN entries[w]
    BY <1>1, AtWriter DEF PInvariant, Restore
  <2>2. Reconstruct(entries[w], i) \in Snapshots
    BY <1>1, <2>1, VersionIsPage DEF PInvariant
  <2> DEFINE h == History(w)
             now == page[w]
             nodes == Reconstruct(entries[w], i)
  <2>3. PICK kept \in Captures(h, now) : \E restored \in Captures(kept, nodes) : Becomes(w, restored)
    BY <1>1 DEF Restore
  <2>4. PICK restored \in Captures(kept, nodes) : Becomes(w, restored)
    BY <2>3
  <2> HIDE DEF h, now, nodes
  <2>5. /\ \E T : All \subseteq T /\ Good(kept, T)
        /\ \E e \in ToSet(kept.entries) : ToSet(e.shows) = ToSet(now)
    BY <2>1, KeptLemma DEF h, now
  <2>6. ToSet(kept.entries) \subseteq ToSet(restored.entries)
    BY <2>2, <2>5, KeptLemma DEF nodes
  <2>7. entries'[w] = restored.entries
    BY <1>1, <2>4 DEF Becomes, PInvariant, VInvariant, Typed
  <2> QED
    BY <2>5, <2>6, <2>7 DEF now
<1>2. ASSUME PInvariant, PanelNext, NEW w \in Writers, Close(w)
      PROVE  \E e \in ToSet(log') : ToSet(e.shows) = ToSet(page[w])
  <2>1. phase[w] # "closed" /\ phase'[w] = "closed"
    BY <1>2 DEF Close, Drop, PInvariant, VInvariant, Typed
  <2>2. phase[w] = "open"
    BY <1>2, <2>1, OnlyOpenCloses
  <2> DEFINE h == History(w)
             now == page[w]
  <2>3. Good(h, All) /\ now \in Snapshots /\ h.entries = h.lines /\ h.ending = "newline"
    BY <1>2, <2>2, AtWriter, AtLevel DEF PInvariant
  <2>4. PICK g \in Captures(h, now) : log' = g.lines
    BY <1>2, <2>2 DEF Close
  <2> HIDE DEF h, now
  <2>5. /\ \E e \in ToSet(g.entries) : ToSet(e.shows) = ToSet(now)
        /\ g.entries = g.lines
    BY <2>3, KeptLemma, LevelCapture
  <2> QED
    BY <2>4, <2>5 DEF now
<1>3. ASSUME PInvariant, PanelNext, NEW w \in Writers PROVE Kept(w)
  BY <1>1, <1>2, <1>3
<1>4. PInvariant /\ [PanelNext]_panelVars => [\A w \in Writers : Kept(w)]_vars
  BY <1>3 DEF panelVars
<1>5. PInvariant /\ [PanelNext]_panelVars => [\A w \in Writers :
             /\ (\E i \in 1..MaxVersions : Restore(w, i)) =>
                   \E e \in ToSet(entries'[w]) : ToSet(e.shows) = ToSet(page[w])
             /\ (Close(w) /\ (timer[w] \/ owed[w]) /\ recorded < MaxVersions) =>
                   \E e \in ToSet(log') : ToSet(e.shows) = ToSet(page[w])]_vars
  BY <1>4
<1> QED
  BY <1>5, PanelAlways, PTL DEF PanelSpec, WorkIsKept

\* A capture, where the log has been loaded, adds to it and no more.
LEMMA CaptureAdds ==
    ASSUME VInvariant, Level, NEW w \in Writers, phase[w] \in {"adopting", "open"},
           NEW nodes \in Snapshots, NEW g \in Captures(History(w), nodes)
    PROVE  /\ ToSet(log) \subseteq ToSet(g.lines)
           /\ g.entries = g.lines /\ g.ending = "newline"
           /\ \E T : Good(g, T)
<1> DEFINE h == History(w)
<1>1. Good(h, All) /\ h.entries = h.lines /\ h.ending = "newline" /\ h.lines = log
  BY AtWriter, AtLevel DEF History
<1>2. g \in Captures(h, nodes)
  OBVIOUS
<1> HIDE DEF h
<1>3. (\E T : Good(g, T)) /\ ToSet(h.entries) \subseteq ToSet(g.entries)
  BY <1>1, <1>2, KeptLemma
<1>4. g.entries = g.lines /\ g.ending = "newline"
  BY <1>1, <1>2, LevelCapture
<1> QED
  BY <1>1, <1>3, <1>4

\* So does a restore, which captures twice.
LEMMA RestoreAdds ==
    ASSUME VInvariant, Level, NEW w \in Writers, NEW i \in 1..MaxVersions, Restore(w, i)
    PROVE  ToSet(log) \subseteq ToSet(log')
<1> DEFINE now == page[w]
           nodes == Reconstruct(entries[w], i)
<1>1. phase[w] = "open" /\ i \in DOMAIN entries[w] /\ now \in Snapshots
  BY AtWriter DEF Restore
<1>2. nodes \in Snapshots
  BY <1>1, VersionIsPage
<1>3. PICK kept \in Captures(History(w), now) : \E restored \in Captures(kept, nodes) : Becomes(w, restored)
  BY DEF Restore
<1>4. PICK restored \in Captures(kept, nodes) : log' = restored.lines
  BY <1>3 DEF Becomes
<1> HIDE DEF now, nodes
<1>5. /\ ToSet(log) \subseteq ToSet(kept.lines)
      /\ kept.entries = kept.lines /\ kept.ending = "newline"
      /\ \E T : Good(kept, T)
  BY <1>1, CaptureAdds
<1>6. ToSet(kept.entries) \subseteq ToSet(restored.entries) /\ restored.entries = restored.lines
  BY <1>2, <1>5, KeptLemma, LevelCapture
<1> QED
  BY <1>4, <1>5, <1>6

\* No step takes the last line out of the log: what a load trims is before it,
\* and a capture adds to what is there.
THEOREM LastLineKept == PanelSpec => LastLineStays
<1>1. ASSUME PInvariant, PanelNext, log # <<>>
      PROVE  Last(log) \in ToSet(log')
  <2>1. VInvariant /\ Level /\ log \in Seq(Es) /\ phase \in [Writers -> Phases]
    BY <1>1 DEF PInvariant, VInvariant, Typed
  <2>2. Last(log) \in ToSet(log)
    BY <1>1, <2>1, LastIn
  <2>3. PICK w \in Writers : PanelStep(w)
    BY <1>1 DEF PanelNext
  <2>4. CASE log' = log
    BY <2>2, <2>4
  <2>5. CASE phase[w] \in {"adopting", "open"} /\ Capture(w)
    <3>1. page[w] \in Snapshots
      BY <2>1, AtWriter
    <3>2. PICK g \in Captures(History(w), page[w]) : log' = g.lines
      BY <2>5 DEF Capture, Becomes
    <3> QED
      BY <2>1, <2>2, <2>5, <3>1, <3>2, CaptureAdds
  <2>6. CASE \E i \in 1..MaxVersions : Restore(w, i)
    BY <2>1, <2>2, <2>6, RestoreAdds
  <2>7. CASE Rewrite(w)
    <3>1. log' = Compact(log) /\ Chain(log)
      BY <2>1, <2>7 DEF Rewrite, Level, Follows
    <3>2. Compact(log) \in Seq(Es) /\ Compact(log) # <<>> /\ Last(Compact(log)) = Last(log)
      BY <1>1, <2>1, <3>1, CompactLemma
    <3>3. Last(Compact(log)) \in ToSet(Compact(log))
      BY <3>2, LastIn
    <3> QED
      BY <3>1, <3>2, <3>3
  <2>8. CASE phase[w] = "open" /\ Close(w)
    <3>1. page[w] \in Snapshots
      BY <2>1, AtWriter
    <3>2. PICK g \in Captures(History(w), page[w]) : log' = g.lines
      BY <2>8 DEF Close
    <3> QED
      BY <2>1, <2>2, <2>8, <3>1, <3>2, CaptureAdds
  <2> DEFINE Goal == \/ log' = log
                     \/ phase[w] \in {"adopting", "open"} /\ Capture(w)
                     \/ \E i \in 1..MaxVersions : Restore(w, i)
                     \/ Rewrite(w)
                     \/ phase[w] = "open" /\ Close(w)
  <2>9. Goal
    <3>1. CASE OpenPanel(w) \/ ClosePanel(w) \/ CloseCard(w) \/ \E i \in 1..MaxVersions : Select(w, i)
      BY <3>1 DEF OpenPanel, OpenTimeline, ClosePanel, CloseCard, Select, vars, disk
    <3>2. CASE \E i \in 1..MaxVersions : RestoreSelected(w, i)
      BY <3>2 DEF RestoreSelected
    <3>3. CASE Edit(w)
      BY <3>3 DEF Edit, disk
    <3>4. CASE Records(w) \/ Leaves(w)
      BY <3>4 DEF Records, Fire, Leaves, LeavePage, Flush, disk
    <3>5. CASE LogArrives(w)
      BY <3>5 DEF LogArrives, Arrive, disk
    <3>6. CASE Loads(w)
      BY <3>6 DEF Loads, Open, Read, disk
    <3>7. CASE GoesAway(w)
      BY <3>7 DEF GoesAway, Leave, Crash, disk
    <3> QED
      BY <2>3, <3>1, <3>2, <3>3, <3>4, <3>5, <3>6, <3>7 DEF PanelStep
  <2> QED
    BY <2>4, <2>5, <2>6, <2>7, <2>8, <2>9
<1>2. PInvariant /\ [PanelNext]_panelVars => [log # <<>> => Last(log) \in ToSet(log')]_vars
  BY <1>1 DEF panelVars
<1> QED
  BY <1>2, PanelAlways, PTL DEF PanelSpec, LastLineStays

=============================================================================
