---------------------------- MODULE RegionsProofs ----------------------------
(***************************************************************************)
(* Regions keeps membership exclusive and implements RegionLabels, for     *)
(* every number of pages, every set of nodes and every bound on the        *)
(* prompt, the answer of the model and the histories.                      *)
(*                                                                         *)
(* A reply is parsed and a plan is applied one part after the other, by    *)
(* recursive functions: what they keep is shown by induction on the number *)
(* of parts, which rests on the well-foundedness of the order of numbers.  *)
(* Then the histories, the shapes a step can have, the invariant, and      *)
(* each shape of a step as a step of the labelling.                        *)
(***************************************************************************)
EXTENDS Regions, FiniteSetTheorems, SequenceTheorems, WellFoundedInduction, TLAPS

-----------------------------------------------------------------------------
(* Numbers, and values made one after the other.  *)

\* Natural numbers are well ordered.
LEMMA Least ==
    ASSUME NEW T, T \subseteq Nat, T # {}
    PROVE  \E x \in T : \A y \in T : x <= y
<1> DEFINE R == OpToRel(<, Nat)
<1>1. IsWellFoundedOn(R, Nat)
  BY NatLessThanWellFounded, Zenon
<1>2. \A x, y \in Nat : y < x => <<y, x>> \in R
  BY DEF OpToRel
<1> HIDE DEF R
<1>3. PICK x \in T : \A y \in T : ~ (<<y, x>> \in R)
  BY <1>1, WFMin
<1>4. \A y \in T : ~ (y < x)
  BY <1>2, <1>3
<1>5. \A y \in T : x <= y
  BY <1>4
<1> QED
  BY <1>5

\* What holds of zero, and of the next number with each, holds of all.
LEMMA SetInduction ==
    ASSUME NEW S, 0 \in S, \A n \in Nat : n \in S => n + 1 \in S
    PROVE  Nat \subseteq S
<1> SUFFICES ASSUME Nat \ S # {} PROVE FALSE
  OBVIOUS
<1>1. PICK x \in Nat \ S : \A y \in Nat \ S : x <= y
  BY Least
<1>2. x # 0 /\ x - 1 \in Nat /\ x - 1 \in S
  BY <1>1
<1> QED
  BY <1>2

\* A value per step: the first is given, and each makes the next.
IsRun(f, n, b, F) == f = [i \in 0..n |-> IF i = 0 THEN b ELSE F[i][f[i - 1]]]

\* There is such a run, and its values stay where its steps do.
LEMMA RunExists ==
    ASSUME NEW S, NEW b \in S, NEW F \in [Nat -> [S -> S]], NEW n \in Nat
    PROVE  \E f \in [0..n -> S] : IsRun(f, n, b, F)
<1> DEFINE A == {m \in Nat : \E f \in [0..m -> S] : IsRun(f, m, b, F)}
<1>1. 0 \in A
  <2> DEFINE f == [i \in 0..0 |-> b]
  <2>1. f \in [0..0 -> S] /\ IsRun(f, 0, b, F)
    BY DEF IsRun
  <2> QED
    BY <2>1
<1>2. ASSUME NEW m \in Nat, m \in A
      PROVE  m + 1 \in A
  <2>1. PICK f \in [0..m -> S] : IsRun(f, m, b, F)
    BY <1>2
  <2> DEFINE g == [i \in 0..m + 1 |-> IF i = m + 1 THEN F[m + 1][f[m]] ELSE f[i]]
  <2>2. f[m] \in S /\ F[m + 1][f[m]] \in S /\ \A i \in 0..m + 1 : i = m + 1 \/ i \in 0..m
    OBVIOUS
  <2>3. g \in [0..m + 1 -> S]
    BY <2>2
  <2>4. \A i \in 0..m : f[i] = IF i = 0 THEN b ELSE F[i][f[i - 1]]
    BY <2>1 DEF IsRun
  <2>5. \A i \in 0..m + 1 : g[i] = IF i = 0 THEN b ELSE F[i][g[i - 1]]
    <3> SUFFICES ASSUME NEW i \in 0..m + 1
                 PROVE  g[i] = IF i = 0 THEN b ELSE F[i][g[i - 1]]
      OBVIOUS
    <3>1. CASE i = 0
      <4>1. 0 \in 0..m /\ g[0] = f[0] /\ f[0] = b
        BY <2>4
      <4> QED
        BY <3>1, <4>1
    <3>2. CASE i = m + 1
      <4>1. m \in 0..m + 1 /\ m # m + 1 /\ i - 1 = m /\ i # 0
        BY <3>2
      <4>2. g[i - 1] = f[m] /\ g[i] = F[m + 1][f[m]]
        BY <3>2, <4>1
      <4> QED
        BY <3>2, <4>1, <4>2
    <3>3. CASE i # 0 /\ i # m + 1
      <4>1. i \in 0..m /\ i - 1 \in 0..m + 1 /\ i - 1 # m + 1
        BY <3>3
      <4>2. g[i] = f[i] /\ g[i - 1] = f[i - 1]
        BY <3>3, <4>1
      <4> QED
        BY <2>4, <3>3, <4>1, <4>2
    <3> QED
      BY <3>1, <3>2, <3>3
  <2> HIDE DEF g
  <2>6. IsRun(g, m + 1, b, F)
    <3>1. g = [i \in 0..m + 1 |-> g[i]]
      BY <2>3
    <3> QED
      BY <2>5, <3>1 DEF IsRun
  <2> QED
    BY <2>3, <2>6
<1> HIDE DEF A
<1>3. Nat \subseteq A
  BY <1>1, <1>2, SetInduction
<1> QED
  BY <1>3 DEF A

\* Values that stay where they are from one step to the next stay there.
LEMMA RunStays ==
    ASSUME NEW S, NEW n \in Nat, NEW f, f[0] \in S, \A i \in 1..n : f[i - 1] \in S => f[i] \in S
    PROVE  \A i \in 0..n : f[i] \in S
<1> DEFINE A == {m \in Nat : m <= n => f[m] \in S}
<1>1. 0 \in A
  OBVIOUS
<1>2. ASSUME NEW m \in Nat, m \in A
      PROVE  m + 1 \in A
  <2> SUFFICES ASSUME m + 1 <= n PROVE f[m + 1] \in S
    OBVIOUS
  <2>1. m <= n /\ m + 1 \in 1..n /\ (m + 1) - 1 = m
    OBVIOUS
  <2>2. f[m] \in S
    BY <1>2, <2>1
  <2> QED
    BY <2>1, <2>2
<1> HIDE DEF A
<1>3. Nat \subseteq A
  BY <1>1, <1>2, SetInduction
<1> QED
  BY <1>3 DEF A

\* Regions in order: ids given out, members, and no member in two of them.
Regs(m) == {rs \in UNION {[D -> (SUBSET Nodes) \ {{}}] : D \in SUBSET (1..m)} :
               \A r, q \in DOMAIN rs : r # q => rs[r] \cap rs[q] = {}}

Contents(m) == [nodes : SUBSET Nodes, regions : Regs(m)]

\* Node n is a member of region r.
In(rs, n, r) == r \in DOMAIN rs /\ n \in rs[r]

-----------------------------------------------------------------------------
(* Regions.  *)

\* What is known of regions in order.
LEMMA RegsKnown ==
    ASSUME NEW m \in Nat, NEW rs \in Regs(m)
    PROVE  /\ rs \in [DOMAIN rs -> (SUBSET Nodes) \ {{}}]
           /\ DOMAIN rs \subseteq 1..m
           /\ \A r \in DOMAIN rs : rs[r] \subseteq Nodes /\ rs[r] # {}
           /\ \A r, q \in DOMAIN rs : r # q => rs[r] \cap rs[q] = {}
<1>1. PICK D \in SUBSET (1..m) : rs \in [D -> (SUBSET Nodes) \ {{}}]
  BY DEF Regs
<1>2. \A r, q \in DOMAIN rs : r # q => rs[r] \cap rs[q] = {}
  BY DEF Regs
<1>3. DOMAIN rs = D
  BY <1>1
<1> QED
  BY <1>1, <1>2, <1>3

\* And what is enough for it.
LEMMA RegsMade ==
    ASSUME NEW m \in Nat, NEW rs, rs = [r \in DOMAIN rs |-> rs[r]],
           DOMAIN rs \subseteq 1..m,
           \A r \in DOMAIN rs : rs[r] \subseteq Nodes /\ rs[r] # {},
           \A r, q \in DOMAIN rs : r # q => rs[r] \cap rs[q] = {}
    PROVE  rs \in Regs(m)
<1> DEFINE D == DOMAIN rs
           V == (SUBSET Nodes) \ {{}}
<1>1. \A r \in D : rs[r] \in V
  OBVIOUS
<1>2. D \in SUBSET (1..m)
  OBVIOUS
<1> HIDE DEF V
<1>3. rs \in [D -> V]
  BY <1>1
<1>4. rs \in UNION {[E -> V] : E \in SUBSET (1..m)}
  BY <1>2, <1>3
<1> QED
  BY <1>4 DEF Regs, V

\* Ids that are given out later change nothing.
LEMMA RegsGrow ==
    ASSUME NEW m \in Nat, NEW k \in Nat, m <= k
    PROVE  Regs(m) \subseteq Regs(k) /\ Contents(m) \subseteq Contents(k)
<1>1. ASSUME NEW rs \in Regs(m)
      PROVE  rs \in Regs(k)
  <2>1. /\ rs \in [DOMAIN rs -> (SUBSET Nodes) \ {{}}]
        /\ DOMAIN rs \subseteq 1..m
        /\ \A r \in DOMAIN rs : rs[r] \subseteq Nodes /\ rs[r] # {}
        /\ \A r, q \in DOMAIN rs : r # q => rs[r] \cap rs[q] = {}
    BY RegsKnown
  <2>2. DOMAIN rs \subseteq 1..k /\ rs = [r \in DOMAIN rs |-> rs[r]]
    BY <2>1
  <2> QED
    BY <2>1, <2>2, RegsMade
<1>2. Regs(m) \subseteq Regs(k)
  BY <1>1
<1> QED
  BY <1>2 DEF Contents

\* Taking regions away.
LEMMA WithoutLemma ==
    ASSUME NEW m \in Nat, NEW rs \in Regs(m), NEW ids
    PROVE  /\ Without(rs, ids) \in Regs(m)
           /\ DOMAIN Without(rs, ids) = DOMAIN rs \ ids
           /\ \A n, q : In(Without(rs, ids), n, q) <=> q \notin ids /\ In(rs, n, q)
<1> DEFINE w == Without(rs, ids)
<1>1. DOMAIN w = DOMAIN rs \ ids /\ \A r \in DOMAIN w : w[r] = rs[r]
  BY DEF Without
<1>2. w = [r \in DOMAIN w |-> w[r]]
  BY DEF Without
<1> HIDE DEF w
<1>3. w \in Regs(m)
  BY <1>1, <1>2, RegsKnown, RegsMade
<1> QED
  BY <1>1, <1>3 DEF In, w

\* Nodes leave the regions they are in; one region is kept.
LEMMA ClaimLemma ==
    ASSUME NEW m \in Nat, NEW rs \in Regs(m), NEW S, NEW keep, keep \notin DOMAIN rs
    PROVE  /\ Claim(rs, S, keep) \in Regs(m)
           /\ DOMAIN Claim(rs, S, keep) \subseteq DOMAIN rs
           /\ \A n, q : In(Claim(rs, S, keep), n, q) <=> n \notin S /\ In(rs, n, q)
<1> DEFINE c == Claim(rs, S, keep)
           D == {q \in DOMAIN rs : rs[q] \ S # {}}
<1>1. DOMAIN c = D /\ \A r \in D : c[r] = rs[r] \ S
  BY DEF Claim
<1>2. c = [r \in DOMAIN c |-> c[r]]
  BY DEF Claim
<1>3. D \subseteq DOMAIN rs /\ \A r \in D : rs[r] \ S # {}
  OBVIOUS
<1>4. \A n, q : q \in DOMAIN rs /\ n \in rs[q] /\ n \notin S => q \in D
  OBVIOUS
<1> HIDE DEF c, D
<1>5. c \in Regs(m)
  BY <1>1, <1>2, <1>3, RegsKnown, RegsMade
<1>6. ASSUME NEW n, NEW q
      PROVE  In(c, n, q) <=> n \notin S /\ In(rs, n, q)
  BY <1>1, <1>3, <1>4 DEF In
<1> QED
  BY <1>1, <1>3, <1>5, <1>6 DEF c

\* A new region: its nodes leave the ones they were in.
LEMMA InsertLemma ==
    ASSUME NEW m \in Nat, NEW rs \in Regs(m), NEW S \in (SUBSET Nodes) \ {{}}
    PROVE  /\ Insert(rs, m + 1, S) \in Regs(m + 1)
           /\ \A n, q : In(Insert(rs, m + 1, S), n, q) <=> IF n \in S THEN q = m + 1 ELSE In(rs, n, q)
<1> DEFINE c == Claim(rs, S, None)
           t == Insert(rs, m + 1, S)
<1>1. None \notin DOMAIN rs
  BY NoneAssumption, RegsKnown
<1>2. /\ c \in Regs(m) /\ DOMAIN c \subseteq DOMAIN rs
      /\ \A n, q : In(c, n, q) <=> n \notin S /\ In(rs, n, q)
  BY <1>1, ClaimLemma
<1>3. DOMAIN t = DOMAIN c \cup {m + 1} /\ t = [r \in DOMAIN t |-> t[r]]
  BY DEF Insert
<1>4. t[m + 1] = S /\ \A r \in DOMAIN c : r # m + 1 => t[r] = c[r]
  BY DEF Insert
<1> HIDE DEF c, t
<1>5. /\ DOMAIN c \subseteq 1..m /\ m + 1 \notin DOMAIN c
      /\ \A r \in DOMAIN c : c[r] \subseteq Nodes /\ c[r] # {} /\ c[r] \cap S = {}
      /\ \A r, q \in DOMAIN c : r # q => c[r] \cap c[q] = {}
  <2>1. DOMAIN c \subseteq 1..m /\ m + 1 \notin 1..m
    BY <1>2, RegsKnown
  <2> QED
    BY <1>2, <2>1, RegsKnown DEF In
<1>6. t \in Regs(m + 1)
  <2>1. m + 1 \in Nat /\ DOMAIN t \subseteq 1..m + 1
    BY <1>3, <1>5
  <2>2. \A r \in DOMAIN t : t[r] \subseteq Nodes /\ t[r] # {}
    BY <1>3, <1>4, <1>5
  <2>3. \A r, q \in DOMAIN t : r # q => t[r] \cap t[q] = {}
    <3> SUFFICES ASSUME NEW r \in DOMAIN t, NEW q \in DOMAIN t, r # q
                 PROVE  t[r] \cap t[q] = {}
      OBVIOUS
    <3>1. CASE r = m + 1
      BY <1>3, <1>4, <1>5, <3>1
    <3>2. CASE q = m + 1
      BY <1>3, <1>4, <1>5, <3>2
    <3>3. CASE r # m + 1 /\ q # m + 1
      BY <1>3, <1>4, <1>5, <3>3
    <3> QED
      BY <3>1, <3>2, <3>3
  <2> QED
    BY <1>3, <2>1, <2>2, <2>3, RegsMade
<1>7. ASSUME NEW n, NEW q
      PROVE  In(t, n, q) <=> IF n \in S THEN q = m + 1 ELSE In(rs, n, q)
  <2>1. CASE q = m + 1
    <3>1. ~In(rs, n, q)
      <4>1. q \notin 1..m
        BY <2>1
      <4> QED
        BY <4>1, RegsKnown DEF In
    <3> QED
      BY <1>3, <1>4, <2>1, <3>1 DEF In
  <2>2. CASE q # m + 1
    <3>1. In(t, n, q) <=> In(c, n, q)
      BY <1>3, <1>4, <2>2 DEF In
    <3> QED
      BY <1>2, <2>2, <3>1
  <2> QED
    BY <2>1, <2>2
<1> QED
  BY <1>6, <1>7 DEF t

\* Nodes join a region: they leave the ones they were in.
LEMMA FoldIntoLemma ==
    ASSUME NEW m \in Nat, NEW rs \in Regs(m), NEW S \in SUBSET Nodes, NEW r \in DOMAIN rs
    PROVE  /\ FoldInto(rs, r, S) \in Regs(m)
           /\ \A n, q : In(FoldInto(rs, r, S), n, q) <=> IF n \in S THEN q = r ELSE In(rs, n, q)
<1> DEFINE c == Claim(rs, S, r)
           t == FoldInto(rs, r, S)
           D == {q \in DOMAIN rs : q = r \/ rs[q] \ S # {}}
<1>1. /\ DOMAIN c = D
      /\ c = [q \in D |-> c[q]]
      /\ \A q \in D : c[q] = IF q = r THEN rs[q] ELSE rs[q] \ S
  BY DEF Claim
<1>2. r \in D /\ t = [c EXCEPT ![r] = c[r] \cup S]
  BY DEF FoldInto, Claim
<1>3. /\ D \subseteq DOMAIN rs /\ \A q \in D : q = r \/ rs[q] \ S # {}
      /\ \A n, q : q \in DOMAIN rs /\ n \in rs[q] /\ n \notin S => q \in D
  OBVIOUS
<1> HIDE DEF c, t, D
<1>4. DOMAIN t = D /\ t = [q \in D |-> t[q]]
      /\ \A q \in D : t[q] = IF q = r THEN rs[r] \cup S ELSE rs[q] \ S
  BY <1>1, <1>2
<1>5. /\ DOMAIN rs \subseteq 1..m
      /\ \A q \in DOMAIN rs : rs[q] \subseteq Nodes /\ rs[q] # {}
      /\ \A o, q \in DOMAIN rs : o # q => rs[o] \cap rs[q] = {}
  BY RegsKnown
<1>6. t \in Regs(m)
  <2>1. \A q \in D : t[q] \subseteq Nodes /\ t[q] # {}
    BY <1>3, <1>4, <1>5
  <2>2. \A o, q \in D : o # q => t[o] \cap t[q] = {}
    <3> SUFFICES ASSUME NEW o \in D, NEW q \in D, o # q
                 PROVE  t[o] \cap t[q] = {}
      OBVIOUS
    <3>1. rs[o] \cap rs[q] = {}
      BY <1>3, <1>5
    <3> QED
      BY <1>4, <3>1
  <2>3. DOMAIN t \subseteq 1..m
    BY <1>3, <1>4, <1>5
  <2> QED
    BY <1>4, <2>1, <2>2, <2>3, RegsMade
<1>7. ASSUME NEW n, NEW q
      PROVE  In(t, n, q) <=> IF n \in S THEN q = r ELSE In(rs, n, q)
  BY <1>2, <1>3, <1>4 DEF In
<1> QED
  BY <1>6, <1>7 DEF t

-----------------------------------------------------------------------------
(* A plan, one part after the other.  *)

Parts(A, labels) == [into : {{r} : r \in labels} \cup {{}}, members : (SUBSET A) \ {{}}]

\* A node of a page whose regions were rs is, after groups of nodes of A:
\* where it was; in a region; or, when the regions were made anew, in none.
Moved(rs, x, A, anew) ==
    \A n \in Nodes : \/ \A r : In(x, n, r) <=> In(rs, n, r)
                     \/ n \in A /\ \E r : In(x, n, r)
                     \/ anew /\ \A r : ~In(x, n, r)

\* What has landed so far: regions in order, the old ones or new.
Landings(rs, m, A, anew) ==
    {x \in UNION {[regions : Regs(k), minted : {k}] : k \in Nat} :
        /\ x.minted >= m
        /\ \A r \in DOMAIN x.regions : r > m \/ r \in DOMAIN rs
        /\ Moved(rs, x.regions, A, anew)}

\* What is known of it.
LEMMA LandingKnown ==
    ASSUME NEW rs, NEW m \in Nat, NEW A, NEW anew, NEW x \in Landings(rs, m, A, anew)
    PROVE  /\ x.minted \in Nat /\ x.minted >= m /\ x.regions \in Regs(x.minted)
           /\ x = [regions |-> x.regions, minted |-> x.minted]
           /\ \A r \in DOMAIN x.regions : r > m \/ r \in DOMAIN rs
           /\ Moved(rs, x.regions, A, anew)
<1>1. PICK k \in Nat : x \in [regions : Regs(k), minted : {k}]
  BY DEF Landings
<1>2. x.minted = k /\ x.regions \in Regs(k) /\ x = [regions |-> x.regions, minted |-> x.minted]
  BY <1>1
<1> QED
  BY <1>2 DEF Landings

\* And what is enough.
LEMMA LandingMade ==
    ASSUME NEW rs, NEW m \in Nat, NEW A, NEW anew, NEW k \in Nat, NEW g \in Regs(k),
           k >= m, \A r \in DOMAIN g : r > m \/ r \in DOMAIN rs, Moved(rs, g, A, anew)
    PROVE  [regions |-> g, minted |-> k] \in Landings(rs, m, A, anew)
<1> DEFINE x == [regions |-> g, minted |-> k]
<1>1. x \in [regions : Regs(k), minted : {k}]
  OBVIOUS
<1>2. x.minted = k /\ x.regions = g
  OBVIOUS
<1> HIDE DEF x
<1>3. x \in Landings(rs, m, A, anew)
  BY <1>1, <1>2 DEF Landings
<1> QED
  BY <1>3 DEF x

\* One part of a plan lands.
LEMMA LandLemma ==
    ASSUME NEW m \in Nat, NEW rs \in Regs(m), NEW A \in SUBSET Nodes, NEW anew, NEW labels,
           NEW x \in Landings(rs, m, A, anew), NEW part \in Parts(A, labels)
    PROVE  Land(x, part) \in Landings(rs, m, A, anew)
<1> DEFINE k == x.minted
           g == x.regions
           S == part.members
<1>1. /\ k \in Nat /\ k >= m /\ g \in Regs(k)
      /\ x = [regions |-> g, minted |-> k]
      /\ \A r \in DOMAIN g : r > m \/ r \in DOMAIN rs
      /\ Moved(rs, g, A, anew)
  BY LandingKnown
<1>2. S \subseteq A /\ S # {} /\ S \in (SUBSET Nodes) \ {{}}
  BY DEF Parts
<1> HIDE DEF k, g, S
<1>3. CASE part.into = {}
  <2> DEFINE t == Insert(g, k + 1, S)
  <2>1. /\ t \in Regs(k + 1)
        /\ \A n, q : In(t, n, q) <=> IF n \in S THEN q = k + 1 ELSE In(g, n, q)
    BY <1>1, <1>2, InsertLemma
  <2>2. Land(x, part) = [regions |-> t, minted |-> k + 1]
    BY <1>3 DEF Land, k, g, S
  <2>3. DOMAIN t \subseteq DOMAIN g \cup {k + 1}
    BY DEF Insert, Claim
  <2> HIDE DEF t
  <2>4. Moved(rs, t, A, anew)
    BY <1>1, <1>2, <2>1 DEF Moved
  <2>5. k + 1 \in Nat /\ k + 1 >= m /\ k + 1 > m
    BY <1>1
  <2>6. \A r \in DOMAIN t : r > m \/ r \in DOMAIN rs
    BY <1>1, <2>3, <2>5
  <2> QED
    BY <2>1, <2>2, <2>4, <2>5, <2>6, LandingMade
<1>4. CASE part.into # {}
  <2> DEFINE r == CHOOSE r \in part.into : TRUE
             t == FoldInto(g, r, S)
  <2>1. CASE r \in DOMAIN g
    <3>1. /\ t \in Regs(k)
          /\ \A n, q : In(t, n, q) <=> IF n \in S THEN q = r ELSE In(g, n, q)
      <4> HIDE DEF r
      <4>1. S \in SUBSET Nodes
        BY <1>2
      <4> QED
        BY <1>1, <2>1, <4>1, FoldIntoLemma
    <3>2. Land(x, part) = [x EXCEPT !.regions = t]
      BY <1>4, <2>1 DEF Land, g, S
    <3>3. DOMAIN t \subseteq DOMAIN g
      BY DEF FoldInto, Claim
    <3> HIDE DEF t, r
    <3>4. Land(x, part) = [regions |-> t, minted |-> k]
      BY <1>1, <3>2
    <3>5. Moved(rs, t, A, anew)
      BY <1>1, <1>2, <3>1 DEF Moved
    <3>6. \A q \in DOMAIN t : q > m \/ q \in DOMAIN rs
      BY <1>1, <3>3
    <3> QED
      BY <1>1, <3>1, <3>4, <3>5, <3>6, LandingMade
  <2>2. CASE r \notin DOMAIN g
    <3>1. Land(x, part) = x
      BY <1>4, <2>2 DEF Land, g
    <3> QED
      BY <3>1
  <2> QED
    BY <2>1, <2>2
<1> QED
  BY <1>3, <1>4

\* A whole plan lands.
LEMMA ApplyGroupingLemma ==
    ASSUME minted \in Nat, NEW rs \in Regs(minted), NEW A \in SUBSET Nodes,
           NEW replaces \in BOOLEAN, NEW labels, NEW plan \in Seq(Parts(A, labels))
    PROVE  ApplyGrouping(rs, plan, replaces) \in Landings(rs, minted, A, replaces)
<1> DEFINE L == Landings(rs, minted, A, replaces)
           n == Len(plan)
           b == [regions |-> IF replaces THEN <<>> ELSE rs, minted |-> minted]
           Is(f) == f = [i \in 0..n |-> IF i = 0 THEN b ELSE Land(f[i - 1], plan[i])]
           F == [i \in Nat |-> [x \in L |-> IF i \in 1..n THEN Land(x, plan[i]) ELSE x]]
<1>1. n \in Nat /\ \A i \in 1..n : plan[i] \in Parts(A, labels)
  OBVIOUS
<1>2. b \in L
  <2>1. CASE replaces
    <3> DEFINE e == <<>>
    <3>1. e \in Regs(minted) /\ DOMAIN e = {}
      <4>1. DOMAIN e = {} /\ e = [r \in DOMAIN e |-> e[r]]
        OBVIOUS
      <4> HIDE DEF e
      <4> QED
        BY <4>1, RegsMade
    <3>2. b = [regions |-> e, minted |-> minted]
      BY <2>1
    <3> HIDE DEF e
    <3>3. Moved(rs, e, A, replaces)
      BY <2>1, <3>1 DEF Moved, In
    <3>4. \A r \in DOMAIN e : r > minted \/ r \in DOMAIN rs
      BY <3>1
    <3>5. minted \in Nat /\ minted >= minted /\ e \in Regs(minted)
      BY <3>1
    <3>6. [regions |-> e, minted |-> minted] \in L
      BY <3>3, <3>4, <3>5, LandingMade
    <3> QED
      BY <3>2, <3>6
  <2>2. CASE ~replaces
    <3>1. Moved(rs, rs, A, replaces)
      BY DEF Moved
    <3>2. [regions |-> rs, minted |-> minted] \in L
      BY <3>1, LandingMade
    <3> QED
      BY <2>2, <3>2
  <2> QED
    BY <2>1, <2>2
<1> HIDE DEF L, b
<1>3. \A x \in L : \A i \in 1..n : Land(x, plan[i]) \in L
  BY <1>1, LandLemma DEF L
<1>4. F \in [Nat -> [L -> L]]
  BY <1>3
<1> HIDE DEF n
<1>5. \E f : Is(f)
  <2> HIDE DEF F
  <2>1. PICK f \in [0..n -> L] : IsRun(f, n, b, F)
    BY <1>1, <1>2, <1>4, RunExists
  <2>2. \A i \in 0..n : i # 0 => F[i][f[i - 1]] = Land(f[i - 1], plan[i])
    <3> SUFFICES ASSUME NEW i \in 0..n, i # 0
                 PROVE  F[i][f[i - 1]] = Land(f[i - 1], plan[i])
      OBVIOUS
    <3>1. i \in Nat /\ i \in 1..n /\ i - 1 \in 0..n
      BY <1>1
    <3>2. f[i - 1] \in L
      BY <3>1
    <3> QED
      BY <3>1, <3>2 DEF F
  <2>3. f = [i \in 0..n |-> IF i = 0 THEN b ELSE Land(f[i - 1], plan[i])]
    BY <2>1, <2>2 DEF IsRun
  <2> QED
    BY <2>3
<1> DEFINE f == CHOOSE f : Is(f)
<1>6. Is(f)
  BY <1>5
<1>7. ApplyGrouping(rs, plan, replaces) = f[n]
  BY DEF ApplyGrouping, b, n
<1> HIDE DEF f
<1>8. f[0] \in L /\ \A i \in 1..n : f[i - 1] \in L => f[i] \in L
  <2>1. f[0] = b
    BY <1>1, <1>6
  <2>2. \A i \in 1..n : f[i] = Land(f[i - 1], plan[i])
    BY <1>1, <1>6
  <2> QED
    BY <1>2, <1>3, <2>1, <2>2
<1>9. \A i \in 0..n : f[i] \in L
  BY <1>1, <1>8, RunStays
<1> QED
  BY <1>1, <1>7, <1>9 DEF L

\* A reply makes a plan: an item of it is a part of the plan or none.
LEMMA ParseLemma ==
    ASSUME NEW A \in SUBSET Nodes, NEW labels, NEW reply \in Seq(Items(A, labels))
    PROVE  Parse(reply) \in Seq(Parts(A, labels))
<1> DEFINE L == Seq(Parts(A, labels))
           n == Len(reply)
           Taken(plan) == UNION {plan[i].members : i \in DOMAIN plan}
           Joined(plan, i) == plan \o Assignments(reply[i], reply[i].nodes \ Taken(plan))
           Is(f) == f = [i \in 0..n |-> IF i = 0 THEN <<>> ELSE Joined(f[i - 1], i)]
           F == [i \in Nat |-> [plan \in L |-> IF i \in 1..n THEN Joined(plan, i) ELSE plan]]
<1>1. n \in Nat /\ \A i \in 1..n : reply[i] \in Items(A, labels)
  OBVIOUS
<1>2. <<>> \in L
  OBVIOUS
<1>3. ASSUME NEW plan \in L, NEW i \in 1..n
      PROVE  Joined(plan, i) \in L
  <2> DEFINE item == reply[i]
             ms == item.nodes \ Taken(plan)
  <2>1. /\ item.nodes \subseteq A
        /\ item.into \in {{r} : r \in labels} \cup {{}}
    BY <1>1 DEF Items
  <2>2. ms \subseteq A
    BY <2>1
  <2> HIDE DEF item, ms
  <2>3. Assignments(item, ms) \in L
    <3>1. CASE ms = {}
      BY <3>1 DEF Assignments
    <3>2. CASE ms # {} /\ item.into # {}
      <4>1. [into |-> item.into, members |-> ms] \in Parts(A, labels)
        BY <2>1, <2>2, <3>2 DEF Parts
      <4> QED
        BY <3>2, <4>1 DEF Assignments
    <3>3. CASE ms # {} /\ item.into = {}
      <4>1. [into |-> {}, members |-> ms] \in Parts(A, labels)
        BY <2>2, <3>3 DEF Parts
      <4> QED
        BY <3>3, <4>1 DEF Assignments
    <3> QED
      BY <3>1, <3>2, <3>3
  <2>4. Joined(plan, i) = plan \o Assignments(item, ms)
    BY DEF item, ms
  <2> HIDE DEF Joined
  <2> QED
    BY <2>3, <2>4
<1>4. F \in [Nat -> [L -> L]]
  <2> HIDE DEF L, Joined
  <2> QED
    BY <1>3
<1> HIDE DEF L, n, Joined
<1>5. \E f : Is(f)
  <2> HIDE DEF F
  <2>1. PICK f \in [0..n -> L] : IsRun(f, n, <<>>, F)
    BY <1>1, <1>2, <1>4, RunExists
  <2>2. \A i \in 0..n : i # 0 => F[i][f[i - 1]] = Joined(f[i - 1], i)
    <3> SUFFICES ASSUME NEW i \in 0..n, i # 0
                 PROVE  F[i][f[i - 1]] = Joined(f[i - 1], i)
      OBVIOUS
    <3>1. i \in Nat /\ i \in 1..n /\ i - 1 \in 0..n
      BY <1>1
    <3>2. f[i - 1] \in L
      BY <3>1
    <3> QED
      BY <3>1, <3>2 DEF F
  <2>3. f = [i \in 0..n |-> IF i = 0 THEN <<>> ELSE Joined(f[i - 1], i)]
    BY <2>1, <2>2 DEF IsRun
  <2> QED
    BY <2>3
<1> DEFINE f == CHOOSE f : Is(f)
<1>6. Is(f)
  BY <1>5
<1>7. Parse(reply) = f[n]
  BY DEF Parse, n, Joined
<1> HIDE DEF f
<1>8. f[0] \in L /\ \A i \in 1..n : f[i - 1] \in L => f[i] \in L
  <2>1. f[0] = <<>>
    BY <1>1, <1>6
  <2>2. \A i \in 1..n : f[i] = Joined(f[i - 1], i)
    BY <1>1, <1>6
  <2> QED
    BY <1>2, <1>3, <2>1, <2>2
<1>9. \A i \in 0..n : f[i] \in L
  BY <1>1, <1>8, RunStays
<1> QED
  BY <1>1, <1>7, <1>9 DEF L

\* Every plan the model may answer with.
LEMMA PlansLemma ==
    ASSUME NEW A \in SUBSET Nodes, NEW labels \in SUBSET Ids, NEW plan \in Plans[<<A, labels>>]
    PROVE  plan \in Seq(Parts(A, labels))
<1>1. Plans[<<A, labels>>] = {Parse(reply) : reply \in BoundedSeq(Items(A, labels), MaxItems)} \ {<<>>}
  BY DEF Plans
<1>2. PICK reply \in BoundedSeq(Items(A, labels), MaxItems) : plan = Parse(reply)
  BY <1>1
<1>3. PICK k \in 0..MaxItems : reply \in [1..k -> Items(A, labels)]
  BY <1>2 DEF BoundedSeq, SeqOf
<1>4. k \in Nat
  BY <1>3, RegionsAssumption
<1>5. reply \in Seq(Items(A, labels))
  BY <1>3, <1>4
<1> QED
  BY <1>2, <1>5, ParseLemma

\* Every clustering of nodes that were asked about.
LEMMA ClusteringsLemma ==
    ASSUME NEW A \in SUBSET Nodes, NEW S \in SUBSET A, NEW labels, NEW plan \in Clusterings(S)
    PROVE  plan \in Seq(Parts(A, labels))
<1> DEFINE C == {c \in SUBSET S : Cardinality(c) >= MinGroup}
<1>1. PICK cs \in SUBSET C : plan = SetToSeq({[into |-> {}, members |-> c] : c \in cs})
  BY DEF Clusterings
<1> DEFINE T == {[into |-> {}, members |-> c] : c \in cs}
           f == [c \in cs |-> [into |-> {}, members |-> c]]
<1>2. IsFiniteSet(S) /\ IsFiniteSet(SUBSET S)
  BY RegionsAssumption, FS_Subset, FS_SUBSET
<1>3. cs \in SUBSET (SUBSET S)
  OBVIOUS
<1>4. IsFiniteSet(cs)
  BY <1>2, <1>3, FS_Subset
<1>5. f \in Surjection(cs, T)
  BY DEF Surjection
<1>6. \A c \in C : c # {} /\ c \subseteq A
  <2>1. Cardinality({}) = 0 /\ \A c \in C : Cardinality(c) >= 2
    BY FS_EmptySet DEF MinGroup
  <2>2. ~(0 >= 2)
    OBVIOUS
  <2> QED
    BY <2>1, <2>2
<1>7. T \subseteq Parts(A, labels)
  <2> SUFFICES ASSUME NEW c \in cs
               PROVE  [into |-> {}, members |-> c] \in Parts(A, labels)
    OBVIOUS
  <2>1. c # {} /\ c \subseteq A
    BY <1>6
  <2> QED
    BY <2>1 DEF Parts
<1> HIDE DEF f, T
<1>8. IsFiniteSet(T)
  BY <1>4, <1>5, FS_Surjection
<1>9. Cardinality(T) \in Nat /\ ExistsBijection(1..Cardinality(T), T)
  BY <1>8, FS_CardinalityType
<1>10. \E g \in [1..Cardinality(T) -> T] : IsInjective(g)
  BY <1>9 DEF ExistsBijection, Bijection, Injection
<1>11. SetToSeq(T) \in [1..Cardinality(T) -> T]
  BY <1>10 DEF SetToSeq
<1>12. plan = SetToSeq(T)
  BY <1>1 DEF T
<1>13. plan \in Seq(T)
  BY <1>9, <1>11, <1>12
<1> QED
  BY <1>7, <1>13

-----------------------------------------------------------------------------
(* Histories.  *)

Histories(m) == [past    : [Pages -> Seq(Contents(m))],
                 future  : [Pages -> Seq(Contents(m))],
                 pending : {NoTx}]

Requests == [page : Pages, nodes : SUBSET Nodes, labels : SUBSET Ids, replaces : BOOLEAN]

\* Every page in order, on the screen and in the histories, and no
\* transaction left open.
IInv ==
    /\ pages \in [Pages -> Contents(minted)]
    /\ active \in Pages
    /\ minted \in 0..MaxRegions
    /\ history \in Histories(minted)
    /\ grouping # None => /\ grouping \in Requests
                          /\ Cardinality(grouping.nodes) \in 1..MaxPrompt

\* The oldest makes room on a full stack, the pushed one is there.
LEMMA PushLemma ==
    ASSUME NEW C, NEW s \in Seq(C), NEW x \in C
    PROVE  /\ PushCapped(s, x) \in Seq(C)
           /\ ToSet(PushCapped(s, x)) \subseteq ToSet(s) \cup {x}
           /\ x \in ToSet(PushCapped(s, x))
<1> DEFINE t == Append(s, x)
<1>1. /\ t \in Seq(C) /\ Len(t) = Len(s) + 1 /\ Len(s) \in Nat /\ t # <<>>
      /\ DOMAIN t = 1..Len(s) + 1
      /\ \A i \in 1..Len(s) : t[i] = s[i]
      /\ t[Len(s) + 1] = x
  OBVIOUS
<1> HIDE DEF t
<1>2. ToSet(t) \subseteq ToSet(s) \cup {x} /\ x \in ToSet(t)
  <2>1. DOMAIN s = 1..Len(s)
    OBVIOUS
  <2>2. \A i \in 1..Len(s) + 1 : i \in 1..Len(s) \/ i = Len(s) + 1
    BY <1>1
  <2>3. Len(s) + 1 \in DOMAIN t
    BY <1>1
  <2> QED
    BY <1>1, <2>1, <2>2, <2>3 DEF ToSet
<1>3. CASE Len(t) > UndoLimit
  <2> DEFINE u == Tail(t)
  <2>1. /\ u \in Seq(C) /\ Len(u) = Len(s) /\ DOMAIN u = 1..Len(s)
        /\ \A i \in 1..Len(u) : u[i] = t[i + 1]
    BY <1>1, HeadTailProperties
  <2>2. Len(s) \in 1..Len(s)
    BY <1>1, <1>3, UndoLimitAssumption
  <2>3. PushCapped(s, x) = u
    BY <1>3 DEF PushCapped, t
  <2> HIDE DEF u
  <2>4. u[Len(s)] = x
    BY <1>1, <2>1, <2>2
  <2>5. \A i \in DOMAIN u : u[i] \in ToSet(t)
    <3>1. \A i \in 1..Len(s) : i + 1 \in 1..Len(s) + 1
      BY <1>1
    <3> QED
      BY <1>1, <2>1, <3>1 DEF ToSet
  <2>6. ToSet(u) \subseteq ToSet(t) /\ x \in ToSet(u)
    BY <2>1, <2>2, <2>4, <2>5 DEF ToSet
  <2> QED
    BY <1>2, <2>1, <2>3, <2>6
<1>4. CASE ~(Len(t) > UndoLimit)
  <2>1. PushCapped(s, x) = t
    BY <1>4 DEF PushCapped, t
  <2> QED
    BY <1>1, <1>2, <2>1
<1> QED
  BY <1>3, <1>4

\* Taking the last off a stack.
LEMMA PopLemma ==
    ASSUME NEW C, NEW s \in Seq(C), s # <<>>
    PROVE  /\ FrontOf(s) \in Seq(C) /\ ToSet(FrontOf(s)) \subseteq ToSet(s)
           /\ LastOf(s) \in C /\ LastOf(s) \in ToSet(s)
<1>1. /\ Len(s) \in Nat \ {0} /\ DOMAIN s = 1..Len(s)
      /\ \A i \in 1..Len(s) : s[i] \in C
  BY EmptySeq
<1> DEFINE t == FrontOf(s)
<1>2. t = [i \in 1..Len(s) - 1 |-> s[i]]
  BY <1>1, SubSeqProperties DEF FrontOf
<1> HIDE DEF t
<1>3. Len(s) - 1 \in Nat /\ \A i \in 1..Len(s) - 1 : i \in 1..Len(s)
  BY <1>1
<1>4. t \in [1..Len(s) - 1 -> C] /\ DOMAIN t = 1..Len(s) - 1
  BY <1>1, <1>2, <1>3
<1>5. t \in Seq(C)
  BY <1>3, <1>4
<1>6. ToSet(t) \subseteq ToSet(s)
  BY <1>1, <1>2, <1>3, <1>4 DEF ToSet
<1>7. Len(s) \in 1..Len(s)
  BY <1>1
<1>8. LastOf(s) \in C /\ LastOf(s) \in ToSet(s)
  BY <1>1, <1>7 DEF LastOf, ToSet
<1> QED
  BY <1>5, <1>6, <1>8 DEF t

\* Putting one on a stack, and two stacks together.
LEMMA JoinLemma ==
    ASSUME NEW C, NEW s \in Seq(C), NEW t \in Seq(C), NEW x \in C
    PROVE  /\ Append(s, x) \in Seq(C) /\ ToSet(Append(s, x)) = ToSet(s) \cup {x}
           /\ ToSet(s \o t) = ToSet(s) \cup ToSet(t)
<1>1. Len(s) \in Nat /\ Len(t) \in Nat /\ DOMAIN s = 1..Len(s) /\ DOMAIN t = 1..Len(t)
  OBVIOUS
<1>2. Append(s, x) \in Seq(C) /\ ToSet(Append(s, x)) = ToSet(s) \cup {x}
  <2> DEFINE u == Append(s, x)
  <2>1. /\ u \in Seq(C) /\ DOMAIN u = 1..Len(s) + 1
        /\ \A i \in 1..Len(s) : u[i] = s[i]
        /\ u[Len(s) + 1] = x
    OBVIOUS
  <2>2. /\ \A i \in 1..Len(s) + 1 : i \in 1..Len(s) \/ i = Len(s) + 1
        /\ \A i \in 1..Len(s) : i \in 1..Len(s) + 1
        /\ Len(s) + 1 \in 1..Len(s) + 1
    BY <1>1
  <2> HIDE DEF u
  <2>3. ToSet(u) \subseteq ToSet(s) \cup {x}
    BY <1>1, <2>1, <2>2 DEF ToSet
  <2>4. ToSet(s) \cup {x} \subseteq ToSet(u)
    BY <1>1, <2>1, <2>2 DEF ToSet
  <2> QED
    BY <2>1, <2>3, <2>4 DEF u
<1>3. ToSet(s \o t) = ToSet(s) \cup ToSet(t)
  <2> DEFINE u == s \o t
  <2>1. /\ DOMAIN u = 1..Len(s) + Len(t)
        /\ \A i \in 1..Len(s) : u[i] = s[i]
        /\ \A i \in Len(s) + 1..Len(s) + Len(t) : u[i] = t[i - Len(s)]
    BY ConcatProperties
  <2>2. /\ \A i \in 1..Len(s) + Len(t) : \/ i \in 1..Len(s)
                                         \/ i \in Len(s) + 1..Len(s) + Len(t) /\ i - Len(s) \in 1..Len(t)
        /\ \A i \in 1..Len(s) : i \in 1..Len(s) + Len(t)
        /\ \A i \in 1..Len(t) : /\ i + Len(s) \in Len(s) + 1..Len(s) + Len(t)
                                /\ i + Len(s) \in 1..Len(s) + Len(t)
                                /\ i + Len(s) - Len(s) = i
    BY <1>1
  <2> HIDE DEF u
  <2>3. ToSet(u) \subseteq ToSet(s) \cup ToSet(t)
    BY <1>1, <2>1, <2>2 DEF ToSet
  <2>4. ToSet(s) \subseteq ToSet(u)
    BY <1>1, <2>1, <2>2 DEF ToSet
  <2>5. ToSet(t) \subseteq ToSet(u)
    BY <1>1, <2>1, <2>2 DEF ToSet
  <2> QED
    BY <2>3, <2>4, <2>5 DEF u
<1> QED
  BY <1>2, <1>3

\* An edit and its transaction: nothing, if it changes nothing; else the page
\* as it was goes on its stack.
LEMMA EditHistory ==
    ASSUME IInv, NEW p \in Pages, NEW c, Edit(p, c)
    PROVE  /\ pages' = [pages EXCEPT ![p] = c]
           /\ c = pages[p] => history' = history
           /\ c # pages[p] =>
                history' = [past    |-> [history.past EXCEPT ![p] = PushCapped(history.past[p], pages[p])],
                            future  |-> [history.future EXCEPT ![p] = <<>>],
                            pending |-> NoTx]
<1> DEFINE tx == [page |-> p, kind |-> Structure, before |-> pages[p]]
           B == [nodes : SUBSET Nodes, regions : UNION {[D -> SUBSET Nodes] : D \in SUBSET (1..MaxRegions)}]
           o == [past |-> history.past, future |-> history.future, pending |-> tx]
<1>1. pages[p] \in Contents(minted) /\ minted \in Nat /\ minted <= MaxRegions /\ MaxRegions \in Nat
  BY RegionsAssumption DEF IInv
<1>2. tx # NoTx
  <2>1. pages[p] \in B
    <3>1. pages[p].regions \in Regs(MaxRegions)
      BY <1>1, RegsGrow DEF Contents
    <3>2. pages[p].regions \in [DOMAIN pages[p].regions -> SUBSET Nodes]
          /\ DOMAIN pages[p].regions \in SUBSET (1..MaxRegions)
      BY <1>1, <3>1, RegsKnown
    <3>3. pages[p].nodes \in SUBSET Nodes /\ pages[p] = [nodes |-> pages[p].nodes, regions |-> pages[p].regions]
      BY <1>1 DEF Contents
    <3>4. pages[p].regions \in UNION {[D -> SUBSET Nodes] : D \in SUBSET (1..MaxRegions)}
      BY <3>2
    <3> QED
      BY <3>3, <3>4
  <2> HIDE DEF B
  <2>2. tx \in [page : Pages, kind : {Structure}, before : B]
    BY <2>1
  <2> QED
    BY <2>2, NoTxAssumption DEF B
<1>3. /\ history = [past |-> history.past, future |-> history.future, pending |-> NoTx]
      /\ history.pending = NoTx
  BY DEF IInv, Histories
<1> HIDE DEF tx
<1>4. Record(history, p, pages[p], Structure, FALSE) = o
  <2>1. ~Continues(history, p, Structure, FALSE)
    BY DEF Continues
  <2>2. Seal(history, p, pages[p]) = history
    BY <1>3 DEF Seal
  <2>3. Record(history, p, pages[p], Structure, FALSE) = [history EXCEPT !.pending = tx]
    BY <2>1, <2>2 DEF Record, tx
  <2> QED
    BY <1>3, <2>3
<1>5. o.pending = tx /\ o.past = history.past /\ o.future = history.future
  OBVIOUS
<1>6. tx.page = p /\ tx.before = pages[p]
  BY DEF tx
<1>7. [o EXCEPT !.pending = NoTx] = history
  BY <1>3
<1> HIDE DEF o
<1>8. history' = Seal(o, p, c) /\ pages' = [pages EXCEPT ![p] = c]
  BY <1>4 DEF Edit
<1> QED
  BY <1>2, <1>5, <1>6, <1>7, <1>8 DEF Seal, ChangedNothing

\* What is on the stacks of a page after an edit of page p.
StacksMove(p) ==
    /\ \A q \in Pages \ {p} : ToSet(Stack(q))' = ToSet(Stack(q))
    /\ ToSet(Stack(p))' \subseteq ToSet(Stack(p)) \cup {pages[p]}
    /\ pages'[p] # pages[p] => pages[p] \in ToSet(Stack(p))'

\* The stacks of a page.
LEMMA StackLemma ==
    ASSUME NEW m \in Nat, history \in Histories(m), NEW q \in Pages
    PROVE  ToSet(Stack(q)) = ToSet(history.past[q]) \cup ToSet(history.future[q])
<1>1. history.past[q] \in Seq(Contents(m)) /\ history.future[q] \in Seq(Contents(m))
  BY DEF Histories
<1>2. ASSUME NEW C, NEW s \in Seq(C), NEW t \in Seq(C)
      PROVE  ToSet(s \o t) = ToSet(s) \cup ToSet(t)
  <2>1. CASE \E x : x \in C
    BY <2>1, <1>2, JoinLemma
  <2>2. CASE ~ \E x : x \in C
    <3>1. s = <<>> /\ t = <<>>
      BY <1>2, <2>2
    <3> QED
      BY <3>1 DEF ToSet
  <2> QED
    BY <2>1, <2>2
<1> QED
  BY <1>1, <1>2 DEF Stack

\* An edit that leaves a page in order leaves all in order.
LEMMA EditLemma ==
    ASSUME IInv, NEW p \in Pages, NEW c, Edit(p, c),
           minted' \in Nat, minted <= minted', c \in Contents(minted')
    PROVE  /\ pages' \in [Pages -> Contents(minted')]
           /\ history' \in Histories(minted')
           /\ StacksMove(p)
<1> DEFINE C == Contents(minted')
<1>1. minted \in Nat
  BY RegionsAssumption DEF IInv
<1>2. Contents(minted) \subseteq C
  BY <1>1, RegsGrow
<1>3. pages \in [Pages -> C]
  BY <1>2 DEF IInv
<1>4. /\ history.past \in [Pages -> Seq(C)] /\ history.future \in [Pages -> Seq(C)]
      /\ history = [past |-> history.past, future |-> history.future, pending |-> NoTx]
  <2>1. /\ history.past \in [Pages -> Seq(Contents(minted))] /\ history.future \in [Pages -> Seq(Contents(minted))]
        /\ history = [past |-> history.past, future |-> history.future, pending |-> NoTx]
    BY DEF IInv, Histories
  <2>2. Seq(Contents(minted)) \subseteq Seq(C)
    BY <1>2
  <2> QED
    BY <2>1, <2>2
<1>5. /\ pages' = [pages EXCEPT ![p] = c]
      /\ c = pages[p] => history' = history
      /\ c # pages[p] => history' = [past    |-> [history.past EXCEPT ![p] = PushCapped(history.past[p], pages[p])],
                               future  |-> [history.future EXCEPT ![p] = <<>>],
                               pending |-> NoTx]
  BY EditHistory
<1>6. pages' \in [Pages -> C] /\ pages'[p] = c
  BY <1>3, <1>5
<1>7. history \in Histories(minted') /\ history \in Histories(minted)
  BY <1>4 DEF Histories, IInv
<1>8. CASE c = pages[p]
  <2>1. history' = history
    BY <1>5, <1>8
  <2>2. \A q \in Pages : ToSet(Stack(q))' = ToSet(Stack(q))
    BY <2>1 DEF Stack, ToSet
  <2> QED
    BY <1>6, <1>7, <1>8, <2>1, <2>2 DEF StacksMove
<1>9. CASE c # pages[p]
  <2> DEFINE s == PushCapped(history.past[p], pages[p])
  <2>1. /\ s \in Seq(C) /\ ToSet(s) \subseteq ToSet(history.past[p]) \cup {pages[p]}
        /\ pages[p] \in ToSet(s)
    <3>1. history.past[p] \in Seq(C) /\ pages[p] \in C
      BY <1>3, <1>4
    <3> QED
      BY <3>1, PushLemma
  <2>2. /\ history'.past = [history.past EXCEPT ![p] = s] /\ history'.future = [history.future EXCEPT ![p] = <<>>]
        /\ history' = [past |-> history'.past, future |-> history'.future, pending |-> NoTx]
    BY <1>5, <1>9
  <2> HIDE DEF s
  <2>3. history'.past \in [Pages -> Seq(C)] /\ history'.future \in [Pages -> Seq(C)]
    <3>1. <<>> \in Seq(C)
      OBVIOUS
    <3> HIDE DEF C
    <3> QED
      BY <1>4, <2>1, <2>2, <3>1
  <2>4. history' \in Histories(minted')
    <3> DEFINE H == [past : [Pages -> Seq(C)], future : [Pages -> Seq(C)], pending : {NoTx}]
    <3>1. Histories(minted') = H
      BY DEF Histories
    <3>2. history' = [past |-> history'.past, future |-> history'.future, pending |-> NoTx]
      BY <2>2
    <3> HIDE DEF C
    <3>3. history' \in H
      BY <2>3, <3>2
    <3> QED
      BY <3>1, <3>3
  <2>5. \A q \in Pages : /\ ToSet(Stack(q)) = ToSet(history.past[q]) \cup ToSet(history.future[q])
                         /\ ToSet(Stack(q))' = ToSet(history'.past[q]) \cup ToSet(history'.future[q])
    <3>1. \A q \in Pages : ToSet(Stack(q)) = ToSet(history.past[q]) \cup ToSet(history.future[q])
      BY <1>1, <1>7, StackLemma
    <3>2. ASSUME NEW q \in Pages
          PROVE  ToSet(Stack(q))' = ToSet(history'.past[q]) \cup ToSet(history'.future[q])
      <4>1. history'.past[q] \in Seq(C) /\ history'.future[q] \in Seq(C) /\ pages[p] \in C
        BY <1>3, <2>3
      <4>2. ToSet(history'.past[q] \o history'.future[q]) = ToSet(history'.past[q]) \cup ToSet(history'.future[q])
        BY <4>1, JoinLemma
      <4> QED
        BY <4>2 DEF Stack
    <3> QED
      BY <3>1, <3>2
  <2>6. /\ history'.past[p] = s /\ history'.future[p] = <<>>
        /\ \A q \in Pages \ {p} : history'.past[q] = history.past[q] /\ history'.future[q] = history.future[q]
    BY <1>4, <2>2
  <2>7. ToSet(<<>>) = {}
    BY DEF ToSet
  <2>8. StacksMove(p)
    BY <1>6, <2>1, <2>5, <2>6, <2>7 DEF StacksMove
  <2> QED
    BY <1>6, <2>4, <2>8
<1> QED
  BY <1>8, <1>9

-----------------------------------------------------------------------------
(* Steps, by what they do to a page.  *)

\* Nodes S of page p join region r, or leave the ones they are in.
Joins(p, c, S, r) ==
    \A n \in Nodes : \A q : In(c.regions, n, q) <=> IF n \in S THEN q = r ELSE In(pages[p].regions, n, q)
Leaves(p, c, S) ==
    \A n \in Nodes : \A q : In(c.regions, n, q) <=> n \notin S /\ In(pages[p].regions, n, q)

\* A region that has members, or was never heard of.
HeldOrNew(p, r) == (\E n \in Nodes : In(pages[p].regions, n, r)) \/ r > minted

Groups(p, c) ==
    \E S \in SUBSET Nodes : \/ Leaves(p, c, S)
                            \/ \E r \in Ids : HeldOrNew(p, r) /\ Joins(p, c, S, r)

Changes(p, c) ==
    /\ c \in Contents(minted') /\ Edit(p, c) /\ Groups(p, c)
    /\ minted' \in minted..MaxRegions
    /\ UNCHANGED <<active, grouping>>

\* A page whose regions are others.
LEMMA RegroupLemma ==
    ASSUME IInv, NEW p \in Pages, NEW k \in Nat, NEW rs \in Regs(k)
    PROVE  /\ [pages[p] EXCEPT !.regions = rs] = [nodes |-> pages[p].nodes, regions |-> rs]
           /\ [pages[p] EXCEPT !.regions = rs] \in Contents(k)
           /\ [pages[p] EXCEPT !.regions = rs].regions = rs
<1> DEFINE c == pages[p]
<1>1. c \in [nodes : SUBSET Nodes, regions : Regs(minted)]
  BY DEF IInv, Contents
<1> HIDE DEF c
<1>2. [c EXCEPT !.regions = rs] = [nodes |-> c.nodes, regions |-> rs]
  BY <1>1
<1>3. [nodes |-> c.nodes, regions |-> rs] \in [nodes : SUBSET Nodes, regions : Regs(k)]
  BY <1>1
<1> QED
  BY <1>2, <1>3 DEF Contents, c

\* Regions of a page on the way: what is known before any step.
LEMMA PageKnown ==
    ASSUME IInv
    PROVE  /\ minted \in Nat /\ MaxRegions \in Nat /\ minted <= MaxRegions
           /\ active \in Pages
           /\ \A p \in Pages : /\ pages[p] \in Contents(minted)
                               /\ pages[p].nodes \subseteq Nodes
                               /\ pages[p].regions \in Regs(minted)
                               /\ DOMAIN pages[p].regions \subseteq 1..minted
                               /\ \A r \in DOMAIN pages[p].regions :
                                    pages[p].regions[r] \subseteq Nodes /\ pages[p].regions[r] # {}
<1>1. minted \in Nat /\ MaxRegions \in Nat /\ minted <= MaxRegions /\ active \in Pages
  BY RegionsAssumption DEF IInv
<1>2. ASSUME NEW p \in Pages
      PROVE  /\ pages[p] \in Contents(minted) /\ pages[p].nodes \subseteq Nodes
             /\ pages[p].regions \in Regs(minted)
  BY DEF IInv, Contents
<1> QED
  BY <1>1, <1>2, RegsKnown

\* A new region.
LEMMA InsertChanges ==
    ASSUME IInv, NEW p \in Pages, NEW S \in (SUBSET Nodes) \ {{}}, Mint,
           Regroup(p, Insert(pages[p].regions, minted + 1, S)), UNCHANGED <<active, grouping>>
    PROVE  \E c : Changes(p, c)
<1> DEFINE t == Insert(pages[p].regions, minted + 1, S)
           c == [pages[p] EXCEPT !.regions = t]
<1>1. /\ minted \in Nat /\ minted + 1 \in Nat /\ MaxRegions \in Nat
      /\ pages[p].regions \in Regs(minted)
  BY PageKnown
<1>2. /\ t \in Regs(minted + 1)
      /\ \A n, q : In(t, n, q) <=> IF n \in S THEN q = minted + 1 ELSE In(pages[p].regions, n, q)
  BY <1>1, InsertLemma
<1>3. minted' = minted + 1 /\ minted + 1 \in Ids /\ minted' \in minted..MaxRegions /\ minted + 1 > minted
  BY <1>1 DEF Mint, Ids
<1> HIDE DEF t
<1>4. c \in Contents(minted + 1) /\ c.regions = t
  BY <1>1, <1>2, RegroupLemma
<1>5. Edit(p, c)
  BY DEF Regroup, t
<1> HIDE DEF c
<1>6. Joins(p, c, S, minted + 1) /\ HeldOrNew(p, minted + 1) /\ S \in SUBSET Nodes
  BY <1>2, <1>3, <1>4 DEF Joins, HeldOrNew
<1>7. Groups(p, c)
  BY <1>3, <1>6 DEF Groups
<1> QED
  BY <1>3, <1>4, <1>5, <1>7 DEF Changes

\* Nodes that join a region there is.
LEMMA FoldChanges ==
    ASSUME IInv, NEW p \in Pages, NEW S \in SUBSET Nodes, NEW r \in DOMAIN pages[p].regions,
           Regroup(p, FoldInto(pages[p].regions, r, S)), UNCHANGED <<active, grouping, minted>>
    PROVE  \E c : Changes(p, c)
<1> DEFINE t == FoldInto(pages[p].regions, r, S)
           c == [pages[p] EXCEPT !.regions = t]
<1>1. /\ minted \in Nat /\ MaxRegions \in Nat /\ minted <= MaxRegions
      /\ pages[p].regions \in Regs(minted) /\ r \in 1..minted
      /\ pages[p].regions[r] \subseteq Nodes /\ pages[p].regions[r] # {}
  BY PageKnown
<1>2. /\ t \in Regs(minted)
      /\ \A n, q : In(t, n, q) <=> IF n \in S THEN q = r ELSE In(pages[p].regions, n, q)
  <2> DEFINE rs == pages[p].regions
  <2>1. rs \in Regs(minted) /\ minted \in Nat /\ r \in DOMAIN rs
    BY <1>1
  <2> HIDE DEF rs
  <2>2. /\ FoldInto(rs, r, S) \in Regs(minted)
        /\ \A n, q : In(FoldInto(rs, r, S), n, q) <=> IF n \in S THEN q = r ELSE In(rs, n, q)
    BY <2>1, FoldIntoLemma
  <2> QED
    BY <2>2 DEF rs
<1>3. minted' = minted /\ r \in Ids /\ minted' \in minted..MaxRegions
  BY <1>1 DEF Ids
<1> HIDE DEF t
<1>4. c \in Contents(minted) /\ c.regions = t
  BY <1>1, <1>2, RegroupLemma
<1>5. Edit(p, c)
  BY DEF Regroup, t
<1> HIDE DEF c
<1>6. HeldOrNew(p, r)
  BY <1>1 DEF HeldOrNew, In
<1>7. Joins(p, c, S, r)
  BY <1>2, <1>4 DEF Joins
<1>8. Groups(p, c)
  BY <1>3, <1>6, <1>7 DEF Groups
<1> QED
  BY <1>3, <1>4, <1>5, <1>8 DEF Changes

\* Regions that are taken away, and nodes that may be.
LEMMA WithoutChanges ==
    ASSUME IInv, NEW p \in Pages, NEW ids, NEW c, Edit(p, c),
           c.regions = Without(pages[p].regions, ids), c.nodes \subseteq Nodes,
           c = [nodes |-> c.nodes, regions |-> c.regions],
           UNCHANGED <<active, grouping, minted>>
    PROVE  Changes(p, c)
<1> DEFINE rs == pages[p].regions
           S == UNION {rs[r] : r \in ids \cap DOMAIN rs}
<1>1. /\ minted \in Nat /\ MaxRegions \in Nat /\ minted <= MaxRegions /\ rs \in Regs(minted)
      /\ \A r, q \in DOMAIN rs : r # q => rs[r] \cap rs[q] = {}
      /\ \A r \in DOMAIN rs : rs[r] \subseteq Nodes
  BY PageKnown, RegsKnown
<1>2. /\ c.regions \in Regs(minted)
      /\ \A n, q : In(c.regions, n, q) <=> q \notin ids /\ In(rs, n, q)
  <2>1. c.regions = Without(rs, ids)
    OBVIOUS
  <2> HIDE DEF rs, S
  <2>2. /\ Without(rs, ids) \in Regs(minted)
        /\ \A n, q : In(Without(rs, ids), n, q) <=> q \notin ids /\ In(rs, n, q)
    BY <1>1, WithoutLemma
  <2> QED
    BY <2>1, <2>2
<1>3. c \in Contents(minted)
  BY <1>2 DEF Contents
<1>4. \A n, q : In(rs, n, q) => (n \in S <=> q \in ids)
  BY <1>1 DEF In
<1>5. S \in SUBSET Nodes
  BY <1>1
<1>6. Leaves(p, c, S)
  BY <1>2, <1>4 DEF Leaves
<1>7. Groups(p, c)
  BY <1>5, <1>6 DEF Groups
<1>8. minted' = minted /\ minted' \in minted..MaxRegions
  BY <1>1
<1> QED
  BY <1>3, <1>7, <1>8 DEF Changes

\* What is done by hand, by a tool, or to the nodes of a page.
LEMMA EditsChange ==
    ASSUME IInv, ByHand \/ ByTool \/ CreateNode \/ RemoveNodes
    PROVE  \E p \in Pages : \E c : Changes(p, c)
<1>1. /\ minted \in Nat /\ active \in Pages
      /\ \A p \in Pages : pages[p].nodes \subseteq Nodes /\ pages[p].regions \in Regs(minted)
                          /\ pages[p] = [nodes |-> pages[p].nodes, regions |-> pages[p].regions]
  BY PageKnown DEF Contents
<1>2. ASSUME NEW S, Cardinality(S) >= 2
      PROVE  S # {}
  <2>1. Cardinality({}) = 0 /\ ~(0 >= 2)
    BY FS_EmptySet
  <2> QED
    BY <1>2, <2>1
<1>3. ASSUME NEW p \in Pages, NEW ids, Regroup(p, Without(pages[p].regions, ids)),
             UNCHANGED <<active, minted, grouping>>
      PROVE  \E c : Changes(p, c)
  <2> DEFINE t == Without(pages[p].regions, ids)
             c == [pages[p] EXCEPT !.regions = t]
  <2>1. t \in Regs(minted)
    BY <1>1, WithoutLemma
  <2>2. c = [nodes |-> pages[p].nodes, regions |-> t]
    BY <1>1, <2>1, RegroupLemma
  <2>3. Edit(p, c)
    BY <1>3 DEF Regroup
  <2> HIDE DEF c, t
  <2>4. c.regions = t /\ c.nodes = pages[p].nodes /\ c = [nodes |-> c.nodes, regions |-> c.regions]
    BY <2>2
  <2> QED
    BY <1>1, <1>3, <2>3, <2>4, WithoutChanges DEF t
<1>4. CASE GroupSelection
  <2>1. PICK S \in SUBSET Page.nodes : Cardinality(S) >= 2 /\ (GroupFolds(S) \/ GroupCreates(S))
    BY <1>4 DEF GroupSelection
  <2>2. S \in (SUBSET Nodes) \ {{}} /\ UNCHANGED <<active, grouping>>
    BY <1>1, <1>2, <1>4, <2>1 DEF GroupSelection, Page
  <2>3. CASE GroupFolds(S)
    <3>1. PICK r \in Touched(S) : Regroup(active, FoldInto(Page.regions, r, S)) /\ UNCHANGED minted
      BY <2>3 DEF GroupFolds
    <3> QED
      BY <1>1, <2>2, <3>1, FoldChanges DEF Page, Touched
  <2>4. CASE GroupCreates(S)
    BY <1>1, <2>2, <2>4, InsertChanges DEF GroupCreates, Page
  <2> QED
    BY <2>1, <2>3, <2>4
<1>5. CASE UngroupSelection
  <2>1. PICK S \in SUBSET (Page.nodes \cap Grouped(Page.regions)) :
            Regroup(active, Claim(Page.regions, S, None))
    BY <1>5 DEF UngroupSelection
  <2> DEFINE t == Claim(Page.regions, S, None)
             c == [pages[active] EXCEPT !.regions = t]
  <2>2. None \notin DOMAIN Page.regions
    BY NoneAssumption, PageKnown DEF Page
  <2>3. /\ t \in Regs(minted)
        /\ \A n, q : In(t, n, q) <=> n \notin S /\ In(Page.regions, n, q)
    <3> DEFINE rs == Page.regions
    <3>1. rs \in Regs(minted) /\ minted \in Nat /\ None \notin DOMAIN rs
      BY <1>1, <2>2 DEF Page
    <3> HIDE DEF rs
    <3>2. /\ Claim(rs, S, None) \in Regs(minted)
          /\ \A n, q : In(Claim(rs, S, None), n, q) <=> n \notin S /\ In(rs, n, q)
      BY <3>1, ClaimLemma
    <3> QED
      BY <3>2 DEF rs
  <2>4. Edit(active, c)
    BY <2>1 DEF Regroup, Page
  <2> HIDE DEF t
  <2>5. c \in Contents(minted) /\ c.regions = t
    <3>1. minted \in Nat /\ active \in Pages /\ t \in Regs(minted)
      BY <2>3, PageKnown
    <3> QED
      BY <3>1, RegroupLemma
  <2> HIDE DEF c
  <2>6. Leaves(active, c, S) /\ S \in SUBSET Nodes
    BY <1>1, <2>3, <2>5 DEF Leaves, Page
  <2>7. Groups(active, c)
    BY <2>6 DEF Groups
  <2>8. UNCHANGED <<active, minted, grouping>> /\ minted' \in minted..MaxRegions
    BY <1>5, PageKnown DEF UngroupSelection
  <2>9. Changes(active, c)
    BY <2>4, <2>5, <2>7, <2>8 DEF Changes
  <2> QED
    BY <1>1, <2>9
<1>6. CASE RemoveRegion
  BY <1>1, <1>3, <1>6 DEF RemoveRegion, Page
<1>7. CASE ToolGroups
  <2>1. PICK p \in Pages : \E S \in SUBSET pages[p].nodes :
            Cardinality(S) >= 2 /\ Regroup(p, Insert(pages[p].regions, minted + 1, S))
    BY <1>7 DEF ToolGroups
  <2>2. PICK S \in SUBSET pages[p].nodes :
            Cardinality(S) >= 2 /\ Regroup(p, Insert(pages[p].regions, minted + 1, S))
    BY <2>1
  <2>3. S \in (SUBSET Nodes) \ {{}} /\ Mint /\ UNCHANGED <<active, grouping>>
    BY <1>1, <1>2, <1>7, <2>2 DEF ToolGroups
  <2> QED
    BY <2>2, <2>3, InsertChanges
<1>8. CASE ToolAdds
  <2>1. PICK p \in Pages : \E r \in DOMAIN pages[p].regions, S \in SUBSET pages[p].nodes :
            Regroup(p, FoldInto(pages[p].regions, r, S))
    BY <1>8 DEF ToolAdds
  <2>2. PICK r \in DOMAIN pages[p].regions, S \in SUBSET pages[p].nodes :
            Regroup(p, FoldInto(pages[p].regions, r, S))
    BY <2>1
  <2>3. S \in SUBSET Nodes /\ UNCHANGED <<active, minted, grouping>>
    BY <1>1, <1>8 DEF ToolAdds
  <2> QED
    BY <2>2, <2>3, FoldChanges
<1>9. CASE ToolRemoves
  BY <1>3, <1>9 DEF ToolRemoves
<1>10. CASE CreateNode
  <2>1. PICK p \in Pages, n \in Nodes \ KnownNodes : Edit(p, [pages[p] EXCEPT !.nodes = @ \cup {n}])
    BY <1>10 DEF CreateNode
  <2> DEFINE c == [pages[p] EXCEPT !.nodes = @ \cup {n}]
             N == pages[p].nodes \cup {n}
  <2>2. c = [nodes |-> N, regions |-> pages[p].regions] /\ N \subseteq Nodes
    <3> DEFINE g == pages[p]
               M == g.nodes \cup {n}
    <3>1. g = [nodes |-> g.nodes, regions |-> g.regions] /\ M \subseteq Nodes
      BY <1>1
    <3> HIDE DEF g, M
    <3>2. [g EXCEPT !.nodes = M] = [nodes |-> M, regions |-> g.regions]
      BY <3>1
    <3>3. c = [g EXCEPT !.nodes = M]
      BY DEF g, M
    <3> QED
      BY <3>1, <3>2, <3>3 DEF g, M
  <2>3. Without(pages[p].regions, {}) = pages[p].regions
    <3>1. pages[p].regions = [r \in DOMAIN pages[p].regions |-> pages[p].regions[r]]
      BY <1>1, RegsKnown
    <3>2. DOMAIN pages[p].regions \ {} = DOMAIN pages[p].regions
      OBVIOUS
    <3> QED
      BY <3>1, <3>2 DEF Without
  <2>4. UNCHANGED <<active, minted, grouping>>
    BY <1>10 DEF CreateNode
  <2>5. Edit(p, c)
    BY <2>1
  <2> HIDE DEF c, N
  <2>6. c.regions = Without(pages[p].regions, {}) /\ c.nodes \subseteq Nodes
        /\ c = [nodes |-> c.nodes, regions |-> c.regions]
    BY <2>2, <2>3
  <2>7. Changes(p, c)
    BY <2>4, <2>5, <2>6, WithoutChanges
  <2> QED
    BY <2>7
<1>11. CASE RemoveNodes
  <2>1. PICK p \in Pages : \E S \in SUBSET pages[p].nodes :
            Edit(p, [nodes |-> pages[p].nodes \ S,
                     regions |-> Prune(pages[p].regions, pages[p].nodes \ S)])
    BY <1>11 DEF RemoveNodes
  <2>2. PICK S \in SUBSET pages[p].nodes :
            Edit(p, [nodes |-> pages[p].nodes \ S,
                     regions |-> Prune(pages[p].regions, pages[p].nodes \ S)])
    BY <2>1
  <2> DEFINE live == pages[p].nodes \ S
             c == [nodes |-> live, regions |-> Prune(pages[p].regions, live)]
             ids == {r \in DOMAIN pages[p].regions : pages[p].regions[r] \cap live = {}}
  <2>3. Edit(p, c) /\ c.regions = Without(pages[p].regions, ids)
    BY <2>2 DEF Prune
  <2>4. c.nodes \subseteq Nodes /\ c = [nodes |-> c.nodes, regions |-> c.regions]
    BY <1>1
  <2>5. UNCHANGED <<active, minted, grouping>>
    BY <1>11 DEF RemoveNodes
  <2> HIDE DEF c, ids
  <2>6. Changes(p, c)
    BY <2>3, <2>4, <2>5, WithoutChanges
  <2> QED
    BY <2>6
<1> QED
  BY <1>4, <1>5, <1>6, <1>7, <1>8, <1>9, <1>10, <1>11 DEF ByHand, ByTool

\* What a late answer does to the page on screen.
Regrouped(c) ==
    /\ c \in Contents(minted') /\ Edit(active, c)
    /\ Moved(Page.regions, c.regions, grouping.nodes, grouping.replaces)
    /\ \A r \in DOMAIN c.regions : r > minted \/ r \in DOMAIN Page.regions
    /\ minted' \in minted..MaxRegions

\* The answer of the model, landed on the page on screen.
LEMMA AnsweredLemma ==
    ASSUME IInv, Answered
    PROVE  /\ grouping # None /\ grouping' = None /\ active' = active
           /\ \/ \E c : Regrouped(c)
              \/ UNCHANGED <<pages, history, minted>>
<1>1. grouping # None /\ grouping' = None /\ active' = active
  BY DEF Answered
<1>2. /\ grouping.nodes \in SUBSET Nodes /\ grouping.labels \in SUBSET Ids
      /\ grouping.replaces \in BOOLEAN
  BY <1>1 DEF IInv, Requests
<1>3. /\ minted \in Nat /\ MaxRegions \in Nat /\ active \in Pages
      /\ pages[active].regions \in Regs(minted)
  BY PageKnown
<1>4. CASE UNCHANGED <<pages, history, minted>>
  BY <1>1, <1>4
<1>5. ASSUME NEW plan \in Plans[<<grouping.nodes, grouping.labels>>]
                          \cup (Clusterings(grouping.nodes \cap Page.nodes) \ {<<>>}),
             LET landed == ApplyGrouping(Page.regions, plan, grouping.replaces)
             IN  /\ landed.minted <= MaxRegions
                 /\ Regroup(active, landed.regions) /\ minted' = landed.minted
      PROVE  \E c : Regrouped(c)
  <2> DEFINE A == grouping.nodes
             landed == ApplyGrouping(Page.regions, plan, grouping.replaces)
             c == [pages[active] EXCEPT !.regions = landed.regions]
  <2>1. plan \in Seq(Parts(A, grouping.labels))
    <3>1. CASE plan \in Plans[<<grouping.nodes, grouping.labels>>]
      BY <1>2, <3>1, PlansLemma
    <3>2. CASE plan \in Clusterings(grouping.nodes \cap Page.nodes)
      <4>1. grouping.nodes \cap Page.nodes \in SUBSET A
        OBVIOUS
      <4> HIDE DEF A
      <4> QED
        BY <1>2, <3>2, <4>1, ClusteringsLemma DEF A
    <3> QED
      BY <1>5, <3>1, <3>2
  <2>2. landed \in Landings(Page.regions, minted, A, grouping.replaces)
    BY <1>2, <1>3, <2>1, ApplyGroupingLemma DEF Page
  <2>3. landed.minted <= MaxRegions /\ Edit(active, c) /\ minted' = landed.minted
    BY <1>5 DEF Regroup
  <2> HIDE DEF landed
  <2>4. /\ landed.minted \in Nat /\ landed.minted >= minted /\ landed.regions \in Regs(landed.minted)
        /\ \A r \in DOMAIN landed.regions : r > minted \/ r \in DOMAIN Page.regions
        /\ Moved(Page.regions, landed.regions, A, grouping.replaces)
    BY <1>3, <2>2, LandingKnown
  <2>5. c \in Contents(landed.minted) /\ c.regions = landed.regions
    <3> DEFINE k == landed.minted
               g == landed.regions
    <3>1. k \in Nat /\ g \in Regs(k) /\ active \in Pages
      BY <1>3, <2>4
    <3> HIDE DEF k, g
    <3>2. /\ [pages[active] EXCEPT !.regions = g] \in Contents(k)
          /\ [pages[active] EXCEPT !.regions = g].regions = g
      BY <3>1, RegroupLemma
    <3> QED
      BY <3>2 DEF k, g
  <2> HIDE DEF c, A
  <2>6. minted' \in minted..MaxRegions
    BY <1>3, <2>3, <2>4
  <2> QED
    BY <2>3, <2>4, <2>5, <2>6 DEF Regrouped, A
<1> QED
  BY <1>1, <1>4, <1>5 DEF Answered

\* Undo and redo: a page for one of its stack, which takes the page it was.
Returns(c) ==
    /\ pages' = [pages EXCEPT ![active] = c]
    /\ c \in ToSet(Stack(active))
    /\ history' \in Histories(minted)
    /\ StacksMove(active)
    /\ UNCHANGED <<active, minted, grouping>>

\* Both of them.
LEMMA ReturnsLemma ==
    ASSUME IInv, Undo \/ Redo
    PROVE  \E c \in Contents(minted) : Returns(c)
<1> DEFINE C == Contents(minted)
           p == active
<1>1. /\ minted \in Nat /\ active \in Pages /\ pages \in [Pages -> C] /\ history \in Histories(minted)
  BY PageKnown DEF IInv
<1>2. /\ history.past \in [Pages -> Seq(C)] /\ history.future \in [Pages -> Seq(C)]
      /\ history.pending = NoTx
  BY <1>1 DEF Histories
<1>3. \A q \in Pages : ToSet(Stack(q)) = ToSet(history.past[q]) \cup ToSet(history.future[q])
  BY <1>1, StackLemma
<1>4. Page \in C
  BY <1>1 DEF Page
<1> HIDE DEF C
<1>5. ASSUME NEW s \in Seq(C), NEW t \in Seq(C), NEW c \in C,
             history' = [past    |-> [history.past EXCEPT ![active] = s],
                         future  |-> [history.future EXCEPT ![active] = t],
                         pending |-> NoTx],
             pages' = [pages EXCEPT ![active] = c], c \in ToSet(Stack(active)),
             ToSet(s) \cup ToSet(t) \subseteq ToSet(Stack(active)) \cup {Page},
             Page \in ToSet(s) \cup ToSet(t),
             UNCHANGED <<active, minted, grouping>>
      PROVE  Returns(c)
  <2>1. history'.past = [history.past EXCEPT ![active] = s] /\ history'.future = [history.future EXCEPT ![active] = t]
        /\ history' = [past |-> history'.past, future |-> history'.future, pending |-> NoTx]
    BY <1>5
  <2>2. history'.past \in [Pages -> Seq(C)] /\ history'.future \in [Pages -> Seq(C)]
    BY <1>2, <1>5, <2>1
  <2>3. history' \in Histories(minted)
    <3>1. history' = [past |-> history'.past, future |-> history'.future, pending |-> NoTx]
      BY <2>1
    <3> DEFINE H == [past : [Pages -> Seq(C)], future : [Pages -> Seq(C)], pending : {NoTx}]
    <3>2. H = Histories(minted)
      BY DEF Histories, C
    <3>3. history' \in H
      BY <2>2, <3>1
    <3> QED
      BY <3>2, <3>3
  <2>4. \A q \in Pages : ToSet(Stack(q))' = ToSet(history'.past[q]) \cup ToSet(history'.future[q])
    <3> SUFFICES ASSUME NEW q \in Pages
                 PROVE  ToSet(Stack(q))' = ToSet(history'.past[q]) \cup ToSet(history'.future[q])
      OBVIOUS
    <3>1. history'.past[q] \in Seq(C) /\ history'.future[q] \in Seq(C)
      BY <2>2
    <3>2. ToSet(history'.past[q] \o history'.future[q]) = ToSet(history'.past[q]) \cup ToSet(history'.future[q])
      BY <1>4, <3>1, JoinLemma
    <3> QED
      BY <3>2 DEF Stack
  <2>5. history'.past[active] = s /\ history'.future[active] = t
        /\ \A q \in Pages \ {active} : history'.past[q] = history.past[q] /\ history'.future[q] = history.future[q]
    BY <1>1, <1>2, <2>1
  <2>6. StacksMove(active)
    BY <1>1, <1>3, <1>5, <2>4, <2>5 DEF StacksMove, Page
  <2> QED
    BY <1>5, <2>3, <2>6 DEF Returns
<1>6. CASE Undo
  <2>1. Seal(history, active, Page) = history
    BY <1>2 DEF Seal
  <2> DEFINE o == history.past[active]
             s == FrontOf(o)
             t == Append(history.future[active], Page)
             c == LastOf(o)
  <2>2. o \in Seq(C) /\ o # <<>> /\ history.future[active] \in Seq(C)
    BY <1>1, <1>2, <1>6, <2>1 DEF Undo, CanStepBack
  <2>3. history' = [past    |-> [history.past EXCEPT ![active] = s],
                    future  |-> [history.future EXCEPT ![active] = t],
                    pending |-> NoTx]
    BY <1>6, <2>1, <2>2 DEF Undo, StepBack
  <2>4. pages' = [pages EXCEPT ![active] = c] /\ UNCHANGED <<active, minted, grouping>>
    BY <1>6, <2>1 DEF Undo, Undone
  <2>5. ToSet(Stack(active)) = ToSet(o) \cup ToSet(history.future[active])
    BY <1>1, <1>3
  <2> HIDE DEF o
  <2>6. s \in Seq(C) /\ ToSet(s) \subseteq ToSet(o) /\ c \in C /\ c \in ToSet(o)
    BY <2>2, PopLemma
  <2>7. t \in Seq(C) /\ ToSet(t) = ToSet(history.future[active]) \cup {Page}
    BY <1>4, <2>2, JoinLemma
  <2> HIDE DEF s, t, c
  <2>8. Returns(c)
    BY <1>5, <2>3, <2>4, <2>5, <2>6, <2>7
  <2> QED
    BY <2>6, <2>8 DEF C
<1>7. CASE Redo
  <2> DEFINE o == history.future[active]
             s == Append(history.past[active], Page)
             t == FrontOf(o)
             c == LastOf(o)
  <2>2. o \in Seq(C) /\ o # <<>> /\ history.past[active] \in Seq(C)
    BY <1>1, <1>2, <1>7 DEF Redo, CanStepForward
  <2>3. history' = [past    |-> [history.past EXCEPT ![active] = s],
                    future  |-> [history.future EXCEPT ![active] = t],
                    pending |-> NoTx]
    BY <1>2, <1>7 DEF Redo, StepForward
  <2>4. pages' = [pages EXCEPT ![active] = c] /\ UNCHANGED <<active, minted, grouping>>
    BY <1>7 DEF Redo, Redone
  <2>5. ToSet(Stack(active)) = ToSet(history.past[active]) \cup ToSet(o)
    BY <1>1, <1>3
  <2> HIDE DEF o
  <2>6. t \in Seq(C) /\ ToSet(t) \subseteq ToSet(o) /\ c \in C /\ c \in ToSet(o)
    BY <2>2, PopLemma
  <2>7. s \in Seq(C) /\ ToSet(s) = ToSet(history.past[active]) \cup {Page}
    BY <1>4, <2>2, JoinLemma
  <2> HIDE DEF s, t, c
  <2>8. Returns(c)
    BY <1>5, <2>3, <2>4, <2>5, <2>6, <2>7
  <2> QED
    BY <2>6, <2>8 DEF C
<1> QED
  BY <1>6, <1>7

\* A question asked: of the page on screen, and of as many nodes as fit.
Opens(S, b) ==
    /\ grouping = None /\ grouping' # None
    /\ S \in SUBSET Nodes /\ Cardinality(S) \in 1..MaxPrompt
    /\ grouping' \in Requests
    /\ grouping'.page = active /\ grouping'.nodes = S /\ grouping'.replaces = b
    /\ UNCHANGED <<pages, active, history, minted>>

\* start_grouping.
LEMMA OpensLemma ==
    ASSUME IInv, StartGrouping
    PROVE  \E S \in SUBSET Nodes : \E b \in BOOLEAN : Opens(S, b)
<1>1. /\ minted \in Nat /\ minted <= MaxRegions /\ MaxRegions \in Nat /\ active \in Pages
      /\ Page.nodes \subseteq Nodes /\ DOMAIN Page.regions \subseteq 1..minted
  BY PageKnown DEF Page
<1>2. ASSUME NEW b \in BOOLEAN, NEW N \in SUBSET Nodes, N # {}, NEW labels \in SUBSET Ids,
             grouping = None, Asked(b, N, labels), UNCHANGED <<pages, active, history, minted>>
      PROVE  \E S \in SUBSET Nodes : Opens(S, b)
  <2>1. PICK S \in Numbered(N) : grouping' = [page |-> active, nodes |-> S, labels |-> labels, replaces |-> b]
    BY <1>2 DEF Asked
  <2>2. S \in SUBSET N /\ Cardinality(S) = IF Cardinality(N) < MaxPrompt THEN Cardinality(N) ELSE MaxPrompt
    BY <2>1 DEF Numbered, kSubset
  <2>3. IsFiniteSet(N) /\ Cardinality(N) \in Nat /\ Cardinality(N) # 0
    BY <1>2, RegionsAssumption, FS_Subset, FS_CardinalityType, FS_EmptySet
  <2>4. Cardinality(S) \in 1..MaxPrompt
    BY <2>2, <2>3, RegionsAssumption
  <2>5. grouping' \in Requests
    BY <1>1, <1>2, <2>1, <2>2 DEF Requests
  <2>6. grouping' # None
    BY <2>5, NoneAssumption DEF Requests, Ids
  <2> QED
    BY <1>2, <2>1, <2>2, <2>4, <2>5, <2>6 DEF Opens
<1>3. Cardinality({}) = 0 /\ ~(0 >= MinGroup)
  BY FS_EmptySet DEF MinGroup
<1>4. Groupable(Page) \in SUBSET Nodes /\ Ungrouped(Page) \in SUBSET Nodes
  BY <1>1 DEF Groupable, Ungrouped
<1>5. CASE CanExtend(Page) /\ Asked(FALSE, Ungrouped(Page), DOMAIN Page.regions)
  <2>1. Ungrouped(Page) # {} /\ DOMAIN Page.regions \in SUBSET Ids /\ FALSE \in BOOLEAN
    BY <1>1, <1>3, <1>5 DEF CanExtend, Ids
  <2>2. \E S \in SUBSET Nodes : Opens(S, FALSE)
    BY <1>2, <1>4, <1>5, <2>1 DEF StartGrouping
  <2> QED
    BY <2>2
<1>6. CASE CanPartition(Page) /\ Asked(TRUE, Groupable(Page), {})
  <2>1. Groupable(Page) # {} /\ {} \in SUBSET Ids /\ TRUE \in BOOLEAN
    BY <1>3, <1>6 DEF CanPartition
  <2>2. \E S \in SUBSET Nodes : Opens(S, TRUE)
    BY <1>2, <1>4, <1>6, <2>1 DEF StartGrouping
  <2> QED
    BY <2>2
<1> QED
  BY <1>5, <1>6 DEF StartGrouping

-----------------------------------------------------------------------------
(* The invariant.  *)

\* No page has a region yet.
LEMMA InitIInv == Init => IInv
<1> SUFFICES ASSUME Init PROVE IInv
  OBVIOUS
<1>1. PICK at \in [Nodes -> Pages \cup {None}] :
         pages = [p \in Pages |-> [nodes |-> {n \in Nodes : at[n] = p}, regions |-> <<>>]]
  BY DEF Init
<1>2. minted = 0 /\ grouping = None /\ active \in Pages /\ history = EmptyHistory(Pages)
  BY DEF Init
<1>3. <<>> \in Regs(0)
  <2> DEFINE e == <<>>
  <2>1. DOMAIN e = {} /\ e = [r \in DOMAIN e |-> e[r]]
    OBVIOUS
  <2> HIDE DEF e
  <2>2. e \in Regs(0)
    BY <2>1, RegsMade
  <2> QED
    BY <2>2 DEF e
<1>4. pages \in [Pages -> Contents(0)]
  <2>1. \A p \in Pages : [nodes |-> {n \in Nodes : at[n] = p}, regions |-> <<>>] \in Contents(0)
    BY <1>3 DEF Contents
  <2> QED
    BY <1>1, <2>1
<1>5. history \in Histories(0)
  <2> DEFINE C == Contents(0)
  <2>1. <<>> \in Seq(C)
    OBVIOUS
  <2> HIDE DEF C
  <2>2. history \in [past : [Pages -> Seq(C)], future : [Pages -> Seq(C)], pending : {NoTx}]
    BY <1>2, <2>1 DEF EmptyHistory
  <2> QED
    BY <2>2 DEF Histories, C
<1>6. 0 \in 0..MaxRegions
  BY RegionsAssumption
<1> QED
  BY <1>2, <1>4, <1>5, <1>6 DEF IInv

\* What a step can be: a change of one page, the answer, a return, a question,
\* or another page on the screen.
LEMMA StepShapes ==
    ASSUME IInv, [Next]_vars
    PROVE  \/ \E p \in Pages : \E c : Changes(p, c)
           \/ grouping # None /\ grouping' = None /\ active' = active
              /\ ((\E c : Regrouped(c)) \/ UNCHANGED <<pages, history, minted>>)
           \/ \E c \in Contents(minted) : Returns(c)
           \/ \E S \in SUBSET Nodes : \E b \in BOOLEAN : Opens(S, b)
           \/ active' \in Pages /\ UNCHANGED <<pages, history, minted, grouping>>
<1>1. CASE ByHand \/ ByTool \/ CreateNode \/ RemoveNodes
  BY <1>1, EditsChange
<1>2. CASE StartGrouping
  BY <1>2, OpensLemma
<1>3. CASE Answered
  BY <1>3, AnsweredLemma
<1>4. CASE Undo \/ Redo
  BY <1>4, ReturnsLemma
<1>5. CASE SwitchPage
  BY <1>5 DEF SwitchPage
<1>6. CASE UNCHANGED vars
  BY <1>6 DEF vars, IInv
<1> QED
  BY <1>1, <1>2, <1>3, <1>4, <1>5, <1>6 DEF Next, ByModel, Meanwhile

\* Every handler keeps it.
LEMMA StepIInv == IInv /\ [Next]_vars => IInv'
<1> SUFFICES ASSUME IInv, [Next]_vars PROVE IInv'
  OBVIOUS
<1>1. minted \in Nat /\ MaxRegions \in Nat /\ minted <= MaxRegions /\ active \in Pages
  BY PageKnown
<1>2. grouping # None => grouping \in Requests /\ Cardinality(grouping.nodes) \in 1..MaxPrompt
  BY DEF IInv
<1>3. ASSUME NEW p \in Pages, NEW c, Edit(p, c), c \in Contents(minted'),
             minted' \in minted..MaxRegions
      PROVE  /\ pages' \in [Pages -> Contents(minted')]
             /\ history' \in Histories(minted')
             /\ minted' \in 0..MaxRegions
  <2>1. minted' \in Nat /\ minted <= minted' /\ minted' \in 0..MaxRegions
    BY <1>1, <1>3
  <2> QED
    BY <1>3, <2>1, EditLemma
<1>4. ASSUME NEW p \in Pages, NEW c, Changes(p, c)
      PROVE  IInv'
  <2>1. Edit(p, c) /\ c \in Contents(minted') /\ minted' \in minted..MaxRegions /\ UNCHANGED <<active, grouping>>
    BY <1>4 DEF Changes
  <2>2. pages' \in [Pages -> Contents(minted')] /\ history' \in Histories(minted') /\ minted' \in 0..MaxRegions
    BY <1>3, <2>1
  <2> QED
    BY <1>1, <1>2, <2>1, <2>2 DEF IInv, Requests, Contents, Histories, Regs
<1>5. ASSUME grouping' = None, active' = active,
             (\E c : Regrouped(c)) \/ UNCHANGED <<pages, history, minted>>
      PROVE  IInv'
  <2>1. CASE \E c : Regrouped(c)
    <3>1. PICK c : Regrouped(c)
      BY <2>1
    <3>2. Edit(active, c) /\ c \in Contents(minted') /\ minted' \in minted..MaxRegions
      BY <3>1 DEF Regrouped
    <3>3. pages' \in [Pages -> Contents(minted')] /\ history' \in Histories(minted') /\ minted' \in 0..MaxRegions
      BY <1>1, <1>3, <3>2
    <3> QED
      BY <1>1, <1>5, <3>3 DEF IInv, Requests, Contents, Histories, Regs
  <2>2. CASE UNCHANGED <<pages, history, minted>>
    BY <1>5, <2>2 DEF IInv, Requests, Contents, Histories, Regs
  <2> QED
    BY <1>5, <2>1, <2>2
<1>6. ASSUME NEW c \in Contents(minted), Returns(c)
      PROVE  IInv'
  <2>1. pages' = [pages EXCEPT ![active] = c] /\ history' \in Histories(minted)
        /\ UNCHANGED <<active, minted, grouping>>
    BY <1>6 DEF Returns
  <2> DEFINE C == Contents(minted)
  <2>2. pages \in [Pages -> C] /\ c \in C
    BY DEF IInv
  <2> HIDE DEF C
  <2>3. pages' \in [Pages -> C]
    BY <1>1, <2>1, <2>2
  <2>4. pages' \in [Pages -> Contents(minted)]
    BY <2>3 DEF C
  <2> QED
    BY <2>1, <2>4 DEF IInv, Requests, Contents, Histories, Regs
<1>7. ASSUME NEW S \in SUBSET Nodes, NEW b \in BOOLEAN, Opens(S, b)
      PROVE  IInv'
  BY <1>7 DEF Opens, IInv, Requests, Contents, Histories, Regs
<1>8. CASE active' \in Pages /\ UNCHANGED <<pages, history, minted, grouping>>
  BY <1>8 DEF IInv, Requests, Contents, Histories, Regs
<1> QED
  BY <1>4, <1>5, <1>6, <1>7, <1>8, StepShapes

\* Every page is in order at all times.
THEOREM Ordered == Spec => []IInv
<1> QED
  BY InitIInv, StepIInv, PTL DEF Spec

(* "Membership is exclusive" (regions/mod.rs): no node is in two regions of
   its page and no region is empty, whatever by hand, by tool, by a late
   answer or by undo put it there. *)
THEOREM Exclusive == Spec => []ExclusiveMembership
<1>1. IInv => ExclusiveMembership
  <2> SUFFICES ASSUME IInv PROVE ExclusiveMembership
    OBVIOUS
  <2>1. \A p \in Pages : \A r, q \in DOMAIN pages[p].regions :
            r # q => pages[p].regions[r] \cap pages[p].regions[q] = {}
    BY PageKnown, RegsKnown
  <2>2. \A p \in Pages :
          /\ pages[p].nodes \subseteq Nodes
          /\ DOMAIN pages[p].regions \subseteq 1..minted
          /\ \A r \in DOMAIN pages[p].regions : pages[p].regions[r] \in (SUBSET Nodes) \ {{}}
    BY PageKnown
  <2> QED
    BY <2>1, <2>2 DEF ExclusiveMembership, TypeOK, IInv
<1> QED
  BY <1>1, Ordered, PTL

-----------------------------------------------------------------------------
(* The labelling that the regions implement.  *)

\* A node's label is the region it is in, if it is in one.
LEMMA LabelKnown ==
    ASSUME NEW m \in Nat, NEW c \in Contents(m)
    PROVE  /\ LabelOf(c) \in [Nodes -> (1..m) \cup {None}]
           /\ \A n \in Nodes : \A r : In(c.regions, n, r) <=> LabelOf(c)[n] = r /\ r # None
<1> DEFINE rs == c.regions
           of(n) == {r \in DOMAIN rs : n \in rs[r]}
           l == LabelOf(c)
<1>1. /\ DOMAIN rs \subseteq 1..m
      /\ \A r, q \in DOMAIN rs : r # q => rs[r] \cap rs[q] = {}
  <2>1. rs \in Regs(m)
    BY DEF Contents
  <2> HIDE DEF rs
  <2> QED
    BY <2>1, RegsKnown
<1>2. l = [n \in Nodes |-> IF of(n) = {} THEN None ELSE CHOOSE r \in of(n) : TRUE]
  BY DEF LabelOf
<1>3. \A n : \A r : In(rs, n, r) <=> r \in of(n)
  BY DEF In
<1>4. \A n : \A r \in of(n) : r \in 1..m /\ r # None /\ \A q \in of(n) : q = r
  BY <1>1, NoneAssumption
<1> HIDE DEF of, l
<1>5. \A n \in Nodes : IF of(n) = {} THEN l[n] = None ELSE l[n] \in of(n)
  BY <1>2
<1>6. l \in [Nodes -> (1..m) \cup {None}]
  <2>1. l = [n \in Nodes |-> l[n]]
    BY <1>2
  <2>2. \A n \in Nodes : l[n] \in (1..m) \cup {None}
    BY <1>4, <1>5
  <2> QED
    BY <2>1, <2>2
<1>7. ASSUME NEW n \in Nodes, NEW r
      PROVE  In(rs, n, r) <=> l[n] = r /\ r # None
  BY <1>3, <1>4, <1>5
<1> QED
  BY <1>6, <1>7 DEF l

\* The labels of the page on screen and of the ones undo reaches.
LEMMA LabelsKnown ==
    ASSUME IInv
    PROVE  /\ minted \in Nat
           /\ \A p \in Pages : pages[p] \in Contents(minted) /\ Homes[p] = LabelOf(pages[p])
           /\ \A p \in Pages : ToSet(Stack(p)) \subseteq Contents(minted)
<1>1. minted \in Nat /\ history \in Histories(minted)
  BY PageKnown DEF IInv
<1>2. ASSUME NEW p \in Pages
      PROVE  ToSet(Stack(p)) \subseteq Contents(minted)
  <2> DEFINE C == Contents(minted)
  <2>1. history.past[p] \in Seq(C) /\ history.future[p] \in Seq(C)
    BY <1>1 DEF Histories
  <2> HIDE DEF C
  <2>2. \A s \in Seq(C) : ToSet(s) \subseteq C
    BY DEF ToSet
  <2> QED
    BY <1>1, <2>1, <2>2, StackLemma DEF C
<1> QED
  BY <1>1, <1>2, PageKnown DEF Homes

\* What was never given out is on no page that can be reached.
LEMMA NewLabel ==
    ASSUME IInv, NEW r, r > minted, r \in Nat
    PROVE  r \notin Promise!Ever
<1>1. minted \in Nat /\ r \notin 1..minted /\ r # None
  BY LabelsKnown, NoneAssumption
<1>2. ASSUME NEW c \in Contents(minted)
      PROVE  r \notin Promise!Worn(LabelOf(c))
  <2>1. LabelOf(c) \in [Nodes -> (1..minted) \cup {None}]
    BY <1>1, LabelKnown
  <2> QED
    BY <1>1, <2>1 DEF Promise!Worn
<1>3. ASSUME NEW p \in Pages, NEW l \in Reached[p] \cup {Homes[p]}
      PROVE  r \notin Promise!Worn(l)
  <2>1. PICK c \in Contents(minted) : l = LabelOf(c)
    <3>1. CASE l = Homes[p]
      BY <3>1, LabelsKnown
    <3>2. CASE l \in Reached[p]
      <4>1. PICK c \in ToSet(Stack(p)) : l = LabelOf(c)
        BY <3>2 DEF Reached
      <4>2. c \in Contents(minted)
        BY <4>1, LabelsKnown
      <4> QED
        BY <4>1, <4>2
    <3> QED
      BY <1>3, <3>1, <3>2
  <2> QED
    BY <1>2, <2>1
<1> QED
  BY <1>3 DEF Promise!Ever

\* A page changes, and so do its labels: the old ones can be returned to.
LEMMA BecomesLemma ==
    ASSUME IInv, NEW p \in Pages, NEW c,
           pages' = [pages EXCEPT ![p] = c], StacksMove(p)
    PROVE  Promise!Becomes(p, LabelOf(c)) /\ Homes'[p] = LabelOf(c)
<1>1. pages'[p] = c /\ \A q \in Pages \ {p} : pages'[q] = pages[q]
  BY DEF IInv
<1>2. /\ Homes = [q \in Pages |-> LabelOf(pages[q])]
      /\ Homes' = [q \in Pages |-> LabelOf(pages'[q])]
  BY DEF Homes
<1>3. /\ \A q \in Pages : Reached[q] = {LabelOf(d) : d \in ToSet(Stack(q))}
      /\ \A q \in Pages : Reached'[q] = {LabelOf(d) : d \in ToSet(Stack(q))'}
  BY DEF Reached
<1>4. Homes' = [Homes EXCEPT ![p] = LabelOf(c)] /\ Homes'[p] = LabelOf(c)
  BY <1>1, <1>2
<1>5. \A q \in Pages \ {p} : Reached'[q] = Reached[q]
  BY <1>3 DEF StacksMove
<1>6. Reached'[p] \subseteq Reached[p] \cup {Homes[p]}
  BY <1>2, <1>3 DEF StacksMove
<1>7. LabelOf(c) # Homes[p] => Homes[p] \in Reached'[p]
  BY <1>1, <1>2, <1>3 DEF StacksMove
<1> QED
  BY <1>4, <1>5, <1>6, <1>7 DEF Promise!Becomes

\* A change of a page is a label put on some nodes, or taken off.
LEMMA ChangesLabel ==
    ASSUME IInv, NEW p \in Pages, NEW c, Changes(p, c)
    PROVE  Promise!Next
<1>1. /\ minted \in Nat /\ minted' \in Nat /\ minted <= minted'
      /\ c \in Contents(minted') /\ Edit(p, c) /\ Groups(p, c)
      /\ UNCHANGED grouping
  BY PageKnown DEF Changes
<1>2. pages' = [pages EXCEPT ![p] = c] /\ StacksMove(p)
  BY <1>1, EditLemma DEF Edit
<1>3. Promise!Becomes(p, LabelOf(c))
  BY <1>2, BecomesLemma
<1>4. Request' = Request
  BY <1>1 DEF Request
<1> DEFINE l == LabelOf(c)
           h == Homes[p]
<1>5. /\ l \in [Nodes -> (1..minted') \cup {None}]
      /\ \A n \in Nodes : \A r : In(c.regions, n, r) <=> l[n] = r /\ r # None
  BY <1>1, LabelKnown
<1>6. /\ h \in [Nodes -> (1..minted) \cup {None}]
      /\ \A n \in Nodes : \A r : In(pages[p].regions, n, r) <=> h[n] = r /\ r # None
  <2> DEFINE d == pages[p]
  <2>1. minted \in Nat /\ d \in Contents(minted) /\ h = LabelOf(d)
    BY LabelsKnown
  <2> HIDE DEF d, h, l
  <2>2. /\ LabelOf(d) \in [Nodes -> (1..minted) \cup {None}]
        /\ \A n \in Nodes : \A r : In(d.regions, n, r) <=> LabelOf(d)[n] = r /\ r # None
    BY <2>1, LabelKnown
  <2> QED
    BY <2>1, <2>2 DEF d
<1> HIDE DEF l, h
<1>7. ASSUME NEW S \in SUBSET Nodes, Leaves(p, c, S)
      PROVE  Promise!Next
  <2>1. \A n \in Nodes : l[n] = IF n \in S THEN None ELSE h[n]
    BY <1>5, <1>6, <1>7 DEF Leaves
  <2>2. l = [n \in Nodes |-> IF n \in S THEN None ELSE h[n]]
    BY <1>5, <2>1
  <2>3. Promise!Unlabel(p, S)
    BY <1>3, <1>4, <2>2 DEF Promise!Unlabel, l, h
  <2> QED
    BY <2>3 DEF Promise!Next
<1>8. ASSUME NEW S \in SUBSET Nodes, NEW r \in Ids, HeldOrNew(p, r), Joins(p, c, S, r)
      PROVE  Promise!Next
  <2>1. r # None /\ r \in Nat
    BY NoneAssumption, RegionsAssumption DEF Ids
  <2>2. \A n \in Nodes : l[n] = IF n \in S THEN r ELSE h[n]
    BY <1>5, <1>6, <1>8, <2>1 DEF Joins
  <2>3. l = [n \in Nodes |-> IF n \in S THEN r ELSE h[n]]
    BY <1>5, <2>2
  <2>4. r \in Promise!Worn(h) \/ r \notin Promise!Ever
    <3>1. CASE \E n \in Nodes : In(pages[p].regions, n, r)
      BY <1>6, <3>1 DEF Promise!Worn
    <3>2. CASE r > minted
      BY <2>1, <3>2, NewLabel
    <3> QED
      BY <1>8, <3>1, <3>2 DEF HeldOrNew
  <2>5. Promise!Label(p, S, r)
    BY <1>3, <1>4, <2>3, <2>4 DEF Promise!Label, l, h
  <2> QED
    BY <2>5 DEF Promise!Next
<1> QED
  BY <1>1, <1>7, <1>8 DEF Groups

\* The answer is one, whatever became of the page since the question.
LEMMA AnswerLabels ==
    ASSUME IInv, grouping # None, grouping' = None, active' = active,
           (\E c : Regrouped(c)) \/ UNCHANGED <<pages, history, minted>>
    PROVE  Promise!Next
<1>1. /\ grouping.page \in Pages /\ grouping.nodes \in SUBSET Nodes /\ grouping.replaces \in BOOLEAN
      /\ active \in Pages /\ minted \in Nat /\ MaxRegions \in Nat
  BY PageKnown DEF IInv, Requests
<1>2. /\ Request # None /\ Request' = None
      /\ Request.nodes = grouping.nodes /\ Request.replaces = grouping.replaces
  BY <1>1, NoneAssumption DEF Request
<1>3. CASE UNCHANGED <<pages, history, minted>>
  <2>1. Homes' = Homes /\ Reached' = Reached
    BY <1>3 DEF Homes, Reached, Stack
  <2>2. Homes = [Homes EXCEPT ![active] = Homes[active]]
    BY DEF Homes
  <2>3. Promise!Becomes(active, Homes'[active])
    BY <2>1, <2>2 DEF Promise!Becomes
  <2>4. Promise!Answer(active)
    BY <1>2, <2>1, <2>3 DEF Promise!Answer
  <2> QED
    BY <1>1, <2>4 DEF Promise!Next
<1>4. ASSUME NEW c, Regrouped(c)
      PROVE  Promise!Next
  <2>1. /\ c \in Contents(minted') /\ Edit(active, c) /\ minted' \in minted..MaxRegions
        /\ minted' \in Nat /\ minted <= minted'
        /\ Moved(Page.regions, c.regions, grouping.nodes, grouping.replaces)
        /\ \A r \in DOMAIN c.regions : r > minted \/ r \in DOMAIN Page.regions
    BY <1>1, <1>4 DEF Regrouped
  <2>2. pages' = [pages EXCEPT ![active] = c] /\ StacksMove(active)
    BY <1>1, <2>1, EditLemma DEF Edit
  <2>3. Promise!Becomes(active, LabelOf(c)) /\ Homes'[active] = LabelOf(c)
    BY <1>1, <2>2, BecomesLemma
  <2> DEFINE l == LabelOf(c)
             h == Homes[active]
  <2>4. /\ l \in [Nodes -> (1..minted') \cup {None}]
        /\ \A n \in Nodes : \A r : In(c.regions, n, r) <=> l[n] = r /\ r # None
    BY <2>1, LabelKnown
  <2>5. /\ h \in [Nodes -> (1..minted) \cup {None}]
        /\ \A n \in Nodes : \A r : In(Page.regions, n, r) <=> h[n] = r /\ r # None
    <3>1. minted \in Nat /\ Page \in Contents(minted) /\ h = LabelOf(Page)
      BY <1>1, LabelsKnown DEF Page
    <3> HIDE DEF h, l
    <3>2. /\ LabelOf(Page) \in [Nodes -> (1..minted) \cup {None}]
          /\ \A n \in Nodes : \A r : In(Page.regions, n, r) <=> LabelOf(Page)[n] = r /\ r # None
      BY <3>1, LabelKnown
    <3> QED
      BY <3>1, <3>2
  <2>6. Homes'[active] = l
    BY <2>3
  <2> HIDE DEF l
  <2>7. ASSUME NEW r \in Promise!Worn(l) \ Promise!Worn(h)
        PROVE  r \notin Promise!Ever
    <3>1. PICK n \in Nodes : l[n] = r /\ r # None
      BY DEF Promise!Worn
    <3>2. r \in DOMAIN c.regions /\ r \in Nat
      BY <2>1, <2>4, <3>1 DEF In
    <3>3. CASE r \in DOMAIN Page.regions
      <4>1. PICK k \in Nodes : In(Page.regions, k, r)
        BY <1>1, <3>3, PageKnown DEF Page, In
      <4>2. r \in Promise!Worn(h)
        BY <2>5, <4>1 DEF Promise!Worn
      <4> QED
        BY <4>2
    <3>4. CASE r > minted
      BY <3>2, <3>4, NewLabel
    <3> QED
      BY <2>1, <3>2, <3>3, <3>4
  <2> HIDE DEF h
  <2>8. ASSUME NEW n \in Nodes
        PROVE  \/ l[n] = h[n]
               \/ n \in grouping.nodes /\ l[n] # None
               \/ grouping.replaces /\ l[n] = None
    BY <2>1, <2>4, <2>5 DEF Moved
  <2>9. Promise!Answer(active)
    BY <1>2, <2>3, <2>6, <2>7, <2>8 DEF Promise!Answer, l, h
  <2> QED
    BY <1>1, <2>9 DEF Promise!Next
<1> QED
  BY <1>3, <1>4

\* Every handler is a step of the labelling, or changes nothing of it.
LEMMA StepLabels ==
    ASSUME IInv, [Next]_vars
    PROVE  [Promise!Next]_<<Homes, Reached, Request>>
<1>1. active \in Pages /\ IInv
  BY PageKnown
<1>2. ASSUME NEW p \in Pages, NEW c, Changes(p, c)
      PROVE  Promise!Next
  BY <1>2, ChangesLabel
<1>3. ASSUME grouping # None, grouping' = None, active' = active,
             (\E c : Regrouped(c)) \/ UNCHANGED <<pages, history, minted>>
      PROVE  Promise!Next
  BY <1>3, AnswerLabels
<1>4. ASSUME NEW c \in Contents(minted), Returns(c)
      PROVE  Promise!Next
  <2>1. /\ pages' = [pages EXCEPT ![active] = c] /\ c \in ToSet(Stack(active))
        /\ StacksMove(active) /\ UNCHANGED grouping
    BY <1>4 DEF Returns
  <2>2. Promise!Becomes(active, LabelOf(c))
    BY <1>1, <2>1, BecomesLemma
  <2>3. LabelOf(c) \in Reached[active]
    BY <1>1, <2>1 DEF Reached
  <2>4. Request' = Request
    BY <2>1 DEF Request
  <2>5. Promise!Return(active)
    BY <2>2, <2>3, <2>4 DEF Promise!Return
  <2> QED
    BY <1>1, <2>5 DEF Promise!Next
<1>5. ASSUME UNCHANGED <<pages, history>>
      PROVE  Homes' = Homes /\ Reached' = Reached
  BY <1>5 DEF Homes, Reached, Stack
<1>6. ASSUME NEW S \in SUBSET Nodes, NEW b \in BOOLEAN, Opens(S, b)
      PROVE  Promise!Next
  <2>1. /\ grouping = None /\ grouping' # None /\ UNCHANGED <<pages, history>>
        /\ grouping'.page = active /\ grouping'.nodes = S /\ grouping'.replaces = b
    BY <1>6 DEF Opens
  <2>2. Request = None /\ Request' = [page |-> active, nodes |-> S, replaces |-> b]
    BY <2>1 DEF Request
  <2>3. Promise!Ask(active, S, b)
    BY <1>5, <2>1, <2>2 DEF Promise!Ask
  <2> QED
    BY <1>1, <2>3 DEF Promise!Next
<1>7. CASE UNCHANGED <<pages, history, minted, grouping>>
  <2>1. Request' = Request
    BY <1>7 DEF Request
  <2> QED
    BY <1>5, <1>7, <2>1
<1> QED
  BY <1>2, <1>3, <1>4, <1>6, <1>7, StepShapes

\* No node is labelled, no page can be returned to, nothing is asked.
LEMMA InitLabels == Init => Promise!Init
<1> SUFFICES ASSUME Init PROVE Promise!Init
  OBVIOUS
<1>1. IInv
  BY InitIInv
<1>2. grouping = None /\ history = EmptyHistory(Pages) /\ minted = 0
  BY DEF Init
<1>3. Request = None
  BY <1>2 DEF Request
<1>4. Reached = [p \in Pages |-> {}]
  <2>1. \A p \in Pages : Stack(p) = <<>>
    BY <1>2 DEF Stack, EmptyHistory
  <2>2. ToSet(<<>>) = {}
    BY DEF ToSet
  <2> QED
    BY <2>1, <2>2 DEF Reached
<1>5. Homes \in [Pages -> [Nodes -> Ids \cup {None}]]
  <2>1. \A p \in Pages : LabelOf(pages[p]) \in [Nodes -> (1..0) \cup {None}]
    BY <1>1, <1>2, LabelsKnown, LabelKnown
  <2>2. (1..0) \subseteq Ids
    BY DEF Ids
  <2>3. \A p \in Pages : LabelOf(pages[p]) \in [Nodes -> Ids \cup {None}]
    BY <2>1, <2>2
  <2> QED
    BY <2>3 DEF Homes
<1> QED
  BY <1>3, <1>4, <1>5 DEF Promise!Init

(* Grouping moves the nodes it names and no other, a late answer strips nobody
   of a label given meanwhile, a label is not reused, and what changed can be
   undone (regions/mod.rs, suggest.rs). *)
THEOREM Implements == Spec => ImplementsLabels
<1> QED
  BY InitIInv, StepIInv, InitLabels, StepLabels, PTL DEF Spec, ImplementsLabels, Promise!Spec
=============================================================================
