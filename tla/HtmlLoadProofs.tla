--------------------------- MODULE HtmlLoadProofs ---------------------------
(***************************************************************************)
(* Theorems about HtmlLoad for any tree of documents with any number of    *)
(* sheets and images, whatever fails, however the page is stopped and      *)
(* left.  Only documents that are directly in the page ask to be           *)
(* refreshed, and not before the page has boxes (Shallow): what happens    *)
(* otherwise is described in the README.                                   *)
(***************************************************************************)
EXTENDS HtmlLoad, FiniteSetTheorems, WellFoundedInduction, TLAPS

Shallow == ~Prompt /\ \A d \in Refreshing : Parent[d] = Root

-----------------------------------------------------------------------------
(* The invariant *)

Doc == [status : {"NONE", "LOADING", "READY", "DONE", "ERROR"},
        stage : {"source", "sheets", "parsed", "boxes", "laid"},
        locked : BOOLEAN, active : Int, aborted : BOOLEAN,
        sheets : [Sheets -> {"none", "going", "done", "failed"}],
        modified : SUBSET Styles, styles : BOOLEAN,
        objs : [Objects -> {"none", "going", "done", "gone"}],
        told : {"none", "READY", "DONE", "ERROR"}]

Live == {"LOADING", "READY", "DONE"}

\* What document d waits for when its record is r
Waits(d, r) == {s \in Sheets : r.sheets[s] = "going"}
               \cup {o \in Boxed(d) : r.objs[o] = "going"}

Counts(d, r) == r.active = Cardinality(Waits(d, r)) + (IF r.stage = "source" THEN 1 ELSE 0)

(* The stages of a document: locked from its source to its layout; from    *)
(* its boxes on it has no sheet to wait for.                               *)
Staged(r) ==
    /\ r.status = "NONE" => r = Absent
    /\ r.locked => r.status = "LOADING"
    /\ r.status \in {"READY", "DONE"} <=> r.stage = "laid"
    /\ r.status = "LOADING" /\ r.stage # "source" => r.locked
    /\ r.status \in Live /\ r.stage \in {"boxes", "laid"} =>
          r.modified = {} /\ \A s \in Sheets : r.sheets[s] # "going"
    /\ r.styles => r.modified # {}

\* All but that it is DONE as soon as it waits for nothing
Fair(d, r) == /\ r \in Doc /\ Staged(r)
              /\ r.status \in Live => Counts(d, r)
              /\ r.status = "DONE" => r.active = 0

Good(d, r) == Fair(d, r) /\ (r.status = "READY" => r.active # 0)

\* A page knows how far the document k in it has come.
Linked(D, k) ==
    LET o == D[Parent[k]].objs[k]
    IN /\ o = "going" => D[k].status \in {"LOADING", "READY"}
       /\ o = "done" => D[k].status = "DONE"
       /\ D[k].told = "ERROR" => o \notin {"going", "done"}

Sound(D) == /\ D = [d \in Docs |-> D[d]]
            /\ \A d \in Docs : Good(d, D[d])
            /\ \A k \in Docs \ {Root} : Linked(D, k)

IInv == Sound(docs) /\ timers \subseteq Refreshing

-----------------------------------------------------------------------------
(* The tree of documents *)

\* A set of numbers has a least one.
LEMMA Least ==
    ASSUME NEW T \in SUBSET Nat, T # {}
    PROVE  \E s \in T : \A t \in T : s <= t
  <1> DEFINE less == {p \in Nat \X Nat : p[1] < p[2]}
  <1>1. IsWellFoundedOn(less, Nat)
    BY NatLessThanWellFounded, Zenon DEF OpToRel
  <1>2. PICK s \in T : \A t \in T : <<t, s>> \notin less
    BY <1>1, WFMin
  <1>3. ASSUME NEW t \in T PROVE s <= t
    <2>1. s \in Nat /\ t \in Nat
      BY <1>2
    <2>2. t < s => <<t, s>> \in less
      BY <2>1
    <2> QED BY <2>1, <2>2, <1>2
  <1> QED BY <1>3

LEMMA ParentIsDoc == \A k \in Docs \ {Root} : Parent[k] \in Docs
  BY HtmlAssumption DEF Objects

\* How deep each document is in the page
Depth == CHOOSE depth \in [Docs -> 0..Cardinality(Docs)] :
            \A d \in Docs \ {Root} : depth[d] = depth[Parent[d]] + 1

LEMMA DepthFacts ==
    /\ Cardinality(Docs) \in Nat
    /\ \A d \in Docs : Depth[d] \in 0..Cardinality(Docs)
    /\ \A k \in Docs \ {Root} : Depth[k] = Depth[Parent[k]] + 1
  <1>1. IsFiniteSet(Docs)
    BY HtmlAssumption, FS_Subset
  <1>2. Cardinality(Docs) \in Nat
    BY <1>1, FS_CardinalityType
  <1>3. \E depth \in [Docs -> 0..Cardinality(Docs)] :
          \A d \in Docs \ {Root} : depth[d] = depth[Parent[d]] + 1
    BY HtmlAssumption
  <1>4. /\ Depth \in [Docs -> 0..Cardinality(Docs)]
        /\ \A d \in Docs \ {Root} : Depth[d] = Depth[Parent[d]] + 1
    BY <1>3 DEF Depth
  <1> QED BY <1>2, <1>4

LEMMA Shallowest ==
    ASSUME NEW T \in SUBSET Docs, T # {}
    PROVE  \E d \in T : \A e \in T : Depth[d] <= Depth[e]
  <1> DEFINE S == {Depth[d] : d \in T}
  <1>1. S \in SUBSET Nat /\ S # {}
    BY DepthFacts
  <1>2. PICK s \in S : \A t \in S : s <= t
    BY <1>1, Least
  <1> QED BY <1>2

LEMMA Deepest ==
    ASSUME NEW T \in SUBSET Docs, T # {}
    PROVE  \E d \in T : \A e \in T : Depth[e] <= Depth[d]
  <1> DEFINE M == Cardinality(Docs)
             S == {M - Depth[d] : d \in T}
  <1>0. \A d \in T : M - Depth[d] \in Nat /\ Depth[d] \in Nat /\ M \in Nat
    BY DepthFacts
  <1>1. S \in SUBSET Nat /\ S # {}
    BY <1>0
  <1>2. PICK s \in S : \A t \in S : s <= t
    BY <1>1, Least
  <1>3. PICK d \in T : s = M - Depth[d]
    BY <1>2
  <1>4. ASSUME NEW e \in T PROVE Depth[e] <= Depth[d]
    <2>1. M - Depth[d] <= M - Depth[e]
      BY <1>2, <1>3
    <2> QED BY <2>1, <1>0
  <1> QED BY <1>4

\* Within, by recursion: there is such a function.
LEMMA WithinIs ==
    \A d \in Docs : Within[d] = IF d = Root THEN {Root} ELSE {d} \cup Within[Parent[d]]
  <1> DEFINE M == Cardinality(Docs)
             Step(g, d) == IF d = Root THEN {Root} ELSE {d} \cup g[Parent[d]]
             Solves(g, n) == \A d \in Docs : Depth[d] < n => g[d] = Step(g, d)
             Stuck == {n \in 0..(M + 1) : ~\E g : Solves(g, n)}
             f == CHOOSE g : g = [d \in Docs |-> Step(g, d)]
  <1>0. M \in Nat
    BY DepthFacts
  <1>1. Within = f
    BY DEF Within
  <1> HIDE DEF M
  <1>2. Stuck = {}
    <2> SUFFICES ASSUME Stuck # {} PROVE FALSE
      OBVIOUS
    <2>1. Stuck \in SUBSET Nat
      BY <1>0
    <2>2. PICK b \in Stuck : \A n \in Stuck : b <= n
      BY <2>1, Least
    <2>3. CASE b = 0
      <3>1. Solves([d \in Docs |-> {}], 0)
        BY DepthFacts
      <3> QED BY <3>1, <2>2, <2>3
    <2>4. CASE b # 0
      <3>1. b \in Nat /\ b - 1 \in Nat /\ b - 1 \in 0..(M + 1) /\ b - 1 \notin Stuck
        <4> HIDE DEF Solves
        <4>1. b \in 0..(M + 1) /\ b \in Stuck /\ \A n \in Stuck : b <= n
          BY <2>2
        <4> HIDE DEF Stuck
        <4>2. b \in Nat /\ b - 1 \in Nat /\ b - 1 \in 0..(M + 1)
          BY <1>0, <4>1, <2>4
        <4> QED BY <4>1, <4>2
      <3>2. PICK g : Solves(g, b - 1)
        BY <3>1
      <3> DEFINE h == [d \in Docs |-> IF Depth[d] = b - 1 THEN Step(g, d) ELSE g[d]]
      <3>3. ASSUME NEW d \in Docs, Depth[d] < b
            PROVE  h[d] = Step(h, d)
        <4>1. Depth[d] \in Nat /\ (d # Root => Parent[d] \in Docs
                                     /\ Depth[Parent[d]] \in Nat
                                     /\ Depth[d] = Depth[Parent[d]] + 1)
          BY DepthFacts, ParentIsDoc
        <4>2. d # Root => h[Parent[d]] = g[Parent[d]]
          BY <4>1, <3>3, <3>1
        <4>3. Step(h, d) = Step(g, d)
          BY <4>2
        <4>4. h[d] = Step(g, d)
          <5>1. CASE Depth[d] = b - 1
            BY <5>1
          <5>2. CASE Depth[d] # b - 1
            <6>1. Depth[d] < b - 1 /\ h[d] = g[d]
              BY <5>2, <4>1, <3>1, <3>3
            <6> QED BY <6>1, <3>2
          <5> QED BY <5>1, <5>2
        <4> QED BY <4>3, <4>4
      <3> HIDE DEF h
      <3>4. Solves(h, b)
        BY <3>3
      <3> QED BY <3>4, <2>2
    <2> QED BY <2>3, <2>4
  <1>3. PICK g : Solves(g, M + 1)
    <2>1. M + 1 \in 0..(M + 1)
      BY <1>0
    <2> QED BY <2>1, <1>2
  <1> DEFINE w == [d \in Docs |-> Step(g, d)]
  <1>3a. \A d \in Docs : Depth[d] < M + 1
    BY DepthFacts DEF M
  <1>4. \A d \in Docs : w[d] = g[d]
    BY <1>3, <1>3a
  <1>5. \A d \in Docs : Step(w, d) = Step(g, d)
    BY <1>4, ParentIsDoc
  <1>6. w = [d \in Docs |-> Step(w, d)]
    BY <1>5
  <1> HIDE DEF w
  <1>7. f = [d \in Docs |-> Step(f, d)]
    BY <1>6
  <1> HIDE DEF f
  <1> QED BY <1>1, <1>7

(* The documents that one is in, itself included, are one after the other. *)
LEMMA WithinFacts ==
    \A d \in Docs :
      /\ d \in Within[d] /\ Within[d] \subseteq Docs
      /\ \A q \in Within[d] :
           /\ Within[q] \subseteq Within[d]
           /\ q # d => Depth[q] < Depth[d]
           /\ \A r \in Within[d] : q \in Within[r] \/ r \in Within[q]
  <1> DEFINE P(d) ==
        /\ d \in Within[d] /\ Within[d] \subseteq Docs
        /\ \A q \in Within[d] :
             /\ Within[q] \subseteq Within[d]
             /\ q # d => Depth[q] < Depth[d]
             /\ \A r \in Within[d] : q \in Within[r] \/ r \in Within[q]
  <1>1. ASSUME NEW d \in Docs, d # Root => P(Parent[d])
        PROVE  P(d)
    <2>1. CASE d = Root
      <3>1. Within[d] = {Root}
        BY <2>1, WithinIs
      <3> QED BY <3>1, <2>1
    <2>2. CASE d # Root
      <3> DEFINE p == Parent[d]
      <3>1. p \in Docs /\ Within[d] = {d} \cup Within[p] /\ P(p)
        BY <2>2, <1>1, WithinIs, ParentIsDoc
      <3>2. Depth[d] \in Nat /\ Depth[p] \in Nat /\ Depth[p] < Depth[d]
        BY <2>2, DepthFacts, <3>1
      <3> HIDE DEF p
      <3>3. d \in Within[d] /\ Within[d] \subseteq Docs /\ Within[p] \subseteq Within[d]
        BY <3>1
      <3>4. ASSUME NEW q \in Within[d] PROVE Within[q] \subseteq Within[d]
        BY <3>1, <3>3
      <3>5. ASSUME NEW q \in Within[d], q # d PROVE Depth[q] < Depth[d]
        <4>1. q \in Within[p] /\ Depth[q] \in Nat
          BY <3>1, <3>3, <3>5, DepthFacts
        <4>2. q = p \/ Depth[q] < Depth[p]
          BY <3>1, <4>1
        <4> QED BY <3>2, <4>1, <4>2
      <3>6. ASSUME NEW q \in Within[d], NEW r \in Within[d]
            PROVE  q \in Within[r] \/ r \in Within[q]
        <4>1. CASE q = d \/ r = d
          BY <4>1
        <4>2. CASE q # d /\ r # d
          BY <4>2, <3>1
        <4> QED BY <4>1, <4>2
      <3> QED BY <3>3, <3>4, <3>5, <3>6
    <2> QED BY <2>1, <2>2
  <1> HIDE DEF P
  <1> DEFINE Bad == {d \in Docs : ~P(d)}
  <1>2. Bad = {}
    <2> SUFFICES ASSUME Bad # {} PROVE FALSE
      OBVIOUS
    <2>1. PICK d \in Bad : \A e \in Bad : Depth[d] <= Depth[e]
      BY Shallowest
    <2>2. d \in Docs /\ ~P(d)
      BY <2>1
    <2>3. d # Root /\ ~P(Parent[d])
      BY <1>1, <2>2
    <2>4. Parent[d] \in Bad
      BY <2>2, <2>3, ParentIsDoc
    <2>5. Depth[d] <= Depth[Parent[d]]
      BY <2>1, <2>4
    <2> QED BY <2>2, <2>3, <2>5, DepthFacts, ParentIsDoc
  <1> QED BY <1>2 DEF P

\* The way up from d: one kid of each page on it, and what lies between.
LEMMA PathFacts ==
    ASSUME NEW d \in Docs
    PROVE  /\ Between(d, d) = {d}
           /\ \A q \in Within[d] : d \in Between(d, q) /\ q \in Between(d, q)
           /\ \A q \in Within[d] : q # d => \E k \in Kids(q) : k \in Within[d]
           /\ \A k \in (Docs \ {Root}) \cap Within[d] :
                /\ Parent[k] \in Within[d] /\ Parent[k] # d
                /\ Between(d, Parent[k]) = Between(d, k) \cup {Parent[k]}
                /\ Parent[k] \notin Between(d, k)
           /\ \A k, l \in (Docs \ {Root}) \cap Within[d] : Parent[k] = Parent[l] => k = l
  <1>1. /\ d \in Within[d]
        /\ \A q \in Within[d] : /\ q \in Docs /\ q \in Within[q] /\ Within[q] \subseteq Docs
                                /\ Within[q] \subseteq Within[d]
                                /\ Depth[q] \in Nat
    BY WithinFacts, DepthFacts
  <1>2. ASSUME NEW q \in Docs, NEW r \in Within[q], r # q
        PROVE  Depth[r] < Depth[q] /\ q \notin Within[r]
    <2>1. Depth[r] < Depth[q] /\ r \in Docs /\ Depth[q] \in Nat /\ Depth[r] \in Nat
      BY <1>2, WithinFacts, DepthFacts
    <2>2. q \in Within[r] => Depth[q] < Depth[r]
      BY <1>2, <2>1, WithinFacts
    <2> QED BY <2>1, <2>2
  <1>3. Between(d, d) = {d}
    BY <1>1, <1>2 DEF Between
  <1>4. ASSUME NEW q \in Within[d] PROVE d \in Between(d, q) /\ q \in Between(d, q)
    BY <1>1 DEF Between
  <1>5. ASSUME NEW k \in (Docs \ {Root}) \cap Within[d]
        PROVE  /\ Within[k] = {k} \cup Within[Parent[k]]
               /\ Parent[k] \in Within[k] /\ Parent[k] \in Docs
               /\ k \notin Within[Parent[k]] /\ k # Parent[k]
    <2>1. Within[k] = {k} \cup Within[Parent[k]] /\ Parent[k] \in Docs
      BY WithinIs, ParentIsDoc
    <2>2. Parent[k] \in Within[Parent[k]] /\ k # Parent[k]
      BY <2>1, WithinFacts, DepthFacts
    <2> QED BY <2>1, <2>2, <1>2
  <1>6. ASSUME NEW q \in Within[d], q # d
        PROVE  \E k \in Kids(q) : k \in Within[d]
    <2> DEFINE T == {r \in Between(d, q) : r # q}
    <2>1. T \in SUBSET Docs /\ T # {}
      BY <1>1, <1>4, <1>6 DEF Between
    <2>2. PICK k \in T : \A e \in T : Depth[k] <= Depth[e]
      BY <2>1, Shallowest
    <2>3. k \in Within[d] /\ q \in Within[k] /\ k # q /\ k \in Docs
      BY <2>2, <1>1 DEF Between
    <2>4. k # Root
      <3>1. k = Root => Within[k] = {k}
        BY <2>3, WithinIs
      <3> QED BY <2>3, <3>1
    <2>5. q \in Within[Parent[k]] /\ Parent[k] \in Within[d] /\ Parent[k] \in Docs
      BY <2>3, <2>4, <1>5, <1>1
    <2>6. Parent[k] \in T => Depth[k] <= Depth[Parent[k]]
      BY <2>2
    <2>7. Parent[k] \notin T
      BY <2>3, <2>4, <2>5, <2>6, DepthFacts
    <2>8. Parent[k] = q
      BY <2>5, <2>7 DEF Between
    <2> QED BY <2>3, <2>4, <2>8 DEF Kids
  <1>7. ASSUME NEW k \in (Docs \ {Root}) \cap Within[d]
        PROVE  /\ Parent[k] \in Within[d] /\ Parent[k] # d
               /\ Between(d, Parent[k]) = Between(d, k) \cup {Parent[k]}
               /\ Parent[k] \notin Between(d, k)
    <2> DEFINE p == Parent[k]
    <2>1. p \in Within[d] /\ p \in Within[k] /\ p \in Docs /\ k # p
      BY <1>1, <1>5
    <2>2. p # d
      BY <2>1, <1>5
    <2>3. p \notin Between(d, k)
      BY <1>5 DEF Between
    <2>4. ASSUME NEW r \in Between(d, k) PROVE r \in Between(d, p)
      <3>1. r \in Within[d] /\ k \in Within[r] /\ r \in Docs
        BY <1>1 DEF Between
      <3>2. Within[k] \subseteq Within[r]
        BY <3>1, WithinFacts
      <3> QED BY <3>1, <3>2, <2>1 DEF Between
    <2>5. ASSUME NEW r \in Between(d, p), r # p PROVE r \in Between(d, k)
      <3>1. r \in Within[d] /\ p \in Within[r] /\ r \in Docs
        BY <1>1 DEF Between
      <3>2. r \in Within[k] \/ k \in Within[r]
        BY <3>1, WithinFacts
      <3>3. r \in Within[k] => r = k
        <4>1. r \in Within[p] => p \notin Within[r]
          BY <2>1, <1>2, <2>5
        <4> QED BY <4>1, <3>1, <1>5
      <3>4. k \in Within[r]
        BY <3>2, <3>3, <1>1
      <3> QED BY <3>1, <3>4 DEF Between
    <2>6. p \in Between(d, p)
      BY <2>1, <1>4
    <2> HIDE DEF p
    <2>7. Between(d, p) = Between(d, k) \cup {p}
      BY <2>4, <2>5, <2>6
    <2> QED BY <2>1, <2>2, <2>3, <2>7 DEF p
  <1>8. ASSUME NEW k \in (Docs \ {Root}) \cap Within[d],
               NEW l \in (Docs \ {Root}) \cap Within[d], Parent[k] = Parent[l]
        PROVE  k = l
    <2>1. k \in Within[l] \/ l \in Within[k]
      BY <1>1, WithinFacts
    <2> QED BY <2>1, <1>5, <1>8
  <1> QED BY <1>3, <1>4, <1>6, <1>7, <1>8

\* The same from below: what lies between k and a page above it
LEMMA PathDown ==
    ASSUME NEW d \in Docs, NEW k \in Docs \ {Root}, d \in Within[k], k # d
    PROVE  /\ d \in Within[Parent[k]] /\ Parent[k] \in Docs
           /\ Between(k, d) = {k} \cup Between(Parent[k], d)
  BY WithinIs, ParentIsDoc DEF Between

-----------------------------------------------------------------------------
(* What a document counts *)

LEMMA FiniteSets ==
    /\ IsFiniteSet(Objects) /\ IsFiniteSet(Sheets) /\ IsFiniteSet(Docs)
    /\ Docs \ {Root} \subseteq Objects /\ Images \subseteq Objects
  <1>1. IsFiniteSet(Docs \cup Images) /\ IsFiniteSet(Sheets)
    BY HtmlAssumption
  <1>2. Objects \in SUBSET (Docs \cup Images) /\ Docs \in SUBSET (Docs \cup Images)
    BY DEF Objects
  <1>3. IsFiniteSet(Objects) /\ IsFiniteSet(Docs)
    BY <1>1, <1>2, FS_Subset
  <1> QED BY <1>1, <1>3 DEF Objects

LEMMA WaitsFinite ==
    ASSUME NEW d, NEW r
    PROVE  IsFiniteSet(Waits(d, r)) /\ Cardinality(Waits(d, r)) \in Nat
  <1> DEFINE S == {s \in Sheets : r.sheets[s] = "going"}
             T == {o \in Boxed(d) : r.objs[o] = "going"}
  <1>1. S \in SUBSET Sheets /\ T \in SUBSET Objects
    BY DEF Boxed
  <1>2. IsFiniteSet(S) /\ IsFiniteSet(T)
    BY <1>1, FiniteSets, FS_Subset
  <1>3. IsFiniteSet(S \cup T)
    BY <1>2, FS_Union
  <1>4. Waits(d, r) = S \cup T
    BY DEF Waits
  <1> QED BY <1>3, <1>4, FS_CardinalityType

\* A document that counts nothing waits for nothing, and the reverse.
LEMMA NothingLeft ==
    ASSUME NEW d, NEW r, Counts(d, r), r.stage # "source"
    PROVE  r.active = 0 <=> Waits(d, r) = {}
  BY WaitsFinite, FS_EmptySet DEF Counts

\* The kids of a page are objects with a box.
LEMMA KidsBoxed == \A k \in Docs \ {Root} : k \in Boxed(Parent[k]) /\ k \in Objects
  BY HtmlAssumption, FiniteSets DEF Boxed

\* Two records alike in all but what they count
Alike(r, b) == /\ r.status = b.status /\ r.stage = b.stage /\ r.locked = b.locked
               /\ r.modified = b.modified /\ r.styles = b.styles

LEMMA AlikeStaged ==
    ASSUME NEW r, NEW b, Alike(r, b), r.sheets = b.sheets, b.status # "NONE", Staged(b)
    PROVE  Staged(r)
  BY Zenon DEF Alike, Staged

\* Object o is over.
OneOver(r, b, o, how) ==
    /\ r \in Doc /\ Alike(r, b) /\ r.sheets = b.sheets /\ r.active = b.active - 1
    /\ \A x \in Objects : r.objs[x] = IF x = o THEN how ELSE b.objs[x]

LEMMA OneLess ==
    ASSUME NEW d, NEW b, Fair(d, b), NEW o \in Boxed(d), b.objs[o] = "going",
           NEW how \in {"done", "gone"}, NEW r, OneOver(r, b, o, how)
    PROVE  /\ Fair(d, r) /\ b.status \notin {"DONE", "NONE"}
           /\ b.status = "READY" /\ b.active = 1 => r.active = 0
  <1>0. o \in Objects /\ o \notin Sheets /\ b \in Doc /\ Boxed(d) \subseteq Objects
    BY HtmlAssumption DEF Boxed, Fair
  <1>a. /\ r \in Doc /\ Alike(r, b) /\ r.sheets = b.sheets /\ r.active = b.active - 1
        /\ \A x \in Objects : r.objs[x] = IF x = o THEN how ELSE b.objs[x]
    BY DEF OneOver
  <1>1. Waits(d, r) = Waits(d, b) \ {o} /\ o \in Waits(d, b)
    BY <1>0, <1>a DEF Waits
  <1>2. Cardinality(Waits(d, r)) = Cardinality(Waits(d, b)) - 1
    BY <1>1, WaitsFinite, FS_RemoveElement
  <1>3. b.status # "NONE"
    BY <1>0 DEF Fair, Staged, Absent
  <1>4. b.status # "DONE"
    <2>1. SUFFICES ASSUME b.status = "DONE" PROVE FALSE
      OBVIOUS
    <2>2. Counts(d, b) /\ b.active = 0 /\ b.stage = "laid"
      BY <2>1 DEF Fair, Staged, Live
    <2>3. Waits(d, b) = {}
      BY <2>2, NothingLeft
    <2> QED BY <2>3, <1>1
  <1>5. Staged(r)
    BY <1>3, <1>a, AlikeStaged DEF Fair
  <1>6. r.status \in Live => Counts(d, r)
    <2>1. b.active \in Int /\ r.stage = b.stage /\ r.status = b.status
      BY <1>0, <1>a DEF Doc, Alike
    <2> QED BY <2>1, <1>a, <1>2, WaitsFinite DEF Fair, Counts
  <1> QED BY <1>3, <1>4, <1>5, <1>6, <1>a DEF Fair, Alike

-----------------------------------------------------------------------------
(* What a document that is done sets off in the pages above *)

\* Sound but for what X has come to
SoundBut(D, X) == /\ D = [d \in Docs |-> D[d]]
                  /\ \A d \in Docs : D[d] \in Doc
                  /\ \A d \in Docs \ X : Good(d, D[d])
                  /\ \A k \in Docs \ (X \cup {Root}) : Linked(D, k)

\* The pages that Done makes DONE, and the kids that they are told of
Ends(D, d, q) == /\ q \in Within[d]
                 /\ \A r \in Between(d, q) :
                      /\ r # d => D[r].status = "READY" /\ D[r].active = 1
                      /\ r # q => Held(D, r)

Ended(D, d, q) == {k \in Kids(q) : Held(D, k) /\ Ends(D, d, k)}

LEMMA EndsFacts ==
    ASSUME NEW D, NEW d \in Docs
    PROVE  /\ Ends(D, d, d)
           /\ \A q \in Docs : Ends(D, d, q) /\ q # d =>
                /\ D[q].status = "READY" /\ D[q].active = 1
                /\ Ended(D, d, q) # {}
           /\ \A q \in Docs : Ended(D, d, q) # {} =>
                /\ q \in Within[d] /\ q # d
                /\ D[q].status = "READY" /\ D[q].active = 1 => Ends(D, d, q)
                /\ \E k \in Kids(q) : Ended(D, d, q) = {k} /\ k \in Within[d]
  <1>0. d \in Within[d] /\ Within[d] \subseteq Docs
    BY WithinFacts
  <1>1. Ends(D, d, d)
    BY <1>0, PathFacts DEF Ends
  <1>2. ASSUME NEW q \in Docs, Ends(D, d, q), q # d
        PROVE  /\ D[q].status = "READY" /\ D[q].active = 1
               /\ Ended(D, d, q) # {}
    <2>1. q \in Within[d] /\ q \in Between(d, q)
      BY <1>2, PathFacts DEF Ends
    <2>2. PICK k \in Kids(q) : k \in Within[d]
      BY <2>1, <1>2, PathFacts
    <2>3. k \in (Docs \ {Root}) \cap Within[d] /\ Parent[k] = q
      BY <2>2, <1>0 DEF Kids
    <2>4. Between(d, q) = Between(d, k) \cup {q} /\ q \notin Between(d, k)
      BY <2>3, PathFacts
    <2>5. k \in Between(d, k)
      BY <2>2, PathFacts
    <2>6. Held(D, k) /\ Ends(D, d, k)
      BY <1>2, <2>2, <2>4, <2>5 DEF Ends
    <2> QED BY <1>2, <2>1, <2>2, <2>6 DEF Ends, Ended
  <1>3. ASSUME NEW q \in Docs, NEW k \in Ended(D, d, q)
        PROVE  /\ q \in Within[d] /\ q # d
               /\ D[q].status = "READY" /\ D[q].active = 1 => Ends(D, d, q)
               /\ Ended(D, d, q) = {k} /\ k \in Kids(q) /\ k \in Within[d]
    <2>1. /\ k \in (Docs \ {Root}) \cap Within[d] /\ Parent[k] = q
          /\ Held(D, k) /\ Ends(D, d, k) /\ k \in Kids(q)
      BY <1>0 DEF Kids, Ended, Ends
    <2>2. /\ q \in Within[d] /\ q # d
          /\ Between(d, q) = Between(d, k) \cup {q} /\ q \notin Between(d, k)
      BY <2>1, PathFacts
    <2>3. D[q].status = "READY" /\ D[q].active = 1 => Ends(D, d, q)
      BY <2>1, <2>2 DEF Ends
    <2>4. ASSUME NEW l \in Ended(D, d, q) PROVE l = k
      <3>1. l \in (Docs \ {Root}) \cap Within[d] /\ Parent[l] = q
        BY <1>0 DEF Kids, Ended, Ends
      <3> QED BY <2>1, <3>1, PathFacts
    <2> QED BY <2>1, <2>2, <2>3, <2>4
  <1> QED BY <1>1, <1>2, <1>3

\* What Done makes of document q
DoneOne(D, d, q, r) ==
    /\ r \in Doc /\ r.stage = D[q].stage /\ r.locked = D[q].locked
    /\ r.modified = D[q].modified /\ r.styles = D[q].styles
    /\ r.sheets = D[q].sheets /\ r.aborted = D[q].aborted
    /\ r.active = D[q].active - Cardinality(Ended(D, d, q))
    /\ r.objs = [o \in Objects |-> IF o \in Ended(D, d, q) THEN "done" ELSE D[q].objs[o]]
    /\ r.status = IF Ends(D, d, q) THEN "DONE" ELSE D[q].status
    /\ r.told = IF Ends(D, d, q) THEN "DONE" ELSE D[q].told
    /\ ~Ends(D, d, q) /\ Ended(D, d, q) = {} => r = D[q]

LEMMA EndedFinite ==
    ASSUME NEW D, NEW d, NEW q
    PROVE  IsFiniteSet(Ended(D, d, q)) /\ Cardinality(Ended(D, d, q)) \in Nat
  <1>1. Ended(D, d, q) \in SUBSET Docs
    BY DEF Ended, Kids
  <1> QED BY <1>1, FiniteSets, FS_Subset, FS_CardinalityType

LEMMA DoneIs ==
    ASSUME NEW D, D = [d \in Docs |-> D[d]], \A d \in Docs : D[d] \in Doc,
           NEW d \in Docs
    PROVE  /\ Done(D, d) = [q \in Docs |-> Done(D, d)[q]]
           /\ \A q \in Docs : DoneOne(D, d, q, Done(D, d)[q])
  <1> DEFINE Some(q) == [D[q] EXCEPT
                           !.active = @ - Cardinality(Ended(D, d, q)),
                           !.objs = [o \in Objects |->
                                        IF o \in Ended(D, d, q) THEN "done" ELSE @[o]]]
             Of(q) == IF Ends(D, d, q)
                      THEN [Some(q) EXCEPT !.status = "DONE", !.told = "DONE"]
                      ELSE Some(q)
  <1>1. Done(D, d) = [q \in Docs |-> Of(q)]
    BY Zenon DEF Done, Ends, Ended
  <1>2. ASSUME NEW q \in Docs PROVE DoneOne(D, d, q, Of(q))
    <2> DEFINE S == Ended(D, d, q)
               c == Cardinality(S)
               b == D[q]
               g == [o \in Objects |-> IF o \in S THEN "done" ELSE b.objs[o]]
    <2>1. b \in Doc /\ c \in Nat
      BY EndedFinite
    <2>2. S = {} => c = 0
      BY FS_EmptySet
    <2> HIDE DEF S, c, b
    <2>3. b.objs \in [Objects -> {"none", "going", "done", "gone"}] /\ b.active \in Int
      BY <2>1 DEF Doc
    <2>4. g \in [Objects -> {"none", "going", "done", "gone"}]
      BY <2>3
    <2>5. S = {} => g = b.objs
      BY <2>3
    <2> HIDE DEF g
    <2>6. Some(q) = [b EXCEPT !.active = b.active - c, !.objs = g]
      BY DEF b, c, S, g
    <2>7. Some(q) \in Doc
      <3>1. b.active - c \in Int
        BY <2>1, <2>3
      <3>2. ASSUME NEW x \in Int, NEW y \in [Objects -> {"none", "going", "done", "gone"}]
            PROVE  [b EXCEPT !.active = x, !.objs = y] \in Doc
        BY ONLY <2>1 DEF Doc
      <3> QED BY <3>1, <3>2, <2>4, <2>6
    <2>8. S = {} => Some(q) = b
      <3> SUFFICES ASSUME S = {} PROVE [b EXCEPT !.active = b.active - c, !.objs = g] = b
        BY <2>6
      <3>1. b.active - c = b.active /\ g = b.objs
        BY <2>2, <2>3, <2>5
      <3> QED BY <3>1, <2>1 DEF Doc
    <2>9. /\ Some(q).active = b.active - c /\ Some(q).objs = g
          /\ Some(q).status = b.status /\ Some(q).told = b.told
          /\ Alike(Some(q), b) /\ Some(q).sheets = b.sheets /\ Some(q).aborted = b.aborted
      BY <2>1, <2>6 DEF Doc, Alike
    <2> HIDE DEF Some
    <2>10. CASE Ends(D, d, q)
      <3> DEFINE r == [Some(q) EXCEPT !.status = "DONE", !.told = "DONE"]
      <3>1. Of(q) = r
        BY <2>10
      <3>2. r \in Doc
        BY <2>7 DEF Doc
      <3>3. /\ r.status = "DONE" /\ r.told = "DONE" /\ r.active = b.active - c /\ r.objs = g
            /\ r.stage = b.stage /\ r.locked = b.locked /\ r.modified = b.modified
            /\ r.styles = b.styles /\ r.sheets = b.sheets /\ r.aborted = b.aborted
        BY <2>7, <2>9 DEF Doc, Alike
      <3> HIDE DEF r, Of
      <3> QED BY <2>10, <3>1, <3>2, <3>3 DEF DoneOne, b, c, S, g
    <2>11. CASE ~Ends(D, d, q)
      <3>1. Of(q) = Some(q)
        BY <2>11
      <3> HIDE DEF Of
      <3> QED BY <2>7, <2>8, <2>9, <2>11, <3>1 DEF DoneOne, b, c, S, g, Alike
    <2> QED BY <2>10, <2>11
  <1> HIDE DEF Of
  <1> QED BY <1>1, <1>2

\* What is not above d is left alone, and nothing is held anew.
Upward(E, D, d) ==
    /\ \A q \in Docs \ Within[d] : E[q] = D[q]
    /\ \A k \in Docs \ {Root} : D[Parent[k]].objs[k] \notin {"going", "done"} =>
          E[Parent[k]].objs[k] \notin {"going", "done"}

LEMMA DoneKeeps ==
    ASSUME NEW X \in SUBSET Docs, NEW d \in Docs, Within[d] \cap X = {},
           NEW D, SoundBut(D, X \cup {d}), Fair(d, D[d]),
           D[d].status = "READY", D[d].active = 0, d # Root => Linked(D, d)
    PROVE  SoundBut(Done(D, d), X) /\ Upward(Done(D, d), D, d)
  <1> DEFINE E == Done(D, d)
  <1>0. d \in Within[d] /\ Within[d] \subseteq Docs
    BY WithinFacts
  <1>1. D = [x \in Docs |-> D[x]] /\ \A x \in Docs : D[x] \in Doc
    BY DEF SoundBut
  <1>2. E = [q \in Docs |-> E[q]] /\ \A q \in Docs : DoneOne(D, d, q, E[q])
    BY <1>1, DoneIs
  <1> HIDE DEF E
  <1>3. ASSUME NEW k \in Docs \ {Root}, Held(D, k), Ends(D, d, k)
        PROVE  D[Parent[k]].objs[k] = "going" /\ D[k].status = "READY"
    <2>1. D[k].status = "READY"
      BY EndsFacts, <1>3
    <2>2. k \in Within[d]
      BY <1>3 DEF Ends
    <2>3. Linked(D, k)
      BY <2>2 DEF SoundBut
    <2> QED BY <1>3, <2>1, <2>3 DEF Linked, Held
  <1>4. ASSUME NEW q \in Docs \ Within[d] PROVE E[q] = D[q]
    <2>1. ~Ends(D, d, q) /\ Ended(D, d, q) = {}
      BY EndsFacts DEF Ends
    <2> QED BY <1>2, <2>1 DEF DoneOne
  <1>5. ASSUME NEW q \in Docs \ X, q # d, Ended(D, d, q) # {} PROVE Good(q, E[q])
    <2>0. /\ q \in Docs /\ q \in Within[d]
          /\ D[q].status = "READY" /\ D[q].active = 1 => Ends(D, d, q)
          /\ Ends(D, d, q) => D[q].status = "READY" /\ D[q].active = 1
          /\ \E k \in Kids(q) : Ended(D, d, q) = {k} /\ k \in Within[d]
      BY ONLY EndsFacts, <1>5, d \in Docs
    <2>1. PICK k \in Kids(q) : Ended(D, d, q) = {k}
      BY <2>0
    <2>2. /\ k \in Docs \ {Root} /\ Parent[k] = q /\ Held(D, k) /\ Ends(D, d, k)
          /\ k \in Ended(D, d, q)
      BY <2>1 DEF Ended, Kids
    <2>3. D[q].objs[k] = "going" /\ k \in Boxed(q)
      BY <1>3, <2>2, KidsBoxed
    <2>4. Good(q, D[q]) /\ D[q] \in Doc
      BY <1>5, <1>1 DEF SoundBut
    <2>5. Cardinality(Ended(D, d, q)) = 1
      BY <2>1, FS_Singleton
    <2>6. DoneOne(D, d, q, E[q])
      BY <1>2
    <2> DEFINE r == [E[q] EXCEPT !.status = D[q].status]
    <2>7. E[q] \in Doc
      BY <2>6 DEF DoneOne
    <2>8. D[q].status \in {"NONE", "LOADING", "READY", "DONE", "ERROR"} /\ D[q].active \in Int
      BY <2>4 DEF Doc
    <2>9. ASSUME NEW b \in Doc, NEW s \in {"NONE", "LOADING", "READY", "DONE", "ERROR"},
                 NEW e, e = [b EXCEPT !.status = s]
          PROVE  /\ e \in Doc /\ e.status = s /\ e.stage = b.stage /\ e.locked = b.locked
                 /\ e.modified = b.modified /\ e.styles = b.styles /\ e.sheets = b.sheets
                 /\ e.active = b.active /\ e.objs = b.objs
      BY ONLY <2>9 DEF Doc
    <2>10. /\ r \in Doc /\ Alike(r, D[q]) /\ r.sheets = D[q].sheets
           /\ r.active = D[q].active - 1 /\ r.active = E[q].active
           /\ r.objs = [x \in Objects |-> IF x = k THEN "done" ELSE D[q].objs[x]]
           /\ r.objs = E[q].objs /\ r.stage = E[q].stage /\ r.locked = E[q].locked
           /\ r.modified = E[q].modified /\ r.styles = E[q].styles
           /\ r.sheets = E[q].sheets /\ r.status = D[q].status
      BY <2>1, <2>5, <2>6, <2>7, <2>8, <2>9 DEF DoneOne, Alike
    <2> HIDE DEF r
    <2>11. /\ Fair(q, r) /\ D[q].status \notin {"DONE", "NONE"}
           /\ D[q].status = "READY" /\ D[q].active = 1 => r.active = 0
      <3>1. Fair(q, D[q])
        BY <2>4 DEF Good
      <3>2. OneOver(r, D[q], k, "done")
        BY <2>10 DEF OneOver
      <3> QED BY ONLY <3>1, <2>3, <3>2, OneLess
    <2>12. CASE Ends(D, d, q)
      <3>1. D[q].status = "READY" /\ D[q].active = 1 /\ r.active = 0
        BY <2>0, <2>11, <2>12
      <3>2. E[q].status = "DONE" /\ r.status = "READY"
        BY <2>6, <2>10, <2>12, <3>1 DEF DoneOne
      <3>3. r.stage = "laid" /\ ~r.locked
        BY <2>11, <3>2 DEF Fair, Staged
      <3>4. Waits(q, E[q]) = Waits(q, r)
        BY <2>10 DEF Waits
      <3>5. Staged(E[q])
        BY <2>10, <2>11, <3>2, <3>3 DEF Fair, Staged, Live
      <3>6. Counts(q, E[q])
        BY <2>10, <2>11, <3>2, <3>4 DEF Fair, Counts, Live
      <3> QED BY <2>7, <2>10, <3>1, <3>2, <3>5, <3>6 DEF Good, Fair
    <2>13. CASE ~Ends(D, d, q)
      <3>1. E[q].status = D[q].status /\ ~(D[q].status = "READY" /\ D[q].active = 1)
        BY <2>0, <2>6, <2>13 DEF DoneOne
      <3>2. Waits(q, E[q]) = Waits(q, r)
        BY <2>10 DEF Waits
      <3>3. Staged(E[q])
        BY <2>10, <2>11, <3>1 DEF Fair, Staged, Absent
      <3>4. E[q].status \in Live => Counts(q, E[q])
        BY <2>10, <2>11, <3>1, <3>2 DEF Fair, Counts
      <3>5. E[q].status = "READY" => E[q].active # 0
        BY <3>1, <2>8, <2>10
      <3> QED BY <2>7, <2>10, <2>11, <3>1, <3>3, <3>4, <3>5 DEF Good, Fair
    <2> QED BY <2>12, <2>13
  <1>6. Good(d, E[d])
    <2>1. Ends(D, d, d) /\ Ended(D, d, d) = {}
      BY EndsFacts
    <2>2. Cardinality(Ended(D, d, d)) = 0
      BY <2>1, FS_EmptySet
    <2>3. DoneOne(D, d, d, E[d]) /\ D[d] \in Doc
      BY <1>1, <1>2
    <2>4. E[d].status = "DONE" /\ E[d].active = 0
      BY <2>1, <2>2, <2>3 DEF DoneOne
    <2>5. D[d].stage = "laid" /\ ~D[d].locked
      BY DEF Fair, Staged
    <2>6. D[d].objs = [o \in Objects |-> D[d].objs[o]]
      BY <2>3 DEF Doc
    <2>7. Waits(d, E[d]) = Waits(d, D[d])
      BY <2>1, <2>3, <2>6 DEF DoneOne, Waits
    <2>8. Staged(E[d])
      BY <2>3, <2>4, <2>5 DEF DoneOne, Fair, Staged, Live
    <2>9. Counts(d, E[d])
      BY <2>3, <2>4, <2>7 DEF DoneOne, Fair, Counts, Live
    <2>10. E[d] \in Doc
      BY <2>3 DEF DoneOne
    <2> QED BY <2>4, <2>8, <2>9, <2>10 DEF Good, Fair
  <1>7. ASSUME NEW q \in Docs \ X PROVE Good(q, E[q])
    <2>1. CASE q = d
      BY <2>1, <1>6
    <2>2. CASE q # d /\ Ended(D, d, q) # {}
      BY <2>2, <1>5
    <2>3. CASE q # d /\ Ended(D, d, q) = {}
      <3>1. ~Ends(D, d, q)
        BY <2>3, EndsFacts
      <3>2. E[q] = D[q]
        BY <1>2, <2>3, <3>1 DEF DoneOne
      <3>3. Good(q, D[q])
        BY <2>3 DEF SoundBut
      <3> QED BY <3>2, <3>3
    <2> QED BY <2>1, <2>2, <2>3
  <1>8. ASSUME NEW k \in Docs \ {Root}
        PROVE  /\ E[Parent[k]].objs[k] =
                    IF Held(D, k) /\ Ends(D, d, k) THEN "done" ELSE D[Parent[k]].objs[k]
               /\ E[k].status = IF Ends(D, d, k) THEN "DONE" ELSE D[k].status
               /\ E[k].told = IF Ends(D, d, k) THEN "DONE" ELSE D[k].told
    <2>1. DoneOne(D, d, Parent[k], E[Parent[k]]) /\ DoneOne(D, d, k, E[k])
      BY <1>2, ParentIsDoc
    <2>2. k \in Ended(D, d, Parent[k]) <=> Held(D, k) /\ Ends(D, d, k)
      BY DEF Ended, Kids
    <2> QED BY <2>1, <2>2, KidsBoxed DEF DoneOne
  <1>9. ASSUME NEW k \in Docs \ (X \cup {Root}) PROVE Linked(E, k)
    <2>1. Linked(D, k)
      BY DEF SoundBut
    <2>2. Held(D, k) <=> D[Parent[k]].objs[k] \in {"going", "done"}
      BY DEF Held
    <2>3. Ends(D, d, k) /\ Held(D, k) => D[k].status = "READY"
      BY <1>3
    <2> QED BY <1>8, <2>1, <2>2, <2>3 DEF Linked
  <1>10. \A k \in Docs \ {Root} : D[Parent[k]].objs[k] \notin {"going", "done"} =>
            E[Parent[k]].objs[k] \notin {"going", "done"}
    BY <1>8 DEF Held
  <1>11. \A q \in Docs : E[q] \in Doc
    BY <1>2 DEF DoneOne
  <1>12. SoundBut(E, X)
    BY <1>2, <1>7, <1>9, <1>11 DEF SoundBut
  <1>13. Upward(E, D, d)
    BY <1>4, <1>10 DEF Upward
  <1> QED BY <1>12, <1>13 DEF E

LEMMA NoExceptions == \A D : Sound(D) <=> SoundBut(D, {})
  BY DEF Sound, SoundBut, Good, Fair

LEMMA MaybeDoneKeeps ==
    ASSUME NEW X \in SUBSET Docs, NEW d \in Docs, Within[d] \cap X = {},
           NEW D, SoundBut(D, X \cup {d}), Fair(d, D[d]), d # Root => Linked(D, d)
    PROVE  SoundBut(MaybeDone(D, d), X) /\ Upward(MaybeDone(D, d), D, d)
  <1>1. CASE D[d].status = "READY" /\ D[d].active = 0
    <2>1. MaybeDone(D, d) = Done(D, d)
      BY <1>1 DEF MaybeDone
    <2> QED BY <1>1, <2>1, DoneKeeps
  <1>2. CASE ~(D[d].status = "READY" /\ D[d].active = 0)
    <2>1. MaybeDone(D, d) = D
      BY <1>2 DEF MaybeDone
    <2>2. Good(d, D[d])
      BY <1>2 DEF Good
    <2>3. SoundBut(D, X)
      BY <2>2 DEF SoundBut
    <2>4. Upward(D, D, d)
      BY DEF Upward
    <2> QED BY <2>1, <2>3, <2>4
  <1> QED BY <1>1, <1>2

\* Object o of d is over; if it is a document, d lets go of it.
LEMMA SettledKeeps ==
    ASSUME NEW X \in SUBSET Docs, NEW d \in Docs, Within[d] \cap X = {},
           NEW D, SoundBut(D, X), NEW o \in Boxed(d), D[d].objs[o] = "going",
           NEW how \in {"done", "gone"}, o \in Docs => how = "gone"
    PROVE  /\ SoundBut(Settled(D, d, o, how), X)
           /\ \A q \in Docs \ Within[d] : Settled(D, d, o, how)[q] = D[q]
           /\ \A k \in Docs \ {Root} :
                (Parent[k] = d /\ k = o) \/ D[Parent[k]].objs[k] \notin {"going", "done"}
                => Settled(D, d, o, how)[Parent[k]].objs[k] \notin {"going", "done"}
  <1> DEFINE b == D[d]
             r == [b EXCEPT !.active = b.active - 1, !.objs = [b.objs EXCEPT ![o] = how]]
             E == [D EXCEPT ![d].active = @ - 1, ![d].objs[o] = how]
  <1>0. d \in Within[d] /\ o \in Objects /\ Parent[o] = d
    BY WithinFacts DEF Boxed
  <1>1. /\ D = [x \in Docs |-> D[x]] /\ b \in Doc /\ Good(d, b)
        /\ d # Root => Linked(D, d)
    BY <1>0 DEF SoundBut
  <1>2. /\ E = [x \in Docs |-> E[x]] /\ E[d] = r
        /\ \A q \in Docs : q # d => E[q] = D[q]
    BY <1>1
  <1> HIDE DEF E, b
  <1>3. b.active \in Int /\ b.objs \in [Objects -> {"none", "going", "done", "gone"}]
    BY <1>1 DEF Doc
  <1> DEFINE f == [b.objs EXCEPT ![o] = how]
             a == b.active - 1
  <1>4. /\ a \in Int /\ f \in [Objects -> {"none", "going", "done", "gone"}]
        /\ \A x \in Objects : f[x] = IF x = o THEN how ELSE b.objs[x]
    <2>1. how \in {"none", "going", "done", "gone"}
      OBVIOUS
    <2> QED BY ONLY <1>3, <1>0, <2>1
  <1>4a. r = [b EXCEPT !.active = a, !.objs = f]
    OBVIOUS
  <1> HIDE DEF r, f, a
  <1>6. /\ r \in Doc /\ Alike(r, b) /\ r.sheets = b.sheets /\ r.told = b.told
        /\ r.active = a /\ r.objs = f
    BY ONLY <1>1, <1>4, <1>4a DEF Doc, Alike
  <1>7. OneOver(r, b, o, how)
    BY <1>4, <1>6 DEF OneOver, a
  <1>8. Fair(d, r)
    <2>1. Fair(d, b) /\ b.objs[o] = "going"
      BY <1>1 DEF Good, b
    <2> QED BY <2>1, <1>7, OneLess
  <1>9. \A k \in Docs \ {Root} :
          /\ E[Parent[k]].objs[k] = IF k = o THEN how ELSE D[Parent[k]].objs[k]
          /\ E[k].status = D[k].status /\ E[k].told = D[k].told
    <2> TAKE k \in Docs \ {Root}
    <2>1. Parent[k] \in Docs /\ k \in Objects
      BY ParentIsDoc, KidsBoxed
    <2>2. E[k].status = D[k].status /\ E[k].told = D[k].told
      BY <1>2, <1>6 DEF Alike, b
    <2>3. CASE Parent[k] = d
      BY <1>2, <1>4, <1>6, <2>1, <2>2, <2>3 DEF b
    <2>4. CASE Parent[k] # d
      BY <1>0, <1>2, <2>1, <2>2, <2>4
    <2> QED BY <2>3, <2>4
  <1>10. ASSUME NEW k \in Docs \ (X \cup {Root}) PROVE Linked(E, k)
    <2>1. Linked(D, k)
      BY DEF SoundBut
    <2> QED BY <1>9, <2>1 DEF Linked
  <1>11. SoundBut(E, X \cup {d})
    <2>1. \A q \in Docs : E[q] \in Doc
      BY <1>2, <1>6 DEF SoundBut
    <2>2. \A q \in Docs \ (X \cup {d}) : Good(q, E[q])
      BY <1>2 DEF SoundBut
    <2> QED BY <1>2, <1>10, <2>1, <2>2 DEF SoundBut
  <1>12. d # Root => Linked(E, d)
    BY <1>0, <1>10
  <1>13. Fair(d, E[d])
    BY <1>2, <1>8
  <1>14. SoundBut(MaybeDone(E, d), X) /\ Upward(MaybeDone(E, d), E, d)
    BY <1>11, <1>12, <1>13, MaybeDoneKeeps
  <1>15. Settled(D, d, o, how) = MaybeDone(E, d)
    BY DEF Settled, E
  <1>16. \A q \in Docs \ Within[d] : MaybeDone(E, d)[q] = D[q]
    BY <1>0, <1>2, <1>14 DEF Upward
  <1>17. ASSUME NEW k \in Docs \ {Root},
                (Parent[k] = d /\ k = o) \/ D[Parent[k]].objs[k] \notin {"going", "done"}
         PROVE  MaybeDone(E, d)[Parent[k]].objs[k] \notin {"going", "done"}
    <2>1. E[Parent[k]].objs[k] \notin {"going", "done"}
      BY <1>9, <1>17
    <2> QED BY <1>14, <2>1 DEF Upward
  <1> QED BY <1>14, <1>15, <1>16, <1>17

Unheld(D, d) == d # Root => D[Parent[d]].objs[d] \notin {"going", "done"}

\* Whoever uses d lets go of it, whatever has become of it.
LEMMA FailKeeps ==
    ASSUME NEW d \in Docs, NEW D, SoundBut(D, {d}),
           d # Root /\ Held(D, d) => D[Parent[d]].objs[d] = "going"
    PROVE  /\ SoundBut(Fail(D, d), {d}) /\ Unheld(Fail(D, d), d)
           /\ \E t \in {"ERROR", D[d].told} : Fail(D, d)[d] = [D[d] EXCEPT !.told = t]
  <1> DEFINE E == [D EXCEPT ![d].told = IF Held(D, d) THEN "ERROR" ELSE @]
             t == IF Held(D, d) THEN "ERROR" ELSE D[d].told
  <1>1. D = [x \in Docs |-> D[x]] /\ D[d] \in Doc
    BY DEF SoundBut
  <1>2. /\ E = [x \in Docs |-> E[x]] /\ E[d] = [D[d] EXCEPT !.told = t]
        /\ \A q \in Docs : q # d => E[q] = D[q]
    BY <1>1
  <1>3. t \in {"ERROR", D[d].told} /\ D[d].told \in {"none", "READY", "DONE", "ERROR"}
    BY <1>1 DEF Doc
  <1> HIDE DEF E, t
  <1>4. E[d] \in Doc /\ E[d].objs = D[d].objs
    BY <1>1, <1>2, <1>3 DEF Doc
  <1>5. \A k \in Docs \ {Root} : E[Parent[k]].objs[k] = D[Parent[k]].objs[k]
    BY <1>2, <1>4, ParentIsDoc
  <1>6. SoundBut(E, {d})
    <2>1. \A q \in Docs : E[q] \in Doc
      BY <1>2, <1>4 DEF SoundBut
    <2>2. \A q \in Docs \ {d} : Good(q, E[q])
      BY <1>2 DEF SoundBut
    <2>3. ASSUME NEW k \in Docs \ {d, Root} PROVE Linked(E, k)
      <3>1. Linked(D, k)
        BY DEF SoundBut
      <3> QED BY <1>2, <1>5, <3>1 DEF Linked
    <2> QED BY <1>2, <2>1, <2>2, <2>3 DEF SoundBut
  <1>7. CASE d # Root /\ Held(D, d)
    <2> DEFINE p == Parent[d]
    <2>1. p \in Docs /\ d \in Boxed(p) /\ E[p].objs[d] = "going"
      BY <1>5, <1>7, ParentIsDoc, KidsBoxed
    <2>2. d \notin Within[p]
      <3>0. p \in Within[p] /\ Within[d] = {d} \cup Within[p] /\ Depth[d] = Depth[p] + 1
        BY <1>7, <2>1, WithinIs, WithinFacts, DepthFacts
      <3>1. p \in Within[d] /\ p # d /\ Depth[p] < Depth[d]
        BY <2>1, <3>0, DepthFacts
      <3>2. d \in Within[p] => Depth[d] < Depth[p]
        BY <2>1, <3>1, WithinFacts
      <3> QED BY <3>1, <3>2, <2>1, DepthFacts
    <2>3. Fail(D, d) = Settled(E, p, d, "gone")
      BY <1>7 DEF Fail, E
    <2> HIDE DEF p
    <2>4. /\ SoundBut(Settled(E, p, d, "gone"), {d})
          /\ \A q \in Docs \ Within[p] : Settled(E, p, d, "gone")[q] = E[q]
          /\ \A k \in Docs \ {Root} :
                (Parent[k] = p /\ k = d) \/ E[Parent[k]].objs[k] \notin {"going", "done"}
                => Settled(E, p, d, "gone")[Parent[k]].objs[k] \notin {"going", "done"}
      <3>1. {d} \in SUBSET Docs /\ Within[p] \cap {d} = {} /\ "gone" \in {"done", "gone"}
        BY <2>2
      <3> QED BY ONLY <1>6, <2>1, <3>1, SettledKeeps
    <2>5. Unheld(Fail(D, d), d)
      BY <1>7, <2>3, <2>4 DEF Unheld, p
    <2> QED BY <1>2, <1>3, <2>2, <2>3, <2>4, <2>5
  <1>8. CASE ~(d # Root /\ Held(D, d))
    <2>1. Fail(D, d) = E
      BY <1>8 DEF Fail, E
    <2>2. Unheld(E, d)
      BY <1>5, <1>8 DEF Unheld, Held
    <2> QED BY <1>2, <1>3, <1>6, <2>1, <2>2
  <1> QED BY <1>7, <1>8

-----------------------------------------------------------------------------
(* What changes one document *)

\* Only document d changes.
Differs(E, D, d) ==
    E = [x \in Docs |-> E[x]] /\ \A q \in Docs : q # d => E[q] = D[q]

\* A page that has o of a document whose record is r
Fits(o, r) == /\ o = "going" => r.status \in {"LOADING", "READY"}
              /\ o = "done" => r.status = "DONE"
              /\ r.told = "ERROR" => o \notin {"going", "done"}

LEMMA Change ==
    ASSUME NEW X \in SUBSET Docs, NEW D, SoundBut(D, X), NEW d \in Docs,
           NEW E, Differs(E, D, d), E[d] \in Doc,
           d \notin X => Good(d, E[d]),
           d \notin X \cup {Root} => Fits(D[Parent[d]].objs[d], E[d]),
           \A k \in Kids(d) \ X : Fits(E[d].objs[k], D[k])
    PROVE  SoundBut(E, X)
  <1>1. E = [x \in Docs |-> E[x]] /\ \A q \in Docs : q # d => E[q] = D[q]
    BY DEF Differs
  <1>2. \A q \in Docs : E[q] \in Doc
    BY <1>1 DEF SoundBut
  <1>3. \A q \in Docs \ X : Good(q, E[q])
    BY <1>1 DEF SoundBut
  <1>4. ASSUME NEW k \in Docs \ (X \cup {Root}) PROVE Linked(E, k)
    <2>1. Parent[k] \in Docs /\ Parent[k] # k
      BY ParentIsDoc, DepthFacts
    <2>2. Linked(D, k)
      BY DEF SoundBut
    <2>3. CASE k = d
      BY <1>1, <2>1, <2>3 DEF Fits, Linked
    <2>4. CASE k # d /\ Parent[k] = d
      <3>1. k \in Kids(d) \ X
        BY <2>4 DEF Kids
      <3> QED BY <1>1, <2>4, <3>1 DEF Fits, Linked
    <2>5. CASE k # d /\ Parent[k] # d
      BY <1>1, <2>1, <2>2, <2>5 DEF Linked
    <2> QED BY <2>3, <2>4, <2>5
  <1> QED BY <1>1, <1>2, <1>3, <1>4 DEF SoundBut

\* A document that stays what it is to the page that it is in
LEMMA Touch ==
    ASSUME NEW X \in SUBSET Docs, NEW D, SoundBut(D, X), NEW d \in Docs,
           NEW E, Differs(E, D, d), E[d] \in Doc, d \notin X => Good(d, E[d]),
           E[d].status = D[d].status, E[d].told = D[d].told,
           \A k \in Kids(d) : E[d].objs[k] = D[d].objs[k]
    PROVE  SoundBut(E, X)
  <1>1. ASSUME d \notin X \cup {Root} PROVE Fits(D[Parent[d]].objs[d], E[d])
    <2>1. Linked(D, d)
      BY <1>1 DEF SoundBut
    <2> QED BY <2>1 DEF Linked, Fits
  <1>2. ASSUME NEW k \in Kids(d) \ X PROVE Fits(E[d].objs[k], D[k])
    <2>1. Linked(D, k) /\ Parent[k] = d
      BY DEF SoundBut, Kids
    <2> QED BY <2>1 DEF Linked, Fits
  <1> QED BY <1>1, <1>2, Change

LEMMA Closed ==
    ASSUME NEW d \in Docs, NEW D, SoundBut(D, {d}), Good(d, D[d]),
           d # Root => Linked(D, d)
    PROVE  Sound(D)
  BY DEF Sound, SoundBut

LEMMA Opened ==
    ASSUME NEW D, Sound(D), NEW X \in SUBSET Docs
    PROVE  SoundBut(D, X)
  BY DEF Sound, SoundBut, Good, Fair

\* A document that counts the same
LEMMA SameGood ==
    ASSUME NEW d, NEW b, Good(d, b), b.status # "NONE", NEW r \in Doc, Alike(r, b),
           r.sheets = b.sheets, r.active = b.active,
           \A o \in Boxed(d) : r.objs[o] = b.objs[o]
    PROVE  Good(d, r)
  <1>1. Staged(r) /\ r.status = b.status /\ r.stage = b.stage
    BY AlikeStaged DEF Good, Fair, Alike
  <1>2. Waits(d, r) = Waits(d, b)
    BY DEF Waits
  <1> QED BY <1>1, <1>2 DEF Good, Fair, Counts

\* A document that is not laid out fails.
LEMMA ErrorIs ==
    ASSUME NEW d \in Docs, NEW D, SoundBut(D, {d}),
           D[d].stage # "laid", D[d].styles => D[d].modified # {}
    PROVE  LET E == SetError(D, d) IN
           /\ SoundBut(E, {d}) /\ Good(d, E[d])
           /\ E[d].status = "ERROR" /\ E[d].stage = D[d].stage
           /\ \A q \in Docs : q # d => E[q] = D[q]
  <1> DEFINE E == SetError(D, d)
  <1>1. D = [x \in Docs |-> D[x]] /\ D[d] \in Doc
    BY DEF SoundBut
  <1>2. E[d] = [D[d] EXCEPT !.status = "ERROR", !.locked = FALSE] /\ Differs(E, D, d)
    BY <1>1 DEF SetError, Differs
  <1> HIDE DEF E
  <1>3. /\ E[d] \in Doc /\ E[d].status = "ERROR" /\ E[d].locked = FALSE
        /\ E[d].stage = D[d].stage /\ E[d].styles = D[d].styles
        /\ E[d].modified = D[d].modified /\ E[d].objs = D[d].objs
    BY <1>1, <1>2 DEF Doc
  <1>4. Good(d, E[d])
    BY <1>3 DEF Good, Fair, Staged, Live
  <1>5. ASSUME NEW k \in Kids(d) \ {d} PROVE Fits(E[d].objs[k], D[k])
    <2>1. Linked(D, k) /\ Parent[k] = d
      BY DEF SoundBut, Kids
    <2> QED BY <1>3, <2>1 DEF Linked, Fits
  <1>6. SoundBut(E, {d})
    BY <1>2, <1>3, <1>5, Change
  <1> QED BY <1>2, <1>3, <1>4, <1>6 DEF E, Differs

LEMMA OwnParent == \A k \in Docs \ {Root} : Parent[k] \in Docs /\ Parent[k] # k
  BY ParentIsDoc, DepthFacts

\* The same, when whoever had it has let go of it.
LEMMA ErrorKeeps ==
    ASSUME NEW d \in Docs, NEW D, SoundBut(D, {d}), Unheld(D, d),
           D[d].stage # "laid", D[d].styles => D[d].modified # {}
    PROVE  Sound(SetError(D, d)) /\ Unheld(SetError(D, d), d)
  <1> DEFINE E == SetError(D, d)
  <1>1. /\ SoundBut(E, {d}) /\ Good(d, E[d])
        /\ \A q \in Docs : q # d => E[q] = D[q]
    BY ErrorIs
  <1> HIDE DEF E
  <1>2. d # Root => E[Parent[d]] = D[Parent[d]]
    BY <1>1, OwnParent
  <1>3. Unheld(E, d) /\ (d # Root => Linked(E, d))
    BY <1>2 DEF Unheld, Linked
  <1> QED BY <1>1, <1>3, Closed DEF E

\* A document that is all right but that something failed for
LEMMA FailSound ==
    ASSUME NEW d \in Docs, NEW D, SoundBut(D, {d}), Good(d, D[d]),
           D[d].status # "NONE",
           d # Root /\ Held(D, d) => D[Parent[d]].objs[d] = "going"
    PROVE  /\ Sound(Fail(D, d)) /\ Unheld(Fail(D, d), d)
           /\ \E t \in {"ERROR", D[d].told} : Fail(D, d)[d] = [D[d] EXCEPT !.told = t]
  <1> DEFINE E == Fail(D, d)
  <1>1. /\ SoundBut(E, {d}) /\ Unheld(E, d)
        /\ \E t \in {"ERROR", D[d].told} : E[d] = [D[d] EXCEPT !.told = t]
    BY FailKeeps
  <1> HIDE DEF E
  <1>2. E[d] \in Doc /\ D[d] \in Doc
    BY <1>1 DEF SoundBut
  <1>3. /\ Alike(E[d], D[d]) /\ E[d].sheets = D[d].sheets
        /\ E[d].active = D[d].active /\ E[d].objs = D[d].objs
    BY <1>1, <1>2 DEF Doc, Alike
  <1>4. Good(d, E[d])
    BY <1>2, <1>3, SameGood
  <1>5. d # Root => Linked(E, d)
    BY <1>1 DEF Unheld, Linked
  <1> QED BY <1>1, <1>4, <1>5, Closed DEF E

\* What is held and not DONE, its page waits for.
LEMMA HeldIsGoing ==
    ASSUME NEW D, Sound(D), NEW d \in Docs, D[d].status # "DONE"
    PROVE  d # Root /\ Held(D, d) => D[Parent[d]].objs[d] = "going"
  BY DEF Sound, Linked, Held

\* A document is told of a failure, or fails first and tells then, or both.
LEMMA FailsSound ==
    ASSUME NEW d \in Docs, NEW D, Sound(D), D[d].status \notin {"NONE", "READY", "DONE"}
    PROVE  /\ Sound(Fail(D, d)) /\ Fail(D, d)[d].stage # "laid"
           /\ Sound(SetError(Fail(D, d), d)) /\ Sound(Fail(SetError(D, d), d))
           /\ Fail(SetError(D, d), d)[d].stage # "laid"
           /\ SetError(Fail(D, d), d)[d].stage # "laid"
           /\ Fail(D, d)[d].stage = D[d].stage /\ Fail(D, d)[d].status = D[d].status
           /\ Unheld(Fail(D, d), d) /\ Unheld(Fail(SetError(D, d), d), d)
           /\ Unheld(SetError(Fail(D, d), d), d)
  <1>1. /\ SoundBut(D, {d}) /\ Good(d, D[d]) /\ D[d] \in Doc
        /\ D[d].stage # "laid" /\ (D[d].styles => D[d].modified # {})
    BY Opened DEF Sound, Good, Fair, Staged
  <1>2. d # Root /\ Held(D, d) => D[Parent[d]].objs[d] = "going"
    BY HeldIsGoing
  <1>3. /\ Sound(Fail(D, d)) /\ Unheld(Fail(D, d), d)
        /\ \E t \in {"ERROR", D[d].told} : Fail(D, d)[d] = [D[d] EXCEPT !.told = t]
    BY <1>1, <1>2, FailSound
  <1>4. /\ Fail(D, d)[d].stage # "laid" /\ Fail(D, d)[d].stage = D[d].stage
        /\ Fail(D, d)[d].status = D[d].status
        /\ Fail(D, d)[d].styles => Fail(D, d)[d].modified # {}
    BY <1>1, <1>3 DEF Doc
  <1>5. SoundBut(Fail(D, d), {d})
    BY <1>3, Opened
  <1>6. /\ Sound(SetError(Fail(D, d), d)) /\ SetError(Fail(D, d), d)[d].stage # "laid"
        /\ Unheld(SetError(Fail(D, d), d), d)
    BY <1>3, <1>4, <1>5, ErrorKeeps, ErrorIs
  <1> DEFINE E == SetError(D, d)
  <1>7. /\ SoundBut(E, {d}) /\ Good(d, E[d])
        /\ E[d].status = "ERROR" /\ E[d].stage = D[d].stage
        /\ \A q \in Docs : q # d => E[q] = D[q]
    BY <1>1, ErrorIs
  <1> HIDE DEF E
  <1>8. d # Root /\ Held(E, d) => E[Parent[d]].objs[d] = "going"
    BY <1>2, <1>7, OwnParent DEF Held
  <1>9. /\ Sound(Fail(E, d)) /\ Unheld(Fail(E, d), d)
        /\ \E t \in {"ERROR", E[d].told} : Fail(E, d)[d] = [E[d] EXCEPT !.told = t]
    BY <1>7, <1>8, FailSound
  <1>10. E[d] \in Doc
    BY <1>7 DEF SoundBut
  <1>11. Fail(E, d)[d].stage # "laid"
    BY <1>1, <1>7, <1>9, <1>10 DEF Doc
  <1> QED BY <1>3, <1>4, <1>6, <1>9, <1>11 DEF E

-----------------------------------------------------------------------------
(* Style sheets *)

\* A document that is still looking for its sheets asks for the sheets S.
Asks(r, b, S, W) ==
    /\ r \in Doc /\ r.status = b.status /\ r.stage = b.stage /\ r.locked = b.locked
    /\ r.objs = b.objs /\ r.told = b.told /\ (r.styles => r.modified # {})
    /\ \A s \in Sheets : r.sheets[s] = IF s \in S THEN "going" ELSE b.sheets[s]
    /\ r.active = b.active + Cardinality(S) - Cardinality(S \cap W)

LEMMA AsksGood ==
    ASSUME NEW d, NEW b, Good(d, b), b.status # "NONE",
           b.status \in Live => b.stage \notin {"boxes", "laid"},
           NEW S \in SUBSET Sheets, NEW r, Asks(r, b, S, Waits(d, b))
    PROVE  Good(d, r)
  <1> DEFINE W == Waits(d, b)
  <1>0. /\ r \in Doc /\ r.status = b.status /\ r.stage = b.stage /\ r.locked = b.locked
        /\ r.objs = b.objs /\ (r.styles => r.modified # {})
        /\ \A s \in Sheets : r.sheets[s] = IF s \in S THEN "going" ELSE b.sheets[s]
        /\ r.active = b.active + Cardinality(S) - Cardinality(S \cap W)
    BY DEF Asks
  <1>1. Waits(d, r) = W \cup S
    BY <1>0 DEF Waits
  <1>2. /\ IsFiniteSet(W) /\ Cardinality(W) \in Nat /\ IsFiniteSet(S)
        /\ Cardinality(S) \in Nat
    BY WaitsFinite, FiniteSets, FS_Subset, FS_CardinalityType
  <1> HIDE DEF W
  <1>3. /\ Cardinality(W \cup S) = Cardinality(W) + Cardinality(S) - Cardinality(S \cap W)
        /\ Cardinality(S \cap W) \in Nat
    <2>1. S \cap W = W \cap S /\ IsFiniteSet(S \cap W)
      BY <1>2, FS_Intersection
    <2>2. Cardinality(W \cup S) = Cardinality(W) + Cardinality(S) - Cardinality(W \cap S)
      BY <1>2, FS_Union
    <2> QED BY <2>1, <2>2, FS_CardinalityType
  <1>4. b.active \in Int
    BY DEF Good, Fair, Doc
  <1>5. r.status \in Live => Counts(d, r)
    <2>1. Counts(d, b) <=> b.active = Cardinality(W) + (IF b.stage = "source" THEN 1 ELSE 0)
      BY DEF Counts, W
    <2> QED BY <1>0, <1>1, <1>2, <1>3, <1>4, <2>1 DEF Good, Fair, Counts
  <1>6. Staged(r)
    BY <1>0 DEF Good, Fair, Staged, Live
  <1>7. r.status \notin {"DONE", "READY"}
    BY <1>0 DEF Good, Fair, Staged, Live
  <1> QED BY <1>0, <1>5, <1>6, <1>7 DEF Good, Fair

LEMMA RequestedIs ==
    ASSUME NEW b \in Doc, NEW S \in SUBSET Sheets
    PROVE  LET r == Requested(b, S) IN
           /\ r \in Doc /\ Alike(r, b) /\ r.objs = b.objs /\ r.told = b.told
           /\ \A s \in Sheets : r.sheets[s] = IF s \in S THEN "going" ELSE b.sheets[s]
           /\ r.active = b.active + Cardinality(S)
  <1> DEFINE g == [s \in Sheets |-> IF s \in S THEN "going" ELSE b.sheets[s]]
             a == b.active + Cardinality(S)
             r == Requested(b, S)
  <1>1. g \in [Sheets -> {"none", "going", "done", "failed"}] /\ b.active \in Int
    BY DEF Doc
  <1>2. Cardinality(S) \in Nat
    BY FiniteSets, FS_Subset, FS_CardinalityType
  <1>3. a \in Int
    BY <1>1, <1>2
  <1>4. r = [b EXCEPT !.active = a, !.sheets = g]
    BY DEF Requested
  <1>5. \A s \in Sheets : g[s] = IF s \in S THEN "going" ELSE b.sheets[s]
    OBVIOUS
  <1> HIDE DEF g, a, r
  <1>6. /\ r \in Doc /\ Alike(r, b) /\ r.objs = b.objs /\ r.told = b.told
        /\ r.sheets = g /\ r.active = a
    BY ONLY b \in Doc, <1>1, <1>3, <1>4 DEF Doc, Alike
  <1> QED BY <1>5, <1>6 DEF r, a

\* One document of a sound tree changes, and stays what it is to its page.
LEMMA TouchSound ==
    ASSUME NEW D, Sound(D), NEW d \in Docs, NEW E, Differs(E, D, d), Good(d, E[d]),
           E[d].status = D[d].status, E[d].told = D[d].told,
           \A k \in Kids(d) : E[d].objs[k] = D[d].objs[k]
    PROVE  Sound(E)
  <1>1. SoundBut(D, {}) /\ E[d] \in Doc
    BY NoExceptions DEF Good, Fair
  <1>2. SoundBut(E, {})
    BY <1>1, Touch
  <1> QED BY <1>2, NoExceptions

\* A document asks for sheets that it has not asked for yet.
LEMMA RequestedGood ==
    ASSUME NEW d, NEW b, Good(d, b), b.status # "NONE",
           b.status \in Live => b.stage \notin {"boxes", "laid"},
           NEW S \in SUBSET Sheets, \A s \in S : b.sheets[s] = "none"
    PROVE  LET r == Requested(b, S) IN
           /\ Good(d, r) /\ Alike(r, b) /\ r.objs = b.objs /\ r.told = b.told
  <1> DEFINE r == Requested(b, S)
  <1>1. b \in Doc /\ (b.styles => b.modified # {})
    BY DEF Good, Fair, Staged
  <1>2. S \cap Waits(d, b) = {}
    BY HtmlAssumption DEF Waits, Boxed
  <1>3. Cardinality(S \cap Waits(d, b)) = 0
    BY <1>2, FS_EmptySet
  <1>4. b.active \in Int /\ Cardinality(S) \in Nat
    BY <1>1, FiniteSets, FS_Subset, FS_CardinalityType DEF Doc
  <1>5. /\ r \in Doc /\ Alike(r, b) /\ r.objs = b.objs /\ r.told = b.told
        /\ \A t \in Sheets : r.sheets[t] = IF t \in S THEN "going" ELSE b.sheets[t]
        /\ r.active = b.active + Cardinality(S)
    BY <1>1, RequestedIs
  <1> HIDE DEF r
  <1>6. Asks(r, b, S, Waits(d, b))
    BY <1>1, <1>3, <1>4, <1>5 DEF Asks, Alike
  <1>7. Good(d, r)
    BY <1>6, AsksGood
  <1> QED BY <1>5, <1>7 DEF r

\* The parser finds a sheet, or the text of one, or says that it cannot ask.
LEMMA FindsSound ==
    ASSUME NEW D, Sound(D), NEW d \in Docs, D[d].status \notin {"NONE", "READY", "DONE"},
           D[d].stage \notin {"boxes", "laid"}, NEW E \in Finds(D, d)
    PROVE  Sound(E) /\ E[d].stage = D[d].stage /\ E[d].status = D[d].status
  <1> DEFINE b == D[d]
  <1>0. D = [x \in Docs |-> D[x]] /\ Good(d, b) /\ b \in Doc
    BY DEF Sound, Good, Fair
  <1>1. CASE \E s \in Unasked(D, d, Sheets \ (Styles \cup Quirks)) :
                E = [D EXCEPT ![d] = Requested(b, {s})]
    <2>1. PICK s \in Sheets : b.sheets[s] = "none" /\ E = [D EXCEPT ![d] = Requested(b, {s})]
      BY <1>1 DEF Unasked
    <2> DEFINE r == Requested(b, {s})
    <2>2. /\ Good(d, r) /\ Alike(r, b) /\ r.objs = b.objs /\ r.told = b.told
      <3>1. {s} \in SUBSET Sheets /\ \A t \in {s} : b.sheets[t] = "none"
        BY <2>1
      <3> QED BY <1>0, <3>1, RequestedGood
    <2>3. E[d] = r /\ Differs(E, D, d)
      BY <1>0, <2>1 DEF Differs
    <2> HIDE DEF r
    <2>4. E[d].status = b.status /\ E[d].stage = b.stage
      BY <2>2, <2>3 DEF Alike
    <2> QED BY <2>2, <2>3, <2>4, TouchSound
  <1>2. CASE \E s \in Has[d] \cap Styles :
                E = [D EXCEPT ![d].modified = @ \cup {s}, ![d].styles = TRUE]
    <2>1. PICK s \in Styles : E = [D EXCEPT ![d].modified = @ \cup {s}, ![d].styles = TRUE]
      BY <1>2
    <2> DEFINE m == b.modified \cup {s}
               r == [b EXCEPT !.modified = m, !.styles = TRUE]
    <2>2. m \in SUBSET Styles /\ m # {}
      BY <1>0 DEF Doc
    <2>3. E[d] = r /\ Differs(E, D, d)
      BY <1>0, <2>1 DEF Differs
    <2>4. r = [b EXCEPT !.modified = m, !.styles = TRUE]
      OBVIOUS
    <2> HIDE DEF r, m
    <2>5. /\ r \in Doc /\ r.status = b.status /\ r.stage = b.stage /\ r.locked = b.locked
          /\ r.objs = b.objs /\ r.told = b.told /\ r.sheets = b.sheets
          /\ r.active = b.active /\ r.modified # {}
      BY ONLY <1>0, <2>2, <2>4 DEF Doc
    <2>6. Cardinality({}) = 0 /\ b.active \in Int
      BY <1>0, FS_EmptySet DEF Doc
    <2>7. {} \cap Waits(d, b) = {}
      OBVIOUS
    <2>8. Asks(r, b, {}, Waits(d, b))
      BY <2>5, <2>6, <2>7 DEF Asks
    <2>9. Good(d, r)
      BY <1>0, <2>8, AsksGood
    <2> QED BY <2>3, <2>5, <2>9, TouchSound
  <1>3. CASE E = Fail(D, d)
    BY <1>3, FailsSound
  <1> QED BY <1>1, <1>2, <1>3 DEF Finds

\* A document goes on from its sheets.
LEMMA StageGood ==
    ASSUME NEW d, NEW b, Good(d, b), b.stage \in {"sheets", "parsed"},
           NEW stage \in {"parsed", "boxes"}, stage = "boxes" => CanBegin(b),
           NEW r, r = [b EXCEPT !.stage = stage]
    PROVE  /\ Good(d, r) /\ r.status = b.status /\ r.objs = b.objs /\ r.told = b.told
           /\ r.stage = stage
  <1>0. b \in Doc /\ Staged(b) /\ b.active \in Int
    BY DEF Good, Fair, Doc
  <1>1. /\ r \in Doc /\ r.status = b.status /\ r.objs = b.objs /\ r.told = b.told
        /\ r.stage = stage /\ r.active = b.active /\ r.sheets = b.sheets
        /\ r.modified = b.modified /\ r.styles = b.styles /\ r.locked = b.locked
    BY <1>0 DEF Doc
  <1>2. Waits(d, r) = Waits(d, b)
    BY <1>1 DEF Waits
  <1>3. b.status \notin {"NONE", "READY", "DONE"}
    BY <1>0 DEF Staged, Absent
  <1>4. b.status \in Live => Counts(d, b)
    BY DEF Good, Fair
  <1>5. r.status \in Live => Counts(d, r)
    BY <1>1, <1>2, <1>4 DEF Counts
  <1>6. ASSUME stage = "boxes", b.status \in Live
        PROVE  r.modified = {} /\ \A s \in Sheets : r.sheets[s] # "going"
    <2>1. b.active = 0 /\ b.modified = {}
      BY <1>6 DEF CanBegin
    <2>2. Waits(d, b) = {}
      BY <1>4, <1>6, <2>1, NothingLeft
    <2> QED BY <1>1, <2>1, <2>2 DEF Waits
  <1>7. Staged(r)
    BY <1>0, <1>1, <1>3, <1>6 DEF Staged
  <1> QED BY <1>1, <1>3, <1>5, <1>7 DEF Good, Fair

\* The parse is complete.
LEMMA BeganKeeps ==
    ASSUME NEW E, Sound(E), NEW d \in Docs, E[d].stage = "parsed", NEW D \in Began(E, d)
    PROVE  Sound(D) /\ D[d].stage # "laid" /\ (Failed(D, d) => Unheld(D, d))
  <1> DEFINE b == E[d]
  <1>0. Good(d, b) /\ E = [x \in Docs |-> E[x]]
    BY DEF Sound
  <1>1. CASE ~CanBegin(b)
    BY <1>1 DEF Began, Failed
  <1>2. CASE CanBegin(b)
    <2>1. b.status \notin {"NONE", "READY", "DONE"}
      BY <1>0 DEF Good, Fair, Staged, Absent
    <2>2. CASE D \in {Fail(E, d), Fail(SetError(E, d), d), SetError(Fail(E, d), d)}
      BY <2>1, <2>2, FailsSound
    <2>3. CASE D = [E EXCEPT ![d].stage = "boxes"]
      <3> DEFINE e == [b EXCEPT !.stage = "boxes"]
      <3>1. /\ Good(d, e) /\ e.status = b.status /\ e.objs = b.objs /\ e.told = b.told
            /\ e.stage = "boxes"
        BY <1>0, <1>2, StageGood
      <3>2. D[d] = e /\ Differs(D, E, d)
        BY <1>0, <2>3 DEF Differs
      <3> HIDE DEF e
      <3> QED BY <3>1, <3>2, TouchSound DEF Failed
    <2> QED BY <1>2, <2>2, <2>3 DEF Began
  <1> QED BY <1>1, <1>2

LEMMA MayBeginKeeps ==
    ASSUME NEW E, Sound(E), NEW d \in Docs, NEW D \in MayBegin(E, d)
    PROVE  /\ Sound(D) /\ (E[d].stage # "laid" => D[d].stage # "laid")
           /\ E[d].stage = "sheets" /\ Failed(D, d) => Unheld(D, d)
  <1> DEFINE b == E[d]
  <1>0. Good(d, b) /\ E = [x \in Docs |-> E[x]]
    BY DEF Sound
  <1>1. CASE ~(b.stage \in {"sheets", "parsed"} /\ CanBegin(b))
    BY <1>1 DEF MayBegin, Failed
  <1>2. CASE b.stage \in {"sheets", "parsed"} /\ CanBegin(b)
    <2>1. D \in Begin(E, d)
      BY <1>2 DEF MayBegin
    <2>2. b.status \notin {"NONE", "READY", "DONE"} /\ b.stage \notin {"boxes", "laid"}
      BY <1>0, <1>2 DEF Good, Fair, Staged, Absent
    <2>3. CASE b.stage = "parsed"
      BY <2>1, <2>3, BeganKeeps DEF Begin
    <2>4. CASE b.stage # "parsed"
      <3>1. PICK F \in {E} \cup Finds(E, d) :
              D \in {Fail(F, d)} \cup Began([F EXCEPT ![d].stage = "parsed"], d)
        BY <2>1, <2>4 DEF Begin
      <3>2. Sound(F) /\ F[d].stage = b.stage /\ F[d].status = b.status
        BY <2>2, FindsSound
      <3>3. CASE D = Fail(F, d)
        BY <2>2, <3>2, <3>3, FailsSound
      <3>4. CASE D \in Began([F EXCEPT ![d].stage = "parsed"], d)
        <4> DEFINE G == [F EXCEPT ![d].stage = "parsed"]
                   e == [F[d] EXCEPT !.stage = "parsed"]
        <4>1. Good(d, F[d]) /\ F = [x \in Docs |-> F[x]]
          BY <3>2 DEF Sound
        <4>2. /\ Good(d, e) /\ e.status = F[d].status /\ e.objs = F[d].objs
              /\ e.told = F[d].told /\ e.stage = "parsed"
          BY <1>2, <3>2, <4>1, StageGood
        <4>3. G[d] = e /\ Differs(G, F, d)
          BY <4>1 DEF Differs
        <4> HIDE DEF e, G
        <4>4. Sound(G) /\ G[d].stage = "parsed"
          BY <3>2, <4>2, <4>3, TouchSound
        <4>5. D \in Began(G, d)
          BY <3>4 DEF G
        <4> QED BY <4>4, <4>5, BeganKeeps
      <3> QED BY <3>1, <3>3, <3>4
    <2> QED BY <2>3, <2>4
  <1> QED BY <1>1, <1>2

\* A sheet has come, or never will.
LEMMA SheetOver ==
    ASSUME NEW D, Sound(D), NEW d \in Docs, NEW s \in Sheets, D[d].sheets[s] = "going",
           NEW how \in {"done", "failed"},
           NEW E, E = [D EXCEPT ![d].sheets[s] = how, ![d].active = @ - 1]
    PROVE  Sound(E)
  <1> DEFINE b == D[d]
             g == [b.sheets EXCEPT ![s] = how]
             a == b.active - 1
             r == [b EXCEPT !.sheets = g, !.active = a]
  <1>1. D = [x \in Docs |-> D[x]] /\ b \in Doc /\ Good(d, b)
    BY DEF Sound, Good, Fair
  <1>2. b.active \in Int /\ b.sheets \in [Sheets -> {"none", "going", "done", "failed"}]
    BY <1>1 DEF Doc
  <1>3. /\ a \in Int /\ g \in [Sheets -> {"none", "going", "done", "failed"}]
        /\ \A t \in Sheets : g[t] = IF t = s THEN how ELSE b.sheets[t]
    BY <1>2
  <1>4. E[d] = r /\ Differs(E, D, d)
    BY <1>1 DEF Differs
  <1>4a. r = [b EXCEPT !.sheets = g, !.active = a]
    OBVIOUS
  <1> HIDE DEF g, r, a
  <1>5. /\ r \in Doc /\ Alike(r, b) /\ r.objs = b.objs /\ r.told = b.told
        /\ r.sheets = g /\ r.active = a
    BY ONLY <1>1, <1>3, <1>4a DEF Doc, Alike
  <1>6. Waits(d, r) = Waits(d, b) \ {s} /\ s \in Waits(d, b)
    BY <1>3, <1>5, HtmlAssumption DEF Waits, Boxed
  <1>7. Cardinality(Waits(d, r)) = Cardinality(Waits(d, b)) - 1
    BY <1>6, WaitsFinite, FS_RemoveElement
  <1>8. b.status \notin {"NONE", "READY", "DONE"}
    BY <1>1 DEF Good, Fair, Staged, Absent, Live
  <1>9. r.status \in Live => Counts(d, r)
    BY <1>1, <1>2, <1>5, <1>7, WaitsFinite DEF Good, Fair, Counts, Alike, a
  <1>10. Staged(r)
    BY <1>1, <1>5, <1>8 DEF Good, Fair, Staged, Alike, Live
  <1>11. Good(d, r)
    BY <1>5, <1>8, <1>9, <1>10 DEF Good, Fair, Alike
  <1> QED BY <1>4, <1>5, <1>11, TouchSound DEF Alike

\* An image that has no box yet changes nothing that is counted.
LEMMA ImageTouch ==
    ASSUME NEW D, Sound(D), NEW d \in Docs, D[d].status # "NONE", NEW o \in Speculative,
           NEW how \in {"going", "done", "gone"}, NEW E, E = [D EXCEPT ![d].objs[o] = how]
    PROVE  Sound(E)
  <1> DEFINE b == D[d]
             f == [b.objs EXCEPT ![o] = how]
             r == [b EXCEPT !.objs = f]
  <1>0. /\ o \in Objects /\ o \notin Docs /\ o \notin Boxed(d) /\ Boxed(d) \subseteq Objects
        /\ Docs \ {Root} \subseteq Objects
    BY HtmlAssumption DEF Objects, Boxed
  <1>1. D = [x \in Docs |-> D[x]] /\ b \in Doc /\ Good(d, b)
    BY DEF Sound, Good, Fair
  <1>2. b.objs \in [Objects -> {"none", "going", "done", "gone"}]
    BY <1>1 DEF Doc
  <1>3. /\ f \in [Objects -> {"none", "going", "done", "gone"}]
        /\ \A x \in Objects : x # o => f[x] = b.objs[x]
    BY <1>2
  <1>4. E[d] = r /\ Differs(E, D, d)
    BY <1>1 DEF Differs
  <1>5. r = [b EXCEPT !.objs = f]
    OBVIOUS
  <1> HIDE DEF f, r
  <1>6. /\ r \in Doc /\ Alike(r, b) /\ r.sheets = b.sheets /\ r.told = b.told
        /\ r.active = b.active /\ r.objs = f
    BY ONLY <1>1, <1>3, <1>5 DEF Doc, Alike
  <1>7. Good(d, r)
    BY <1>0, <1>1, <1>3, <1>6, SameGood
  <1>8. \A k \in Kids(d) : r.objs[k] = b.objs[k]
    BY <1>0, <1>3, <1>6 DEF Kids
  <1> QED BY <1>4, <1>6, <1>7, <1>8, TouchSound DEF Alike

LEMMA AbsentGood ==
    /\ \A d : Good(d, Absent)
    /\ Absent.status = "NONE" /\ Absent.told = "none"
    /\ Absent.objs = [o \in Objects |-> "none"]
  <1>1. Absent \in Doc
    BY DEF Absent, Doc
  <1>2. Staged(Absent)
    BY DEF Absent, Staged, Live
  <1> QED BY <1>1, <1>2 DEF Good, Fair, Absent, Live

LEMMA NewGood ==
    /\ \A d : Good(d, New)
    /\ New.status = "LOADING" /\ New.told = "none" /\ New.stage = "source"
    /\ New.objs = [o \in Objects |-> "none"]
  <1> DEFINE g == [s \in Sheets |-> IF s \in Initial THEN "going" ELSE "none"]
             a == 1 + Cardinality(Initial)
             n == Cardinality(Initial)
  <1>1. n \in Nat /\ a \in Int
    BY HtmlAssumption, FiniteSets, FS_Subset, FS_CardinalityType
  <1>2. g \in [Sheets -> {"none", "going", "done", "failed"}]
    OBVIOUS
  <1>3. New = [Absent EXCEPT !.status = "LOADING", !.active = a, !.sheets = g]
    BY DEF New
  <1>4. \A s \in Sheets : g[s] = "going" <=> s \in Initial
    OBVIOUS
  <1> HIDE DEF g, a, n
  <1>5. /\ New \in Doc /\ New.status = "LOADING" /\ New.told = "none"
        /\ New.stage = "source" /\ New.objs = [o \in Objects |-> "none"]
        /\ New.active = a /\ New.sheets = g /\ New.locked = FALSE
        /\ New.modified = {} /\ New.styles = FALSE
    BY ONLY <1>1, <1>2, <1>3 DEF Doc, Absent
  <1>6. ASSUME NEW d PROVE Good(d, New)
    <2>1. Waits(d, New) = Initial
      BY <1>4, <1>5, HtmlAssumption DEF Waits, Boxed
    <2>2. Counts(d, New)
      BY <1>1, <1>5, <2>1 DEF Counts, a, n
    <2>3. Staged(New)
      BY <1>5 DEF Staged, Live
    <2> QED BY <1>5, <2>2, <2>3 DEF Good, Fair
  <1> QED BY <1>5, <1>6

-----------------------------------------------------------------------------
(* Each step keeps the invariant: the source, the sheets *)

LEMMA StartKeeps == Init => IInv
  <1> SUFFICES ASSUME Init PROVE IInv
    OBVIOUS
  <1>1. /\ docs = [d \in Docs |-> docs[d]]
        /\ \A d \in Docs : docs[d] = IF d = Root THEN New ELSE Absent
    BY DEF Init
  <1>2. Good(Root, New) /\ New.told = "none" /\ New.status = "LOADING"
        /\ New.objs = [o \in Objects |-> "none"]
    BY NewGood
  <1>3. \A d \in Docs : Good(d, docs[d])
    BY <1>1, <1>2, AbsentGood
  <1>4. ASSUME NEW k \in Docs \ {Root} PROVE Linked(docs, k)
    <2>1. docs[Parent[k]].objs[k] = "none"
      BY <1>1, <1>2, ParentIsDoc, KidsBoxed DEF Absent
    <2> QED BY <2>1 DEF Linked
  <1> QED BY <1>1, <1>3, <1>4 DEF Init, IInv, Sound

LEMMA ProcessDataKeeps ==
    ASSUME Sound(docs), NEW d \in Docs, ProcessData(d)
    PROVE  Sound(docs')
  <1> DEFINE b == docs[d]
  <1>1. /\ docs = [x \in Docs |-> docs[x]] /\ Good(d, b) /\ b \in Doc
        /\ b.status = "LOADING" /\ b.stage = "source"
    BY DEF Sound, Good, Fair, ProcessData, Loading
  <1>2. CASE docs' \in Finds(docs, d)
    BY <1>1, <1>2, FindsSound
  <1>3. CASE \E o \in Speculative : /\ Parent[o] = d /\ docs' = [docs EXCEPT ![d].objs[o] = "going"]
    <2>1. PICK o \in Speculative : docs' = [docs EXCEPT ![d].objs[o] = "going"]
      BY <1>3
    <2> QED BY <1>1, <2>1, ImageTouch
  <1>4. CASE docs' = SetError(Fail(docs, d), d)
    BY <1>1, <1>4, FailsSound
  <1> QED BY <1>2, <1>3, <1>4 DEF ProcessData, Becomes

LEMMA ConvertKeeps ==
    ASSUME Sound(docs), NEW d \in Docs, Convert(d)
    PROVE  Sound(docs')
  <1> DEFINE b == docs[d]
  <1>1. /\ docs = [x \in Docs |-> docs[x]] /\ Good(d, b) /\ b \in Doc
        /\ b.status = "LOADING" /\ b.stage = "source"
    BY DEF Sound, Good, Fair, Convert, Loading
  <1>2. PICK q \in {{}, Unasked(docs, d, Quirks)} :
          \E D \in MayBegin([docs EXCEPT ![d] = [Requested(b, q) EXCEPT
                                !.stage = "sheets", !.locked = TRUE, !.active = @ - 1]], d) :
             docs' = IF Failed(D, d) THEN SetError(D, d) ELSE D
    BY DEF Convert, Becomes
  <1> DEFINE e == Requested(b, q)
             a == e.active - 1
             r == [e EXCEPT !.stage = "sheets", !.locked = TRUE, !.active = a]
             E == [docs EXCEPT ![d] = r]
  <1>3. q \in SUBSET Sheets /\ \A s \in q : b.sheets[s] = "none"
    BY HtmlAssumption DEF Unasked
  <1>4. Good(d, e) /\ Alike(e, b) /\ e.objs = b.objs /\ e.told = b.told
    BY <1>1, <1>3, RequestedGood
  <1>5. E[d] = r /\ Differs(E, docs, d)
    BY <1>1 DEF Differs
  <1>6. PICK D \in MayBegin(E, d) : docs' = IF Failed(D, d) THEN SetError(D, d) ELSE D
    BY <1>2
  <1>6a. r = [e EXCEPT !.stage = "sheets", !.locked = TRUE, !.active = a]
    OBVIOUS
  <1> HIDE DEF e, r, E
  <1>7. e \in Doc /\ e.active \in Int /\ a \in Int
    BY <1>4 DEF Good, Fair, Doc
  <1>8. /\ r \in Doc /\ r.status = e.status /\ r.told = e.told /\ r.objs = e.objs
        /\ r.sheets = e.sheets /\ r.modified = e.modified /\ r.styles = e.styles
        /\ r.stage = "sheets" /\ r.locked /\ r.active = e.active - 1
    BY <1>6a, <1>7 DEF Doc
  <1>9. Waits(d, r) = Waits(d, e)
    BY <1>8 DEF Waits
  <1>10. e.status = "LOADING" /\ e.stage = "source"
    BY <1>1, <1>4 DEF Alike
  <1>11. Counts(d, r) /\ Staged(r)
    BY <1>4, <1>7, <1>8, <1>9, <1>10, WaitsFinite DEF Good, Fair, Counts, Staged, Live
  <1>12. Good(d, r)
    BY <1>8, <1>10, <1>11 DEF Good, Fair
  <1>13. Sound(E)
    BY <1>1, <1>4, <1>5, <1>8, <1>10, <1>12, TouchSound
  <1>14. Sound(D) /\ D[d].stage # "laid" /\ (Failed(D, d) => Unheld(D, d))
    BY <1>5, <1>6, <1>8, <1>13, MayBeginKeeps
  <1>15. ASSUME Failed(D, d) PROVE Sound(SetError(D, d))
    <2>1. SoundBut(D, {d})
      BY <1>14, Opened
    <2>2. D[d].styles => D[d].modified # {}
      BY <1>14 DEF Sound, Good, Fair, Staged
    <2> QED BY <1>14, <1>15, <2>1, <2>2, ErrorKeeps
  <1> QED BY <1>6, <1>14, <1>15

LEMMA SourceErrorKeeps ==
    ASSUME Sound(docs), NEW d \in Docs, SourceError(d)
    PROVE  Sound(docs')
  BY FailsSound DEF SourceError, Loading, Becomes

LEMMA SheetEndsKeeps ==
    ASSUME Sound(docs), NEW d \in Docs, NEW s \in Sheets, SheetDone(d, s) \/ SheetError(d, s)
    PROVE  Sound(docs')
  <1>1. CASE SheetDone(d, s)
    <2> DEFINE E == [docs EXCEPT ![d].sheets[s] = "done", ![d].active = @ - 1]
    <2>1. docs[d].sheets[s] = "going" /\ docs' \in MayBegin(E, d)
      BY <1>1 DEF SheetDone, Becomes
    <2>2. Sound(E)
      BY <2>1, SheetOver
    <2> HIDE DEF E
    <2> QED BY <2>1, <2>2, MayBeginKeeps
  <1>2. CASE SheetError(d, s)
    <2> DEFINE E == [docs EXCEPT ![d].sheets[s] = "failed", ![d].active = @ - 1]
    <2>1. docs[d].sheets[s] = "going" /\ docs' \in MayBegin(E, d)
      BY <1>2 DEF SheetError, Becomes
    <2>2. Sound(E)
      BY <2>1, SheetOver
    <2> HIDE DEF E
    <2> QED BY <2>1, <2>2, MayBeginKeeps
  <1> QED BY <1>1, <1>2

LEMMA ModifiedKeeps ==
    ASSUME Sound(docs), NEW d \in Docs, ProcessModifiedStyles(d)
    PROVE  Sound(docs')
  <1> DEFINE b == docs[d]
             now == b.modified \ Empty
             old == {s \in now : b.sheets[s] = "going"}
             a == b.active - Cardinality(old)
             m == [b EXCEPT !.active = a, !.modified = {}, !.styles = FALSE]
             r == Requested(m, now)
  <1>1. /\ docs = [x \in Docs |-> docs[x]] /\ Good(d, b) /\ b \in Doc /\ b.styles
    BY DEF Sound, Good, Fair, ProcessModifiedStyles
  <1>2. docs' = [docs EXCEPT ![d] = r]
    BY DEF ProcessModifiedStyles
  <1>3. now \in SUBSET Sheets /\ b.active \in Int
    BY <1>1, HtmlAssumption DEF Doc
  <1>4. old = now \cap Waits(d, b)
    BY <1>3, HtmlAssumption DEF Waits, Boxed
  <1>5. Cardinality(old) \in Nat /\ Cardinality(now) \in Nat
    <2>1. old \in SUBSET Sheets
      BY <1>3
    <2> HIDE DEF old, now
    <2> QED BY <1>3, <2>1, FiniteSets, FS_Subset, FS_CardinalityType
  <1>6. a \in Int
    BY <1>3, <1>5
  <1> HIDE DEF now, old, a
  <1>7. /\ m \in Doc /\ m.status = b.status /\ m.stage = b.stage /\ m.locked = b.locked
        /\ m.objs = b.objs /\ m.told = b.told /\ m.sheets = b.sheets /\ m.active = a
        /\ m.styles = FALSE
    BY <1>1, <1>6 DEF Doc
  <1> HIDE DEF m
  <1>8. /\ r \in Doc /\ Alike(r, m) /\ r.objs = m.objs /\ r.told = m.told
        /\ \A s \in Sheets : r.sheets[s] = IF s \in now THEN "going" ELSE m.sheets[s]
        /\ r.active = m.active + Cardinality(now)
    BY <1>3, <1>7, RequestedIs
  <1>9. docs'[d] = r /\ Differs(docs', docs, d)
    BY <1>1, <1>2 DEF Differs
  <1> HIDE DEF r
  <1>10. r.active = b.active + Cardinality(now) - Cardinality(now \cap Waits(d, b))
    BY <1>3, <1>4, <1>5, <1>7, <1>8 DEF a
  <1>11. Asks(r, b, now, Waits(d, b))
    BY <1>7, <1>8, <1>10 DEF Asks, Alike
  <1>12. b.status # "NONE" /\ (b.status \in Live => b.stage \notin {"boxes", "laid"})
    BY <1>1 DEF Good, Fair, Staged, Absent
  <1>13. Good(d, r)
    BY <1>1, <1>3, <1>11, <1>12, AsksGood
  <1> QED BY <1>7, <1>8, <1>9, <1>13, TouchSound DEF Alike

-----------------------------------------------------------------------------
(* Each step keeps the invariant: the boxes, the objects *)

\* Documents that no page holds may go, and all that is in them.
LEMMA GoneKeeps ==
    ASSUME NEW X \in SUBSET Docs, NEW D, SoundBut(D, X), NEW O \in SUBSET Objects,
           \A k \in O \cap Docs : D[Parent[k]].objs[k] \notin {"going", "done"}
    PROVE  /\ SoundBut(Gone(D, O), X)
           /\ \A q \in Docs : Gone(D, O)[q] = IF Within[q] \cap O # {} THEN Absent ELSE D[q]
  <1> DEFINE E == Gone(D, O)
  <1>1. /\ E = [x \in Docs |-> E[x]]
        /\ \A q \in Docs : E[q] = IF Within[q] \cap O # {} THEN Absent ELSE D[q]
    BY DEF Gone
  <1> HIDE DEF E
  <1>2. Absent \in Doc
    BY AbsentGood DEF Good, Fair
  <1>3. \A q \in Docs : E[q] \in Doc
    BY <1>1, <1>2 DEF SoundBut
  <1>4. \A q \in Docs \ X : Good(q, E[q])
    BY <1>1, AbsentGood DEF SoundBut
  <1>5. ASSUME NEW k \in Docs \ (X \cup {Root}) PROVE Linked(E, k)
    <2> DEFINE p == Parent[k]
    <2>1. p \in Docs /\ Within[k] = {k} \cup Within[p] /\ k \in Objects
      BY WithinIs, ParentIsDoc, KidsBoxed
    <2>2. Linked(D, k)
      BY DEF SoundBut
    <2> HIDE DEF p
    <2>3. CASE Within[p] \cap O # {}
      <3>1. E[p].objs[k] = "none"
        BY <1>1, <2>1, <2>3, AbsentGood
      <3> QED BY <3>1 DEF Linked, p
    <2>4. CASE Within[p] \cap O = {} /\ k \in O
      <3>1. E[p] = D[p] /\ D[p].objs[k] \notin {"going", "done"}
        BY <1>1, <2>1, <2>4 DEF p
      <3> QED BY <3>1 DEF Linked, p
    <2>5. CASE Within[p] \cap O = {} /\ k \notin O
      <3>1. E[p] = D[p] /\ E[k] = D[k]
        BY <1>1, <2>1, <2>5
      <3> QED BY <2>2, <3>1 DEF Linked, p
    <2> QED BY <2>3, <2>4, <2>5
  <1>6. SoundBut(E, X)
    BY <1>1, <1>3, <1>4, <1>5 DEF SoundBut
  <1> QED BY <1>1, <1>6 DEF E

LEMMA ImageEndsKeeps ==
    ASSUME Sound(docs), NEW o \in Images, ImageDone(o) \/ ImageError(o)
    PROVE  Sound(docs')
  <1> DEFINE p == Parent[o]
  <1>1. PICK how \in {"done", "gone"} :
          docs' = IF o \in Speculative THEN [docs EXCEPT ![p].objs[o] = how]
                  ELSE Settled(docs, p, o, how)
    BY DEF ImageDone, ImageError, Becomes
  <1>2. p \in Docs /\ docs[p].objs[o] = "going" /\ o \in Objects /\ o \notin Docs
    BY HtmlAssumption DEF ImageDone, ImageError, Objects
  <1>3. docs[p].status # "NONE"
    <2>1. Staged(docs[p])
      BY <1>2 DEF Sound, Good, Fair
    <2> QED BY <1>2, <2>1, AbsentGood DEF Staged
  <1>4. CASE o \in Speculative
    <2>1. docs' = [docs EXCEPT ![p].objs[o] = how]
      BY <1>1, <1>4
    <2> HIDE DEF p
    <2> QED BY <1>2, <1>3, <1>4, <2>1, ImageTouch
  <1>5. CASE o \notin Speculative
    <2>1. o \in Boxed(p)
      BY <1>2, <1>5 DEF Boxed
    <2>2. SoundBut(docs, {}) /\ Within[p] \cap {} = {}
      BY NoExceptions
    <2> HIDE DEF p
    <2>3. SoundBut(Settled(docs, p, o, how), {})
      BY <1>2, <2>1, <2>2, SettledKeeps
    <2> QED BY <1>1, <1>5, <2>3, NoExceptions
  <1> QED BY <1>4, <1>5

LEMMA SetReadyKeeps ==
    ASSUME Sound(docs), NEW d \in Docs, Loading(d, "boxes")
    PROVE  Sound(ProceedToDone(SetReady(docs, d), d))
  <1> DEFINE b == docs[d]
             t == IF Held(docs, d) THEN "READY" ELSE b.told
             r == [b EXCEPT !.status = "READY", !.locked = FALSE, !.stage = "laid",
                            !.told = t]
             E == SetReady(docs, d)
  <1>1. /\ docs = [x \in Docs |-> docs[x]] /\ Good(d, b) /\ b \in Doc
        /\ b.status = "LOADING" /\ b.stage = "boxes"
    BY DEF Sound, Good, Fair, Loading
  <1>2. E[d] = r /\ Differs(E, docs, d)
    BY <1>1 DEF SetReady, Differs
  <1>3. t \in {"none", "READY", "DONE", "ERROR"}
    BY <1>1 DEF Doc
  <1>3a. t = "ERROR" => ~Held(docs, d)
    OBVIOUS
  <1>3b. r = [b EXCEPT !.status = "READY", !.locked = FALSE, !.stage = "laid", !.told = t]
    OBVIOUS
  <1> HIDE DEF t, r, E
  <1>4. /\ r \in Doc /\ r.status = "READY" /\ r.locked = FALSE /\ r.stage = "laid"
        /\ r.told = t /\ r.active = b.active /\ r.sheets = b.sheets /\ r.objs = b.objs
        /\ r.modified = b.modified /\ r.styles = b.styles
    BY <1>1, <1>3, <1>3b DEF Doc
  <1>5. Waits(d, r) = Waits(d, b)
    BY <1>4 DEF Waits
  <1>6. Fair(d, r)
    BY <1>1, <1>4, <1>5 DEF Good, Fair, Staged, Counts, Live
  <1>7. SoundBut(docs, {d})
    BY Opened
  <1>8. ASSUME NEW k \in Kids(d) \ {d} PROVE Fits(E[d].objs[k], docs[k])
    <2>1. Linked(docs, k) /\ Parent[k] = d
      BY DEF Sound, Kids
    <2> QED BY <1>2, <1>4, <2>1 DEF Linked, Fits
  <1>9. SoundBut(E, {d})
    BY <1>2, <1>4, <1>7, <1>8, Change
  <1>10. ASSUME d # Root PROVE Linked(E, d)
    <2>1. E[Parent[d]] = docs[Parent[d]] /\ Linked(docs, d)
      BY <1>2, <1>10, OwnParent DEF Differs, Sound
    <2>2. Held(docs, d) <=> docs[Parent[d]].objs[d] \in {"going", "done"}
      BY <1>10 DEF Held
    <2> QED BY <1>1, <1>2, <1>3a, <1>4, <2>1, <2>2 DEF Linked
  <1>11. {} \cup {d} = {d} /\ Within[d] \cap {} = {}
    OBVIOUS
  <1>12. SoundBut(MaybeDone(E, d), {})
    BY <1>2, <1>6, <1>9, <1>10, <1>11, MaybeDoneKeeps
  <1> QED BY <1>12, NoExceptions DEF ProceedToDone, E

\* The boxes cannot be made: the objects go, and the document fails.
LEMMA BoxesFailKeeps ==
    ASSUME Sound(docs), NEW d \in Docs, Loading(d, "boxes")
    PROVE  Sound(SetError(Fail(FreeObjects(docs, d), d), d))
  <1> DEFINE b == docs[d]
             g == [o \in Objects |-> IF b.objs[o] \in {"going", "done"} THEN "gone"
                                     ELSE b.objs[o]]
             r == [b EXCEPT !.objs = g]
             E == [docs EXCEPT ![d] = Freed(@)]
             F == FreeObjects(docs, d)
  <1>1. /\ docs = [x \in Docs |-> docs[x]] /\ Good(d, b) /\ b \in Doc
        /\ b.status = "LOADING" /\ b.stage = "boxes"
    BY DEF Sound, Good, Fair, Loading
  <1>2. E[d] = r /\ Differs(E, docs, d)
    BY <1>1 DEF Freed, Differs
  <1>3. b.objs \in [Objects -> {"none", "going", "done", "gone"}]
    BY <1>1 DEF Doc
  <1>3a. /\ g \in [Objects -> {"none", "going", "done", "gone"}]
         /\ \A o \in Objects : g[o] \notin {"going", "done"}
    BY <1>3
  <1>3b. r = [b EXCEPT !.objs = g]
    OBVIOUS
  <1>3c. F = Gone(E, Kids(d))
    BY DEF FreeObjects
  <1> HIDE DEF g, r, E, F
  <1>4. /\ r \in Doc /\ Alike(r, b) /\ r.told = b.told /\ r.objs = g
    BY <1>1, <1>3a, <1>3b DEF Doc, Alike
  <1>5. SoundBut(docs, {d})
    BY Opened
  <1>6. ASSUME NEW k \in Kids(d) PROVE E[d].objs[k] \notin {"going", "done"}
    <2>1. k \in Objects
      BY KidsBoxed DEF Kids
    <2> QED BY <1>2, <1>3a, <1>4, <2>1
  <1>7. SoundBut(E, {d})
    <2>1. \A k \in Kids(d) \ {d} : Fits(E[d].objs[k], docs[k])
      BY <1>6 DEF Fits
    <2> QED BY <1>2, <1>4, <1>5, <2>1, Change
  <1>8. Kids(d) \in SUBSET Objects /\ \A k \in Kids(d) : Parent[k] = d /\ k \in Docs \ {Root}
    BY KidsBoxed DEF Kids
  <1>9. /\ SoundBut(F, {d})
        /\ \A q \in Docs : F[q] = IF Within[q] \cap Kids(d) # {} THEN Absent ELSE E[q]
    <2>1. \A k \in Kids(d) \cap Docs : E[Parent[k]].objs[k] \notin {"going", "done"}
      BY <1>6, <1>8
    <2> DEFINE K == Kids(d)
    <2>2. /\ K \in SUBSET Objects /\ {d} \in SUBSET Docs /\ F = Gone(E, K)
          /\ \A k \in K \cap Docs : E[Parent[k]].objs[k] \notin {"going", "done"}
      BY <1>3c, <1>8, <2>1
    <2> HIDE DEF K
    <2>3. /\ SoundBut(F, {d})
          /\ \A q \in Docs : F[q] = IF Within[q] \cap K # {} THEN Absent ELSE E[q]
      BY ONLY <1>7, <2>2, GoneKeeps
    <2> QED BY <2>3 DEF K
  <1>10. ASSUME NEW q \in Within[d] PROVE F[q] = E[q]
    <2>1. q \in Docs /\ Within[q] \subseteq Within[d]
      BY WithinFacts
    <2>2. ASSUME NEW k \in Kids(d) \cap Within[q] PROVE FALSE
      <3>1. k \in Within[d] /\ k \in Docs \ {Root} /\ Parent[k] = d
        BY <1>8, <2>1, <2>2
      <3>2. Depth[k] <= Depth[d] /\ Depth[k] = Depth[d] + 1
        BY <3>1, WithinFacts, DepthFacts
      <3> QED BY <3>2, DepthFacts
    <2> QED BY <1>9, <2>1, <2>2
  <1>11. F[d] = r
    BY <1>2, <1>10, WithinFacts
  <1>12. ASSUME d # Root PROVE F[Parent[d]] = docs[Parent[d]]
    <2>1. Parent[d] \in Docs /\ Parent[d] # d /\ Parent[d] \in Within[d]
      BY <1>12, OwnParent, WithinIs, WithinFacts
    <2> QED BY <1>2, <1>10, <2>1 DEF Differs
  <1>13. d # Root /\ Held(F, d) => F[Parent[d]].objs[d] = "going"
    BY <1>1, <1>12, HeldIsGoing DEF Held
  <1>14. /\ SoundBut(Fail(F, d), {d}) /\ Unheld(Fail(F, d), d)
         /\ \E t \in {"ERROR", F[d].told} : Fail(F, d)[d] = [F[d] EXCEPT !.told = t]
    BY <1>9, <1>13, FailKeeps
  <1>15. /\ Fail(F, d)[d].stage = "boxes" /\ Fail(F, d)[d].styles = r.styles
         /\ Fail(F, d)[d].modified = r.modified
    BY <1>1, <1>4, <1>11, <1>14 DEF Doc, Alike
  <1>16. r.styles => r.modified # {}
    BY <1>1, <1>4 DEF Good, Fair, Staged, Alike
  <1>17. Sound(SetError(Fail(F, d), d))
    BY <1>14, <1>15, <1>16, ErrorKeeps
  <1> QED BY <1>17 DEF F

LEMMA BoxesEndKeeps ==
    ASSUME Sound(docs), NEW d \in Docs, BoxesEnd(d)
    PROVE  Sound(docs')
  <1>1. Loading(d, "boxes")
    BY DEF BoxesEnd, BoxConvertDone
  <1>2. /\ Sound(ProceedToDone(SetReady(docs, d), d))
        /\ Sound(SetError(Fail(FreeObjects(docs, d), d), d))
    BY <1>1, SetReadyKeeps, BoxesFailKeeps
  <1>3. Sound(SetError(Fail(docs, d), d))
    BY <1>1, FailsSound DEF Loading
  <1> QED BY <1>2, <1>3 DEF BoxesEnd, BoxConvertDone, Becomes

\* Object o of d is asked for.
OneMore(r, b, o) ==
    /\ r \in Doc /\ r.stage = b.stage /\ r.locked = b.locked /\ r.modified = b.modified
    /\ r.styles = b.styles /\ r.sheets = b.sheets /\ r.active = b.active + 1
    /\ \A x \in Objects : r.objs[x] = IF x = o THEN "going" ELSE b.objs[x]
    /\ r.status = IF b.status = "LOADING" THEN "LOADING" ELSE "READY"

LEMMA OneMoreGood ==
    ASSUME NEW d, NEW b, Good(d, b), b.status \in Live, NEW o \in Boxed(d),
           b.objs[o] # "going", NEW r, OneMore(r, b, o)
    PROVE  Good(d, r)
  <1>0. o \in Objects /\ o \notin Sheets /\ Boxed(d) \subseteq Objects
    BY HtmlAssumption DEF Boxed
  <1>1. /\ r \in Doc /\ r.stage = b.stage /\ r.locked = b.locked /\ r.modified = b.modified
        /\ r.styles = b.styles /\ r.sheets = b.sheets /\ r.active = b.active + 1
        /\ \A x \in Objects : r.objs[x] = IF x = o THEN "going" ELSE b.objs[x]
        /\ r.status = IF b.status = "LOADING" THEN "LOADING" ELSE "READY"
    BY DEF OneMore
  <1>2. Waits(d, r) = Waits(d, b) \cup {o} /\ o \notin Waits(d, b)
    BY <1>0, <1>1 DEF Waits
  <1>3. Cardinality(Waits(d, r)) = Cardinality(Waits(d, b)) + 1
    BY <1>2, WaitsFinite, FS_AddElement
  <1>4. Counts(d, r) /\ r.active # 0
    BY <1>1, <1>3, WaitsFinite DEF Good, Fair, Counts
  <1>5. Staged(r)
    BY <1>1 DEF Good, Fair, Staged, Live
  <1> QED BY <1>1, <1>4, <1>5 DEF Good, Fair

LEMMA NotRoot == \A o \in Objects : o # Root
  BY HtmlAssumption DEF Objects

LEMMA FetchObjectKeeps ==
    ASSUME Sound(docs), NEW d \in Docs, NEW o \in Objects, FetchObject(d, o)
    PROVE  Sound(docs')
  <1> DEFINE b == docs[d]
             f == [b.objs EXCEPT ![o] = "going"]
             a == b.active + 1
             r == [b EXCEPT !.objs[o] = "going", !.active = @ + 1]
             E == [x \in Docs |-> IF x = o THEN New ELSE docs[x]]
  <1>1. /\ docs = [x \in Docs |-> docs[x]] /\ Good(d, b) /\ b \in Doc
        /\ b.status = "LOADING" /\ b.stage = "boxes" /\ o \in Boxed(d)
        /\ b.objs[o] = "none" /\ Parent[o] = d
    BY DEF Sound, Good, Fair, FetchObject, Loading, Boxed
  <1>2. docs' = [x \in Docs |-> IF x = d THEN r ELSE IF x = o THEN New ELSE docs[x]]
    BY DEF FetchObject
  <1>3. o # Root /\ o # d
    BY <1>1, NotRoot, OwnParent
  <1>4. /\ b.objs \in [Objects -> {"none", "going", "done", "gone"}] /\ b.active \in Int
    BY <1>1 DEF Doc
  <1>5. /\ f \in [Objects -> {"none", "going", "done", "gone"}] /\ a \in Int
        /\ \A x \in Objects : f[x] = IF x = o THEN "going" ELSE b.objs[x]
    BY <1>4
  <1>6. r = [b EXCEPT !.objs = f, !.active = a]
    BY <1>1 DEF Doc
  <1>7. E[d] = b /\ docs'[d] = r /\ \A q \in Docs : q # d => docs'[q] = E[q]
    BY <1>2, <1>3
  <1>8. docs' = [x \in Docs |-> docs'[x]] /\ E = [x \in Docs |-> E[x]]
        /\ \A q \in Docs : E[q] = IF q = o THEN New ELSE docs[q]
    BY <1>2
  <1> HIDE DEF f, a, r, E
  <1>9. /\ r \in Doc /\ Alike(r, b) /\ r.told = b.told /\ r.sheets = b.sheets
        /\ r.objs = f /\ r.active = a
    BY ONLY <1>1, <1>5, <1>6 DEF Doc, Alike
  <1>10. Good(d, r)
    <2>1. OneMore(r, b, o)
      BY <1>1, <1>5, <1>9 DEF OneMore, Alike, a
    <2> QED BY <1>1, <2>1, OneMoreGood DEF Live
  <1>11. SoundBut(E, {d})
    <2>1. SoundBut(docs, {d})
      BY Opened
    <2>2. CASE o \in Docs
      <3>1. Differs(E, docs, o) /\ E[o] = New
        BY <1>8, <2>2 DEF Differs
      <3>2. New \in Doc /\ Good(o, New)
        BY NewGood DEF Good, Fair
      <3>3. Fits(docs[Parent[o]].objs[o], E[o])
        BY <1>1, <3>1, NewGood DEF Fits
      <3>4. \A k \in Kids(o) \ {d} : Fits(E[o].objs[k], docs[k])
        BY <3>1, NewGood, KidsBoxed DEF Fits, Kids
      <3> QED BY <2>1, <2>2, <3>1, <3>2, <3>3, <3>4, Change
    <2>3. CASE o \notin Docs
      <3>1. E = docs
        BY <1>1, <1>8, <2>3
      <3> QED BY <2>1, <3>1
    <2> QED BY <2>2, <2>3
  <1>12. SoundBut(docs', {d})
    <2>1. Differs(docs', E, d)
      BY <1>7, <1>8 DEF Differs
    <2>2. ASSUME NEW k \in Kids(d) \ {d} PROVE Fits(docs'[d].objs[k], E[k])
      <3>1. k \in Docs \ {Root} /\ k \in Objects /\ Parent[k] = d
        BY KidsBoxed DEF Kids
      <3>2. CASE k = o
        BY <1>5, <1>7, <1>8, <1>9, <3>1, <3>2, NewGood DEF Fits
      <3>3. CASE k # o
        <4>1. docs'[d].objs[k] = b.objs[k] /\ E[k] = docs[k] /\ Linked(docs, k)
          BY <1>5, <1>7, <1>8, <1>9, <3>1, <3>3 DEF Sound
        <4> QED BY <3>1, <4>1 DEF Fits, Linked
      <3> QED BY <3>2, <3>3
    <2> QED BY <1>7, <1>9, <1>11, <2>1, <2>2, Change
  <1>13. ASSUME d # Root PROVE Linked(docs', d)
    <2>1. Linked(docs, d) /\ Parent[d] \in Docs /\ Parent[d] # d /\ d \in Objects
      BY <1>13, OwnParent, KidsBoxed DEF Sound
    <2>2. docs'[Parent[d]] = docs[Parent[d]] \/ docs'[Parent[d]] = New
      BY <1>7, <1>8, <2>1
    <2>3. docs'[d].status = docs[d].status /\ docs'[d].told = docs[d].told
      BY <1>7, <1>9 DEF Alike
    <2> QED BY <2>1, <2>2, <2>3, NewGood DEF Linked
  <1> QED BY <1>7, <1>10, <1>12, <1>13, Closed

\* An object is refreshed: the page that it is in is the root.
LEMMA RefreshObjectKeeps ==
    ASSUME Sound(docs), NEW o \in Docs \ {Root}, Parent[o] = Root,
           docs[Root].stage = "laid", RefreshObject(o)
    PROVE  Sound(docs')
  <1> DEFINE b == docs[Root]
             O == {o}
             E == Gone(docs, {o})
             was == IF docs[o].status # "DONE" THEN 1 ELSE 0
             f == [b.objs EXCEPT ![o] = "going"]
             r == [b EXCEPT !.status = "READY", !.active = @ + 1 - was, !.objs[o] = "going"]
  <1>0. Root \in Docs /\ o \in Boxed(Root) /\ o \in Objects /\ Within[Root] = {Root}
    BY HtmlAssumption, KidsBoxed, WithinIs
  <1>1. /\ docs = [x \in Docs |-> docs[x]] /\ Good(Root, b) /\ b \in Doc
        /\ b.status \in {"READY", "DONE"} /\ b.objs[o] \in {"going", "done"}
        /\ Linked(docs, o)
    BY <1>0 DEF Sound, Good, Fair, Staged, RefreshObject, Held
  <1>2. /\ E = [x \in Docs |-> E[x]]
        /\ \A q \in Docs : E[q] = IF Within[q] \cap {o} # {} THEN Absent ELSE docs[q]
        /\ E[Root] = b
    BY <1>0 DEF Gone
  <1> HIDE DEF E
  <1>3. Counted(Root) = {Root}
    <2>1. Between(Root, Root) = {Root}
      BY <1>0, PathFacts
    <2> QED BY <1>0, <2>1 DEF Counted
  <1>4. docs' = [x \in Docs |-> IF x = o THEN New ELSE IF x = Root THEN r ELSE E[x]]
    <2> DEFINE now(d) == [E[d] EXCEPT !.status = "READY",
                                 !.active = @ + 1 - (IF d = Root THEN was ELSE 0),
                                 !.objs[o] = IF d = Root THEN "going" ELSE @]
    <2>1. docs' = [d \in Docs |-> IF d = o THEN New
                                  ELSE IF d \in Counted(Root) THEN now(d) ELSE E[d]]
      BY DEF RefreshObject, E
    <2>2. now(Root) = r
      BY <1>2
    <2> HIDE DEF now, r
    <2> QED BY <1>3, <2>1, <2>2
  <1>5. b.objs \in [Objects -> {"none", "going", "done", "gone"}] /\ b.active \in Int
    BY <1>1 DEF Doc
  <1>6. /\ f \in [Objects -> {"none", "going", "done", "gone"}] /\ was \in Int
        /\ b.active + 1 - was \in Int
        /\ \A x \in Objects : f[x] = IF x = o THEN "going" ELSE b.objs[x]
    BY <1>0, <1>5
  <1>7. r = [b EXCEPT !.status = "READY", !.active = b.active + 1 - was, !.objs = f]
    BY <1>1 DEF Doc
  <1>8. docs'[o] = New /\ docs'[Root] = r /\ docs' = [x \in Docs |-> docs'[x]]
        /\ \A q \in Docs \ {o, Root} : docs'[q] = E[q]
    BY <1>0, <1>4
  <1> HIDE DEF f, r
  <1>9. /\ r \in Doc /\ r.status = "READY" /\ r.active = b.active + 1 - was
        /\ r.objs = f /\ r.stage = b.stage /\ r.locked = b.locked
        /\ r.modified = b.modified /\ r.styles = b.styles /\ r.sheets = b.sheets
        /\ r.told = b.told
    BY ONLY <1>1, <1>6, <1>7 DEF Doc
  <1>10. Good(Root, r)
    <2>1. CASE b.objs[o] = "done"
      <3>1. was = 0
        BY <1>1, <2>1 DEF Linked
      <3>2. OneMore(r, b, o)
        BY <1>1, <1>5, <1>6, <1>9, <3>1 DEF OneMore
      <3> QED BY <1>0, <1>1, <2>1, <3>2, OneMoreGood DEF Live
    <2>2. CASE b.objs[o] = "going"
      <3>1. was = 1
        BY <1>1, <2>2 DEF Linked
      <3>2. r.active = b.active
        BY <1>5, <1>9, <3>1
      <3>3. o \in Waits(Root, b)
        BY <1>0, <2>2 DEF Waits
      <3>4. b.status = "READY"
        <4>1. b.active = 0 => Waits(Root, b) = {}
          BY <1>1, NothingLeft DEF Good, Fair, Live
        <4> QED BY <1>1, <3>3, <4>1 DEF Good, Fair
      <3>5. \A x \in Boxed(Root) : r.objs[x] = b.objs[x]
        BY <1>6, <1>9, <2>2 DEF Boxed
      <3>6. Alike(r, b)
        BY <1>9, <3>4 DEF Alike
      <3> QED BY <1>1, <1>9, <3>2, <3>4, <3>5, <3>6, SameGood
    <2> QED BY <1>1, <2>1, <2>2
  <1>11. \A q \in Docs : Good(q, docs'[q])
    BY <1>2, <1>8, <1>10, NewGood, AbsentGood DEF Sound
  <1>12. ASSUME NEW k \in Docs \ {Root} PROVE Linked(docs', k)
    <2> DEFINE p == Parent[k]
    <2>1. p \in Docs /\ p # k /\ k \in Objects /\ Within[k] = {k} \cup Within[p]
      BY OwnParent, KidsBoxed, WithinIs
    <2>2. Linked(docs, k)
      BY DEF Sound
    <2> HIDE DEF p
    <2>3. CASE k = o
      BY <1>0, <1>6, <1>8, <1>9, <2>3, NewGood DEF Linked
    <2>4. CASE k # o /\ o \in Within[p]
      <3>1. docs'[p] = New \/ docs'[p] = Absent
        BY <1>0, <1>2, <1>8, <2>1, <2>4
      <3> QED BY <2>1, <3>1, NewGood, AbsentGood DEF Linked, p
    <2>5. CASE k # o /\ o \notin Within[p]
      <3>1. docs'[k] = docs[k] /\ p # o
        BY <1>2, <1>8, <2>1, <2>5, WithinFacts
      <3>2. docs'[p].objs[k] = docs[p].objs[k]
        BY <1>2, <1>6, <1>8, <1>9, <2>1, <2>5, <3>1
      <3> QED BY <2>2, <3>1, <3>2 DEF Linked, p
    <2> QED BY <2>3, <2>4, <2>5
  <1> QED BY <1>8, <1>11, <1>12 DEF Sound

-----------------------------------------------------------------------------
(* Stopping the page *)

\* What Stopped reaches, what it lets go of, and what is left to wait for
On(D, q) == Root \in Within[q] /\ \A r \in Between(q, Root) :
               D[r].status = "READY" /\ (r # Root => Held(D, r))

Loose(D, q) == {o \in Objects : /\ Parent[o] = q /\ D[q].objs[o] = "going"
                                /\ o \in Docs => D[o].status # "READY"}

LeftStep(D, g, q) == D[q].active - Cardinality(Loose(D, q) \cap Boxed(q))
                     - Cardinality({k \in Kids(q) : On(D, k) /\ g[k] = 0})

Left(D) == CHOOSE g : g = [q \in Docs |-> LeftStep(D, g, q)]

AfterStop(D, g, q) ==
    LET r == [D[q] EXCEPT !.active = g[q],
                          !.objs = [o \in Objects |->
                                      IF o \in Loose(D, q) THEN "gone"
                                      ELSE IF o \in Kids(q) /\ On(D, o) /\ g[o] = 0
                                      THEN "done" ELSE @[o]]]
    IN IF g[q] = 0 THEN [r EXCEPT !.status = "DONE", !.told = "DONE"] ELSE r

LEMMA StoppedIs ==
    ASSUME NEW D
    PROVE  Stopped(D, Root) =
             Gone([q \in Docs |-> IF On(D, q) THEN AfterStop(D, Left(D), q) ELSE D[q]],
                  UNION {Loose(D, q) : q \in {x \in Docs : On(D, x)}})
  BY Zenon DEF Stopped, On, Loose, LeftStep, Left, AfterStop

\* What is left, by recursion: there is such a function.
LEMMA LeftIs ==
    ASSUME NEW D
    PROVE  \A q \in Docs : Left(D)[q] = LeftStep(D, Left(D), q)
  <1> DEFINE M == Cardinality(Docs)
             Step(g, q) == LeftStep(D, g, q)
             Solves(g, n) == \A q \in Docs : Depth[q] + n > M => g[q] = Step(g, q)
             Stuck == {n \in 0..(M + 1) : ~\E g : Solves(g, n)}
             f == CHOOSE g : g = [q \in Docs |-> Step(g, q)]
  <1>0. M \in Nat /\ \A q \in Docs : Depth[q] \in Nat /\ Depth[q] <= M
    BY DepthFacts
  <1>1. Left(D) = f
    BY DEF Left
  <1>2. ASSUME NEW g, NEW h, NEW q \in Docs, \A k \in Kids(q) : g[k] = h[k]
        PROVE  Step(g, q) = Step(h, q)
    <2>1. {k \in Kids(q) : On(D, k) /\ g[k] = 0} = {k \in Kids(q) : On(D, k) /\ h[k] = 0}
      BY <1>2
    <2> QED BY <2>1 DEF LeftStep
  <1>2a. \A q \in Docs : \A k \in Kids(q) : k \in Docs /\ Depth[k] = Depth[q] + 1
    BY DepthFacts DEF Kids
  <1> HIDE DEF M, Step
  <1>3. Stuck = {}
    <2> SUFFICES ASSUME Stuck # {} PROVE FALSE
      OBVIOUS
    <2>1. Stuck \in SUBSET Nat
      BY <1>0
    <2>2. PICK b \in Stuck : \A n \in Stuck : b <= n
      BY <2>1, Least
    <2>3. CASE b = 0
      <3>1. Solves([q \in Docs |-> 0], 0)
        BY <1>0
      <3> QED BY <3>1, <2>2, <2>3
    <2>4. CASE b # 0
      <3>1. b \in Nat /\ b - 1 \in Nat /\ b - 1 \in 0..(M + 1) /\ b - 1 \notin Stuck
        <4> HIDE DEF Solves
        <4>1. b \in 0..(M + 1) /\ b \in Stuck /\ \A n \in Stuck : b <= n
          BY <2>2
        <4> HIDE DEF Stuck
        <4>2. b \in Nat /\ b - 1 \in Nat /\ b - 1 \in 0..(M + 1)
          BY <1>0, <4>1, <2>4
        <4> QED BY <4>1, <4>2
      <3>2. PICK g : Solves(g, b - 1)
        BY <3>1
      <3> DEFINE h == [q \in Docs |-> IF Depth[q] + b = M + 1 THEN Step(g, q) ELSE g[q]]
      <3>3. ASSUME NEW q \in Docs, Depth[q] + b > M
            PROVE  h[q] = Step(h, q)
        <4>1. \A k \in Kids(q) : h[k] = g[k]
          BY <1>0, <1>2a, <3>1, <3>3
        <4> HIDE DEF h
        <4>2. Step(h, q) = Step(g, q)
          BY <1>2, <4>1
        <4>3. h[q] = IF Depth[q] + b = M + 1 THEN Step(g, q) ELSE g[q]
          BY DEF h
        <4>4. Depth[q] + b # M + 1 => Depth[q] + (b - 1) > M
          BY <1>0, <3>1, <3>3
        <4> QED BY <3>2, <4>2, <4>3, <4>4
      <3> HIDE DEF h
      <3>4. Solves(h, b)
        BY <3>3
      <3> QED BY <3>4, <2>2
    <2> QED BY <2>3, <2>4
  <1>4. PICK g : Solves(g, M + 1)
    <2>1. M + 1 \in 0..(M + 1)
      BY <1>0
    <2> QED BY <2>1, <1>3
  <1> DEFINE w == [q \in Docs |-> Step(g, q)]
  <1>5. \A q \in Docs : w[q] = g[q]
    BY <1>0, <1>4
  <1>6. \A q \in Docs : Step(w, q) = Step(g, q)
    <2> HIDE DEF w
    <2> QED BY <1>2, <1>2a, <1>5
  <1>7. w = [q \in Docs |-> Step(w, q)]
    BY <1>6
  <1> HIDE DEF w
  <1>8. f = [q \in Docs |-> Step(f, q)]
    BY <1>7
  <1> HIDE DEF f
  <1> QED BY <1>1, <1>8 DEF Step

LEMMA OnFacts ==
    ASSUME NEW D, D[Root].status = "READY"
    PROVE  /\ On(D, Root)
           /\ \A q \in Docs : On(D, q) => D[q].status = "READY"
           /\ \A k \in Docs \ {Root} :
                On(D, k) <=> On(D, Parent[k]) /\ D[k].status = "READY" /\ Held(D, k)
  <1>0. Root \in Docs
    BY HtmlAssumption
  <1>1. Between(Root, Root) = {Root} /\ Root \in Within[Root]
    BY <1>0, PathFacts, WithinFacts
  <1>2. On(D, Root)
    BY <1>1 DEF On
  <1>3. ASSUME NEW q \in Docs, On(D, q) PROVE D[q].status = "READY"
    <2>1. Root \in Within[q]
      BY <1>3 DEF On
    <2>2. q \in Between(q, Root)
      BY <2>1, PathFacts
    <2> QED BY <1>3, <2>2 DEF On
  <1>4. ASSUME NEW k \in Docs \ {Root}
        PROVE  On(D, k) <=> On(D, Parent[k]) /\ D[k].status = "READY" /\ Held(D, k)
    <2>1. Parent[k] \in Docs /\ Within[k] = {k} \cup Within[Parent[k]]
      BY WithinIs, ParentIsDoc
    <2>2. Root \in Within[k] <=> Root \in Within[Parent[k]]
      BY <2>1
    <2>3. Root \in Within[k] => Between(k, Root) = {k} \cup Between(Parent[k], Root)
      BY <1>0, PathDown
    <2> QED BY <2>2, <2>3 DEF On
  <1> QED BY <1>2, <1>3, <1>4

\* Nothing is left to wait for: a page that is stopped has let go of what is
\* not READY, and what is READY is stopped with it.
LEMMA NothingIsLeft ==
    ASSUME NEW D, Sound(D), D[Root].status = "READY"
    PROVE  \A q \in Docs : On(D, q) => Left(D)[q] = 0
  <1> DEFINE g == Left(D)
             Bad == {q \in Docs : On(D, q) /\ g[q] # 0}
             Kept(q) == {k \in Kids(q) : On(D, k)}
  <1>1. \A q \in Docs : g[q] = LeftStep(D, g, q)
    BY LeftIs
  <1> HIDE DEF g
  <1>2. ASSUME NEW q \in Docs, On(D, q)
        PROVE  D[q].active = Cardinality(Loose(D, q) \cap Boxed(q)) + Cardinality(Kept(q))
               /\ Cardinality(Loose(D, q) \cap Boxed(q)) \in Nat
               /\ Cardinality(Kept(q)) \in Nat
    <2> DEFINE W == Waits(q, D[q])
               L == Loose(D, q) \cap Boxed(q)
               K == Kept(q)
    <2>1. D[q].status = "READY" /\ Good(q, D[q])
      BY <1>2, OnFacts DEF Sound
    <2>2. /\ D[q].active = Cardinality(W) /\ \A s \in Sheets : D[q].sheets[s] # "going"
          /\ D[q].active \in Int
      <3>1. Counts(q, D[q]) /\ D[q].stage = "laid" /\ D[q] \in Doc
            /\ \A s \in Sheets : D[q].sheets[s] # "going"
        BY <2>1 DEF Good, Fair, Staged, Live
      <3>2. Cardinality(W) \in Nat
        BY WaitsFinite
      <3> QED BY <3>1, <3>2 DEF Counts
    <2>3. ASSUME NEW k \in K
          PROVE  D[q].objs[k] = "going" /\ k \in Boxed(q) /\ k \notin L
      <3>1. k \in Docs \ {Root} /\ Parent[k] = q /\ On(D, k)
        BY DEF Kids
      <3>2. D[k].status = "READY" /\ Held(D, k) /\ Linked(D, k)
        BY <3>1, OnFacts DEF Sound
      <3>3. D[q].objs[k] = "going"
        BY <3>1, <3>2 DEF Held, Linked
      <3> QED BY <3>1, <3>2, <3>3, KidsBoxed DEF Loose
    <2>4. ASSUME NEW o \in Boxed(q), D[q].objs[o] = "going", o \notin L PROVE o \in K
      <3>1. o \in Objects /\ Parent[o] = q
        BY DEF Boxed
      <3>2. o \in Docs /\ D[o].status = "READY" /\ o # Root
        BY <2>4, <3>1, NotRoot DEF Loose
      <3>3. Held(D, o)
        BY <2>4, <3>1, <3>2 DEF Held
      <3> QED BY <1>2, <3>1, <3>2, <3>3, OnFacts DEF Kids
    <2>5. \A o \in L : o \in Boxed(q) /\ D[q].objs[o] = "going"
      BY DEF Loose
    <2>6. W = L \cup K /\ L \cap K = {}
      BY <2>2, <2>3, <2>4, <2>5 DEF Waits
    <2>7. IsFiniteSet(L) /\ IsFiniteSet(K)
      <3>1. IsFiniteSet(W) /\ L \subseteq W /\ K \subseteq W
        BY <2>6, WaitsFinite
      <3> HIDE DEF W, L, K
      <3> QED BY <3>1, FS_Subset
    <2> HIDE DEF W, L, K
    <2>8. Cardinality(W) = Cardinality(L) + Cardinality(K) - Cardinality(L \cap K)
      BY <2>6, <2>7, FS_Union
    <2>9. Cardinality(L \cap K) = 0 /\ Cardinality(L) \in Nat /\ Cardinality(K) \in Nat
      BY <2>6, <2>7, FS_EmptySet, FS_CardinalityType
    <2>10. D[q].active = Cardinality(L) + Cardinality(K)
      BY <2>2, <2>8, <2>9
    <2> QED BY <2>9, <2>10 DEF L, K
  <1>3. Bad = {}
    <2> SUFFICES ASSUME Bad # {} PROVE FALSE
      OBVIOUS
    <2>1. PICK q \in Bad : \A e \in Bad : Depth[e] <= Depth[q]
      BY Deepest
    <2>2. q \in Docs /\ On(D, q) /\ g[q] # 0
      BY <2>1
    <2>3. ASSUME NEW k \in Kids(q), On(D, k) PROVE g[k] = 0
      <3>1. k \in Docs \ {Root} /\ Parent[k] = q
        BY DEF Kids
      <3>2. Depth[k] = Depth[q] + 1 /\ Depth[q] \in Nat
        BY <2>2, <3>1, DepthFacts
      <3>3. k \in Bad => Depth[k] <= Depth[q]
        BY <2>1
      <3> QED BY <2>3, <3>1, <3>2, <3>3
    <2>4. {k \in Kids(q) : On(D, k) /\ g[k] = 0} = Kept(q)
      BY <2>3
    <2>5. g[q] = D[q].active - Cardinality(Loose(D, q) \cap Boxed(q)) - Cardinality(Kept(q))
      BY <1>1, <2>2, <2>4 DEF LeftStep
    <2> HIDE DEF Kept
    <2> QED BY <1>2, <2>2, <2>5
  <1> QED BY <1>3 DEF g

LEMMA StoppedKeeps ==
    ASSUME NEW D, Sound(D), D[Root].status = "READY"
    PROVE  Sound(Stopped(D, Root)) /\ Stopped(D, Root)[Root].status = "DONE"
  <1> DEFINE g == Left(D)
             E == [q \in Docs |-> IF On(D, q) THEN AfterStop(D, g, q) ELSE D[q]]
             O == UNION {Loose(D, q) : q \in {x \in Docs : On(D, x)}}
             f(q) == [o \in Objects |-> IF o \in Loose(D, q) THEN "gone"
                                        ELSE IF o \in Kids(q) /\ On(D, o) THEN "done"
                                        ELSE D[q].objs[o]]
  <1>1. /\ D = [x \in Docs |-> D[x]] /\ Root \in Docs
        /\ \A q \in Docs : D[q] \in Doc /\ Good(q, D[q])
    BY HtmlAssumption DEF Sound, Good, Fair
  <1>2. E = [q \in Docs |-> E[q]] /\ Stopped(D, Root) = Gone(E, O)
    BY StoppedIs
  <1>3. \A q \in Docs : ~On(D, q) => E[q] = D[q]
    OBVIOUS
  <1>4. ASSUME NEW q \in Docs, On(D, q)
        PROVE  /\ E[q] \in Doc /\ E[q].status = "DONE" /\ E[q].told = "DONE"
               /\ E[q].active = 0 /\ E[q].objs = f(q) /\ E[q].stage = D[q].stage
               /\ E[q].locked = D[q].locked /\ E[q].modified = D[q].modified
               /\ E[q].styles = D[q].styles /\ E[q].sheets = D[q].sheets
    <2> DEFINE b == D[q]
               u == f(q)
               e == [b EXCEPT !.active = 0, !.objs = u]
    <2>1. b.objs \in [Objects -> {"none", "going", "done", "gone"}] /\ b \in Doc
      BY <1>1 DEF Doc
    <2>2. u \in [Objects -> {"none", "going", "done", "gone"}]
      BY <2>1
    <2>3. g[q] = 0 /\ \A k \in Kids(q) : On(D, k) => g[k] = 0
      BY <1>4, NothingIsLeft DEF Kids
    <2>4. [o \in Objects |-> IF o \in Loose(D, q) THEN "gone"
                             ELSE IF o \in Kids(q) /\ On(D, o) /\ g[o] = 0 THEN "done"
                             ELSE b.objs[o]] = u
      BY <2>3
    <2>5. E[q] = [e EXCEPT !.status = "DONE", !.told = "DONE"]
      <3>1. E[q] = AfterStop(D, g, q)
        BY <1>4
      <3> HIDE DEF E, u, f
      <3> QED BY <2>3, <2>4, <3>1 DEF AfterStop
    <2>6. e = [b EXCEPT !.active = 0, !.objs = u]
      OBVIOUS
    <2> HIDE DEF E, u, f, e
    <2> HIDE DEF b
    <2>7. /\ e \in Doc /\ e.active = 0 /\ e.objs = u /\ e.stage = b.stage
          /\ e.locked = b.locked /\ e.modified = b.modified /\ e.styles = b.styles
          /\ e.sheets = b.sheets
      <3>1. 0 \in Int
        OBVIOUS
      <3> QED BY ONLY <2>1, <2>2, <2>6, <3>1 DEF Doc
    <2>8. /\ E[q] \in Doc /\ E[q].status = "DONE" /\ E[q].told = "DONE"
          /\ E[q].active = e.active /\ E[q].objs = e.objs /\ E[q].stage = e.stage
          /\ E[q].locked = e.locked /\ E[q].modified = e.modified
          /\ E[q].styles = e.styles /\ E[q].sheets = e.sheets
      BY ONLY <2>5, <2>7 DEF Doc
    <2> QED BY <2>7, <2>8 DEF b, u
  <1>5. ASSUME NEW q \in Docs, On(D, q), NEW o \in Objects
        PROVE  E[q].objs[o] = IF o \in Loose(D, q) THEN "gone"
                              ELSE IF o \in Kids(q) /\ On(D, o) THEN "done"
                              ELSE D[q].objs[o]
    <2> HIDE DEF E
    <2>1. E[q].objs = f(q)
      BY <1>4, <1>5
    <2> QED BY <2>1
  <1> HIDE DEF E, O, f
  <1>6. ASSUME NEW q \in Docs, On(D, q), NEW o \in Objects, Parent[o] = q,
               D[q].objs[o] = "going"
        PROVE  o \in Loose(D, q) \/ (o \in Kids(q) /\ On(D, o))
    <2>1. CASE o \in Docs /\ D[o].status = "READY"
      <3>1. o # Root /\ Held(D, o)
        BY <1>6, <2>1, NotRoot DEF Held
      <3> QED BY <1>6, <2>1, <3>1, OnFacts DEF Kids
    <2>2. CASE ~(o \in Docs /\ D[o].status = "READY")
      BY <1>6, <2>2 DEF Loose
    <2> QED BY <2>1, <2>2
  <1>7. ASSUME NEW q \in Docs, On(D, q) PROVE Good(q, E[q])
    <2>1. D[q].status = "READY" /\ Good(q, D[q])
      BY <1>1, <1>7, OnFacts
    <2>2. /\ D[q].stage = "laid" /\ ~D[q].locked /\ D[q].modified = {}
          /\ \A s \in Sheets : D[q].sheets[s] # "going"
          /\ D[q].styles => D[q].modified # {}
      BY <2>1 DEF Good, Fair, Staged, Live
    <2>3. ASSUME NEW o \in Boxed(q) PROVE E[q].objs[o] # "going"
      <3>1. o \in Objects /\ Parent[o] = q
        BY DEF Boxed
      <3> QED BY <1>5, <1>6, <1>7, <3>1
    <2>4. Waits(q, E[q]) = {}
      BY <1>4, <1>7, <2>2, <2>3 DEF Waits
    <2>5. Counts(q, E[q])
      BY <1>4, <1>7, <2>2, <2>4, FS_EmptySet DEF Counts
    <2>6. Staged(E[q])
      BY <1>4, <1>7, <2>2 DEF Staged, Live
    <2> QED BY <1>4, <1>7, <2>5, <2>6 DEF Good, Fair
  <1>8. ASSUME NEW k \in Docs \ {Root} PROVE Linked(E, k)
    <2> DEFINE p == Parent[k]
    <2>1. p \in Docs /\ k \in Objects /\ k \in Kids(p)
      BY OwnParent, KidsBoxed DEF Kids
    <2>2. Linked(D, k) /\ (On(D, k) <=> On(D, p) /\ D[k].status = "READY" /\ Held(D, k))
      BY OnFacts DEF Sound
    <2> HIDE DEF p
    <2>3. CASE On(D, k)
      <3>1. E[k].status = "DONE" /\ E[k].told = "DONE" /\ On(D, p)
        BY <1>4, <2>2, <2>3
      <3>2. k \notin Loose(D, p)
        BY <2>2, <2>3 DEF Loose
      <3>3. E[p].objs[k] = "done"
        BY <1>5, <2>1, <2>3, <3>1, <3>2
      <3> QED BY <3>1, <3>3 DEF Linked, p
    <2>4. CASE ~On(D, k) /\ ~On(D, p)
      <3>1. E[k] = D[k] /\ E[p] = D[p]
        BY <1>3, <2>1, <2>4
      <3> QED BY <2>2, <3>1 DEF Linked, p
    <2>5. CASE ~On(D, k) /\ On(D, p)
      <3>1. E[k] = D[k]
        BY <1>3, <2>5
      <3>2. E[p].objs[k] = IF k \in Loose(D, p) THEN "gone" ELSE D[p].objs[k]
        BY <1>5, <2>1, <2>5
      <3>3. k \notin Loose(D, p) => D[p].objs[k] # "going"
        BY <1>6, <2>1, <2>5 DEF p
      <3> QED BY <2>2, <3>1, <3>2, <3>3 DEF Linked, p
    <2> QED BY <2>3, <2>4, <2>5
  <1>9. Sound(E)
    BY <1>1, <1>2, <1>3, <1>7, <1>8 DEF Sound
  <1>10. O \in SUBSET Objects /\ \A k \in O \cap Docs : E[Parent[k]].objs[k] \notin {"going", "done"}
    <2>1. ASSUME NEW k \in O
          PROVE  \E q \in Docs : On(D, q) /\ k \in Loose(D, q) /\ k \in Objects /\ Parent[k] = q
      BY DEF O, Loose
    <2>2. ASSUME NEW k \in O PROVE E[Parent[k]].objs[k] = "gone"
      BY <1>5, <2>1
    <2> QED BY <2>1, <2>2
  <1>11. /\ SoundBut(Gone(E, O), {})
         /\ \A q \in Docs : Gone(E, O)[q] = IF Within[q] \cap O # {} THEN Absent ELSE E[q]
    <2>1. SoundBut(E, {}) /\ {} \in SUBSET Docs
      BY <1>9, NoExceptions
    <2> QED BY ONLY <1>10, <2>1, GoneKeeps
  <1>12. Within[Root] \cap O = {}
    <2>1. Root \notin O
      BY <1>10, NotRoot
    <2> QED BY <1>1, <2>1, WithinIs
  <1>13. Gone(E, O)[Root].status = "DONE"
    BY <1>1, <1>4, <1>11, <1>12, OnFacts
  <1> QED BY <1>2, <1>11, <1>13, NoExceptions

LEMMA StopKeeps ==
    ASSUME Sound(docs), Stop
    PROVE  Sound(docs') /\ (docs[Root].status = "READY" => docs'[Root].status = "DONE")
  <1>1. CASE docs[Root].status = "LOADING"
    <2> DEFINE b == docs[Root]
               r == [b EXCEPT !.aborted = TRUE]
    <2>1. /\ docs = [x \in Docs |-> docs[x]] /\ Root \in Docs
          /\ b \in Doc /\ Good(Root, b) /\ docs' = [docs EXCEPT ![Root].aborted = TRUE]
      BY <1>1, HtmlAssumption DEF Stop, Sound, Good, Fair
    <2>2. docs'[Root] = r /\ Differs(docs', docs, Root)
      BY <2>1 DEF Differs
    <2>3. /\ r \in Doc /\ Alike(r, b) /\ r.told = b.told /\ r.objs = b.objs
          /\ r.sheets = b.sheets /\ r.active = b.active
      BY <2>1 DEF Doc, Alike
    <2> HIDE DEF r
    <2>4. Good(Root, r)
      BY <1>1, <2>1, <2>3, SameGood
    <2>5. Sound(docs')
      BY <2>1, <2>2, <2>3, <2>4, TouchSound DEF Alike
    <2> QED BY <1>1, <2>5
  <1>2. CASE docs[Root].status # "LOADING"
    <2>1. docs[Root].status = "READY" /\ docs' = Stopped(docs, Root)
      BY <1>2 DEF Stop
    <2> QED BY <2>1, StoppedKeeps
  <1> QED BY <1>1, <1>2

LEMMA DestroyKeeps ==
    ASSUME Destroy
    PROVE  Sound(docs')
  <1>1. docs' = [d \in Docs |-> Absent]
    BY DEF Destroy
  <1>2. ASSUME NEW k \in Docs \ {Root} PROVE Linked(docs', k)
    <2>1. docs'[Parent[k]].objs[k] = "none"
      BY <1>1, AbsentGood, ParentIsDoc, KidsBoxed
    <2> QED BY <2>1 DEF Linked
  <1> QED BY <1>1, <1>2, AbsentGood DEF Sound

-----------------------------------------------------------------------------
(* The theorems *)

LEMMA StepKeeps == Shallow /\ IInv /\ [Next]_vars => IInv'
  <1> SUFFICES ASSUME Shallow, IInv, [Next]_vars PROVE IInv'
    OBVIOUS
  <1>0. Sound(docs) /\ timers \subseteq Refreshing
    BY DEF IInv
  <1>1. ASSUME NEW d \in Docs, ProcessData(d) PROVE IInv'
    BY <1>0, <1>1, ProcessDataKeeps DEF IInv, ProcessData
  <1>2. ASSUME NEW d \in Docs, FindRefresh(d) PROVE IInv'
    BY <1>0, <1>2 DEF IInv, FindRefresh
  <1>3. ASSUME NEW d \in Docs, SourceEnds(d) PROVE IInv'
    BY <1>0, <1>3, SourceErrorKeeps, ConvertKeeps DEF IInv, SourceEnds, SourceError, Convert
  <1>4. ASSUME NEW d \in Docs, ProcessModifiedStyles(d) PROVE IInv'
    BY <1>0, <1>4, ModifiedKeeps DEF IInv, ProcessModifiedStyles
  <1>5. ASSUME NEW d \in Docs, BoxesEnd(d) PROVE IInv'
    BY <1>0, <1>5, BoxesEndKeeps DEF IInv, BoxesEnd, BoxConvertDone
  <1>6. ASSUME NEW d \in Docs, SheetEnds(d) PROVE IInv'
    BY <1>0, <1>6, SheetEndsKeeps DEF IInv, SheetEnds, SheetDone, SheetError
  <1>7. ASSUME NEW d \in Docs, NEW o \in Objects, FetchObject(d, o) PROVE IInv'
    BY <1>0, <1>7, FetchObjectKeeps DEF IInv, FetchObject
  <1>8. CASE ImageEnds
    BY <1>0, <1>8, ImageEndsKeeps DEF IInv, ImageEnds, ImageDone, ImageError
  <1>9. ASSUME NEW o \in Docs \ {Root}, RefreshObject(o) PROVE IInv'
    <2>1. o \in Refreshing /\ timers' = timers \ {o}
      BY <1>0, <1>9 DEF RefreshObject
    <2>2. Parent[o] = Root /\ docs[Root].stage = "laid"
      BY <1>9, <2>1 DEF Shallow, RefreshObject
    <2> QED BY <1>0, <1>9, <2>1, <2>2, RefreshObjectKeeps DEF IInv
  <1>10. CASE Stop
    BY <1>0, <1>10, StopKeeps DEF IInv, Stop
  <1>11. CASE Leave
    BY <1>0, <1>11 DEF IInv, Leave
  <1>12. CASE Destroy
    BY <1>0, <1>12, DestroyKeeps DEF IInv, Destroy
  <1>13. CASE UNCHANGED vars
    BY <1>0, <1>13 DEF IInv, vars
  <1> QED BY <1>1, <1>2, <1>3, <1>4, <1>5, <1>6, <1>7, <1>8, <1>9, <1>10, <1>11, <1>12,
             <1>13 DEF Next

(* The inductive invariant: each record hangs together and counts what it  *)
(* waits for, it is DONE when that is nothing, and each page knows how far *)
(* the documents in it have come, through every step of html.c, css.c and  *)
(* object.c that has its effect up the tree.                               *)
THEOREM InductiveInvariant == Shallow /\ Spec => []IInv
  <1> SUFFICES ASSUME Shallow PROVE Spec => []IInv
    OBVIOUS
  <1>1. IInv /\ [Next]_vars => IInv'
    BY StepKeeps
  <1> QED BY <1>1, StartKeeps, PTL DEF Spec

(* The stages of a document agree with its status and its lock, through    *)
(* every failure, stop and refresh (content.c:87, html_box_convert_done,   *)
(* html_replace_object).                                                   *)
THEOREM StagesAgree == Shallow /\ Spec => []ReadyIsLaidOut
  <1>1. IInv => ReadyIsLaidOut
    BY DEF IInv, Sound, Good, Fair, Staged, ReadyIsLaidOut
  <1> QED BY <1>1, InductiveInvariant, PTL

(* base.active is the number of sheets and objects that a document waits   *)
(* for, and it is DONE exactly when it is laid out and that is nothing:    *)
(* no ++ or -- of html.c, css.c and object.c is one too many or missing.   *)
THEOREM ActiveIsRight == Shallow /\ Spec => []ActiveCounts
  <1>1. ASSUME IInv, NEW d \in Docs, docs[d].status \in {"LOADING", "READY", "DONE"}
        PROVE  /\ docs[d].active = Cardinality(WaitsFor(d))
                                   + (IF docs[d].stage = "source" THEN 1 ELSE 0)
               /\ docs[d].status = "DONE" <=> docs[d].stage = "laid" /\ docs[d].active = 0
    <2>1. Good(d, docs[d])
      BY <1>1 DEF IInv, Sound
    <2>2. WaitsFor(d) = Waits(d, docs[d])
      BY DEF WaitsFor, Waits, Going
    <2>3. Counts(d, docs[d])
      BY <1>1, <2>1 DEF Good, Fair, Live
    <2> QED BY <1>1, <2>1, <2>2, <2>3 DEF Good, Fair, Staged, Counts
  <1>2. IInv => ActiveCounts
    BY <1>1 DEF ActiveCounts
  <1> QED BY <1>2, InductiveInvariant, PTL

(* What a page counts as going is a document that will tell it: nothing    *)
(* that fails, is let go of, stopped or replaced stays counted             *)
(* (html_object_callback, html_object_abort_objects).                      *)
THEOREM NoneIsAwaitedInVain == Shallow /\ Spec => []AwaitedIsAlive
  <1>1. IInv => AwaitedIsAlive
    BY DEF IInv, Sound, Linked, AwaitedIsAlive, Kids
  <1> QED BY <1>1, InductiveInvariant, PTL

(* html_stop takes a page that is shown to DONE in the same step, whatever *)
(* is still loading however deep in it: the documents that are READY are   *)
(* stopped with it, and nothing is left to count.                          *)
THEOREM StopIsAtOnce == Shallow /\ Spec => StopsAtOnce
  <1>1. IInv /\ [Next]_vars =>
          [Stop /\ docs[Root].status = "READY" => docs'[Root].status = "DONE"]_vars
    BY StopKeeps DEF IInv
  <1> QED BY <1>1, InductiveInvariant, PTL DEF Spec, StopsAtOnce
=============================================================================
