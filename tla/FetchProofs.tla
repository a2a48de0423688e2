---------------------------- MODULE FetchProofs ----------------------------
(***************************************************************************)
(* Theorems about Fetch: the fetch in hand outlives its callbacks, every   *)
(* fetch is in the ring its flag says and in no other, an object holds the *)
(* fetch that works for it, and a fetch ends once.                         *)
(***************************************************************************)
EXTENDS Fetch, SequenceTheorems, NaturalsInduction, WellFoundedInduction, TLAPS

-----------------------------------------------------------------------------
(* Queues: sequences in which nothing is twice. *)
Elems(q) == {q[i] : i \in DOMAIN q}

Distinct(q) == \A i, j \in DOMAIN q : q[i] = q[j] => i = j

\* Without takes the one element out, wherever it is.
LEMMA WithoutFacts ==
    ASSUME NEW S, NEW q \in Seq(S), NEW f, Distinct(q)
    PROVE  /\ Without(q, f) \in Seq(S)
           /\ Distinct(Without(q, f))
           /\ Elems(Without(q, f)) = Elems(q) \ {f}
  <1>1. CASE \E i \in DOMAIN q : q[i] = f
    <2> DEFINE k == CHOOSE i \in DOMAIN q : q[i] = f
               a == SubSeq(q, 1, k - 1)
               b == SubSeq(q, k + 1, Len(q))
               w == a \o b
    <2>1. k \in 1..Len(q) /\ q[k] = f /\ Len(q) \in Nat
      BY <1>1
    <2>2. Without(q, f) = w
      BY <1>1 DEF Without
    <2> HIDE DEF k
    <2>3. /\ a \in Seq(S) /\ Len(a) = k - 1
          /\ \A j \in 1..(k - 1) : a[j] = q[j]
      BY <2>1
    <2>4. /\ b \in Seq(S) /\ Len(b) = Len(q) - k
          /\ \A j \in 1..(Len(q) - k) : b[j] = q[j + k]
      BY <2>1
    <2> HIDE DEF a, b
    <2>5. /\ w \in Seq(S) /\ Len(w) = Len(a) + Len(b)
          /\ \A i \in 1..(Len(a) + Len(b)) :
                w[i] = IF i <= Len(a) THEN a[i] ELSE b[i - Len(a)]
      BY <2>3, <2>4, ConcatProperties
    <2> HIDE DEF w
    <2>6. DOMAIN w = 1..(Len(q) - 1) /\ DOMAIN q = 1..Len(q)
      BY <2>1, <2>3, <2>4, <2>5
    <2>7. \A m \in DOMAIN w : w[m] = IF m < k THEN q[m] ELSE q[m + 1]
      <3> TAKE m \in DOMAIN w
      <3>1. w[m] = IF m <= k - 1 THEN a[m] ELSE b[m - (k - 1)]
        BY <2>3, <2>4, <2>5, <2>6, <2>1
      <3>2. CASE m < k
        BY <3>1, <3>2, <2>1, <2>3, <2>6
      <3>3. CASE ~(m < k)
        <4>1. m - (k - 1) \in 1..(Len(q) - k) /\ (m - (k - 1)) + k = m + 1
          BY <3>3, <2>1, <2>6
        <4>2. w[m] = b[m - (k - 1)]
          BY <3>1, <3>3, <2>1, <2>6
        <4> QED BY <4>1, <4>2, <2>4, <3>3
      <3> QED BY <3>2, <3>3
    <2>8. Distinct(w)
      BY <2>1, <2>6, <2>7 DEF Distinct
    <2>9. \A m \in DOMAIN w : \E n \in DOMAIN q : n # k /\ w[m] = q[n]
      <3> TAKE m \in DOMAIN w
      <3>1. CASE m < k
        BY <3>1, <2>1, <2>6, <2>7
      <3>2. CASE ~(m < k)
        <4>1. m + 1 \in DOMAIN q /\ m + 1 # k /\ w[m] = q[m + 1]
          BY <3>2, <2>1, <2>6, <2>7
        <4> QED BY <4>1
      <3> QED BY <3>1, <3>2
    <2>10. ASSUME NEW n \in DOMAIN q, n # k
           PROVE  \E m \in DOMAIN w : w[m] = q[n]
      <3>1. CASE n < k
        BY <3>1, <2>1, <2>6, <2>7
      <3>2. CASE n > k
        <4>1. n - 1 \in DOMAIN w /\ w[n - 1] = q[(n - 1) + 1] /\ (n - 1) + 1 = n
          BY <3>2, <2>1, <2>6, <2>7
        <4> QED BY <4>1
      <3> QED BY <3>1, <3>2, <2>1, <2>6, <2>10
    <2>11. ASSUME NEW x PROVE x \in Elems(w) <=> x \in Elems(q) \ {f}
      <3>1. k \in DOMAIN q
        BY <2>1, <2>6
      <3> QED BY <3>1, <2>1, <2>9, <2>10 DEF Elems, Distinct
    <2>12. Elems(w) = Elems(q) \ {f}
      BY <2>11
    <2> QED BY <2>2, <2>5, <2>8, <2>12
  <1>2. CASE ~\E i \in DOMAIN q : q[i] = f
    BY <1>2 DEF Without, Elems
  <1> QED BY <1>1, <1>2

LEMMA AppendFacts ==
    ASSUME NEW S, NEW q \in Seq(S), NEW f \in S, Distinct(q), f \notin Elems(q)
    PROVE  /\ Append(q, f) \in Seq(S)
           /\ Distinct(Append(q, f))
           /\ Elems(Append(q, f)) = Elems(q) \cup {f}
  <1> DEFINE w == Append(q, f)
  <1>1. /\ w \in Seq(S) /\ Len(w) = Len(q) + 1
        /\ \A i \in 1..Len(q) : w[i] = q[i]
        /\ w[Len(q) + 1] = f
    BY AppendProperties
  <1> HIDE DEF w
  <1>2. /\ Len(q) \in Nat /\ DOMAIN q = 1..Len(q)
        /\ DOMAIN w = 1..(Len(q) + 1)
    BY <1>1
  <1>3. Distinct(w)
    BY <1>1, <1>2 DEF Distinct, Elems
  <1>4. ASSUME NEW x PROVE x \in Elems(w) <=> x \in Elems(q) \cup {f}
    <2>1. Len(q) + 1 \in DOMAIN w /\ \A i \in DOMAIN q : i \in DOMAIN w
      BY <1>2
    <2>2. \A i \in DOMAIN w : i \in DOMAIN q \/ i = Len(q) + 1
      BY <1>2
    <2> QED BY <1>1, <1>2, <2>1, <2>2 DEF Elems
  <1>5. Elems(w) = Elems(q) \cup {f}
    BY <1>4
  <1> QED BY <1>1, <1>3, <1>5 DEF w

\* A set of numbers has a least one.
LEMMA Least ==
    ASSUME NEW T \in SUBSET Nat, T # {}
    PROVE  \E s \in T : \A t \in T : s <= t
  <1> DEFINE less == {p \in Nat \X Nat : p[1] < p[2]}
  <1>1. IsWellFoundedOn(less, Nat)
    BY NatLessThanWellFounded, Zenon DEF OpToRel
  <1>2. PICK s \in T : \A t \in T : <<t, s>> \notin less
    BY <1>1, WFMin
  <1>3. ASSUME NEW t \in T PROVE s <= t
    <2>1. s \in Nat /\ t \in Nat
      BY <1>2
    <2>2. t < s => <<t, s>> \in less
      BY <2>1
    <2> QED BY <2>1, <2>2, <1>2
  <1> QED BY <1>3

-----------------------------------------------------------------------------
(* fetch_dispatch_jobs.  A queue and a ring that share nothing. *)
Pairs == [queue : Seq(Fetches), ring : SUBSET Fetches]

Apart(s) == /\ s \in Pairs
            /\ Distinct(s.queue)
            /\ Elems(s.queue) \cap s.ring = {}

Of(s) == Elems(s.queue) \cup s.ring

\* What t may be if it comes from s.
Follows(s, t) == Apart(t) /\ Of(t) = Of(s) /\ s.ring \subseteq t.ring

LEMMA ChosenIsQueued ==
    ASSUME NEW s, Apart(s), MayDispatch(s)
    PROVE  Chosen(s) \in Elems(s.queue) /\ Chosen(s) \in Fetches
  <1>1. Candidates(s) # {} /\ Candidates(s) \subseteq DOMAIN s.queue
    BY DEF MayDispatch, Candidates
  <1>2. s.queue \in Seq(Fetches) /\ DOMAIN s.queue \subseteq Nat
    BY DEF Apart, Pairs
  <1>3. Candidates(s) \in SUBSET Nat
    BY <1>1, <1>2
  <1> DEFINE i == CHOOSE i \in Candidates(s) : \A j \in Candidates(s) : i <= j
  <1>4. i \in Candidates(s)
    BY <1>1, <1>3, Least
  <1>5. Chosen(s) = s.queue[i]
    BY DEF Chosen
  <1> HIDE DEF i
  <1> QED BY <1>1, <1>2, <1>4, <1>5 DEF Elems

LEMMA DispatchedFollows ==
    ASSUME NEW s, Apart(s), MayDispatch(s)
    PROVE  Follows(s, Dispatched(s))
  <1>1. Chosen(s) \in Elems(s.queue) /\ Chosen(s) \in Fetches
    BY ChosenIsQueued
  <1>2. /\ s.queue \in Seq(Fetches) /\ s.ring \subseteq Fetches
        /\ Distinct(s.queue) /\ Elems(s.queue) \cap s.ring = {}
    BY DEF Apart, Pairs
  <1> DEFINE q == Without(s.queue, Chosen(s))
  <1>3. /\ q \in Seq(Fetches) /\ Distinct(q)
        /\ Elems(q) = Elems(s.queue) \ {Chosen(s)}
    BY <1>2, WithoutFacts
  <1>4. /\ Dispatched(s).queue = q
        /\ Dispatched(s).ring = s.ring \cup {Chosen(s)}
        /\ Dispatched(s) = [queue |-> q, ring |-> s.ring \cup {Chosen(s)}]
    BY DEF Dispatched
  <1> HIDE DEF q
  <1>5. Dispatched(s) \in Pairs
    BY <1>1, <1>2, <1>3, <1>4 DEF Pairs
  <1> QED BY <1>1, <1>2, <1>3, <1>4, <1>5 DEF Follows, Apart, Of

LEMMA PutBackFollows ==
    ASSUME NEW s, Apart(s), MayDispatch(s)
    PROVE  Follows(s, PutBack(s))
  <1>1. Chosen(s) \in Elems(s.queue) /\ Chosen(s) \in Fetches
    BY ChosenIsQueued
  <1>2. /\ s.queue \in Seq(Fetches) /\ s.ring \subseteq Fetches
        /\ Distinct(s.queue) /\ Elems(s.queue) \cap s.ring = {}
    BY DEF Apart, Pairs
  <1> DEFINE q == Without(s.queue, Chosen(s))
             w == Append(q, Chosen(s))
  <1>3. /\ q \in Seq(Fetches) /\ Distinct(q)
        /\ Elems(q) = Elems(s.queue) \ {Chosen(s)}
    BY <1>2, WithoutFacts
  <1>4. /\ w \in Seq(Fetches) /\ Distinct(w)
        /\ Elems(w) = Elems(q) \cup {Chosen(s)}
    <2> HIDE DEF q
    <2> QED BY <1>1, <1>3, AppendFacts
  <1>5. /\ PutBack(s).queue = w
        /\ PutBack(s).ring = s.ring
        /\ PutBack(s) = [queue |-> w, ring |-> s.ring]
    <2>1. PutBack(s) = [s EXCEPT !.queue = w]
      BY DEF PutBack
    <2>2. s \in Pairs
      BY DEF Apart
    <2> HIDE DEF w, q
    <2> QED BY <2>1, <2>2 DEF Pairs
  <1> HIDE DEF w, q
  <1>6. PutBack(s) \in Pairs
    BY <1>2, <1>4, <1>5 DEF Pairs
  <1>7. Elems(w) = Elems(s.queue)
    BY <1>1, <1>3, <1>4
  <1> QED BY <1>2, <1>4, <1>5, <1>6, <1>7 DEF Follows, Apart, Of

\* One turn of the loop.
Turn(t) == IF MayDispatch(t) THEN Dispatched(t) ELSE t

LEMMA TurnFollows ==
    ASSUME NEW s, NEW t, Follows(s, t)
    PROVE  Follows(s, Turn(t))
  <1>1. CASE MayDispatch(t)
    BY <1>1, DispatchedFollows DEF Follows, Turn
  <1>2. CASE ~MayDispatch(t)
    BY <1>2 DEF Turn
  <1> QED BY <1>1, <1>2

\* The definition of the turns by recursion has a solution.
LEMMA Turns ==
    ASSUME NEW s, Len(s.queue) \in Nat
    PROVE  LET after == DispatchedUpTo(s) IN
           after = [n \in 0..Len(s.queue) |->
                       IF n = 0 THEN s ELSE Turn(after[n - 1])]
  <1> DEFINE L == Len(s.queue)
             Solves(g, n) == g = [m \in 0..n |-> IF m = 0 THEN s
                                                 ELSE Turn(g[m - 1])]
             Stuck == {n \in 0..L : ~\E g : Solves(g, n)}
  <1>1. DispatchedUpTo(s) = CHOOSE g : Solves(g, L)
    BY DEF DispatchedUpTo, Turn
  <1>2. Stuck = {}
    <2> SUFFICES ASSUME Stuck # {} PROVE FALSE
      OBVIOUS
    <2>1. Stuck \in SUBSET Nat
      OBVIOUS
    <2>2. PICK b \in Stuck : \A n \in Stuck : b <= n
      BY <2>1, Least
    <2>3. CASE b = 0
      <3> DEFINE g == [m \in 0..0 |-> s]
      <3>1. Solves(g, 0)
        OBVIOUS
      <3> QED BY <3>1, <2>2, <2>3
    <2>4. CASE b # 0
      <3>1. b \in Nat /\ b - 1 \in 0..L /\ b - 1 \notin Stuck
        <4> HIDE DEF Solves
        <4>1. b \in 0..L
          BY <2>2
        <4> HIDE DEF Stuck
        <4> QED BY <4>1, <2>1, <2>2, <2>4
      <3>2. PICK g : Solves(g, b - 1)
        BY <3>1
      <3> DEFINE h == [m \in 0..b |-> IF m = b THEN Turn(g[b - 1]) ELSE g[m]]
      <3>3. \A m \in 0..b : h[m] = IF m = 0 THEN s ELSE Turn(h[m - 1])
        <4> TAKE m \in 0..b
        <4>1. CASE m = b
          BY <4>1, <3>1, <2>4
        <4>2. CASE m # b
          <5>1. m \in 0..(b - 1) /\ h[m] = g[m]
            BY <4>2, <3>1
          <5>2. m # 0 => h[m - 1] = g[m - 1]
            BY <4>2, <3>1
          <5>3. g[m] = IF m = 0 THEN s ELSE Turn(g[m - 1])
            BY <5>1, <3>2
          <5> QED BY <5>1, <5>2, <5>3
        <4> QED BY <4>1, <4>2
      <3>4. h = [m \in 0..b |-> h[m]]
        OBVIOUS
      <3> HIDE DEF h
      <3>5. Solves(h, b)
        BY <3>3, <3>4
      <3> QED BY <3>5, <2>2
    <2> QED BY <2>3, <2>4
  <1>3. \E g : Solves(g, L)
    BY <1>2
  <1>4. Solves(CHOOSE g : Solves(g, L), L)
    BY <1>3
  <1> QED BY <1>1, <1>4

LEMMA TurnsFollow ==
    ASSUME NEW s, Apart(s), NEW n \in 0..Len(s.queue)
    PROVE  /\ Follows(s, DispatchedUpTo(s)[n])
           /\ DOMAIN DispatchedUpTo(s) = 0..Len(s.queue)
  <1> DEFINE after == DispatchedUpTo(s)
             Bad == {m \in 0..Len(s.queue) : ~Follows(s, after[m])}
  <1>1. Len(s.queue) \in Nat
    BY DEF Apart, Pairs
  <1>2. after = [m \in 0..Len(s.queue) |->
                    IF m = 0 THEN s ELSE Turn(after[m - 1])]
    BY <1>1, Turns
  <1> HIDE DEF after
  <1>3. Bad = {}
    <2> SUFFICES ASSUME Bad # {} PROVE FALSE
      OBVIOUS
    <2>1. Bad \in SUBSET Nat
      BY <1>1
    <2>2. PICK b \in Bad : \A m \in Bad : b <= m
      BY <2>1, Least
    <2>3. CASE b = 0
      <3>1. after[0] = s
        BY <1>1, <1>2
      <3> QED BY <3>1, <2>2, <2>3 DEF Follows
    <2>4. CASE b # 0
      <3>1. b - 1 \in 0..Len(s.queue) /\ b - 1 \notin Bad
        BY <2>2, <2>4, <1>1
      <3>2. after[b] = Turn(after[b - 1])
        BY <1>2, <2>2, <2>4
      <3> QED BY <3>1, <3>2, <2>2, TurnFollows
    <2> QED BY <2>3, <2>4
  <1> QED BY <1>2, <1>3 DEF after

\* A dispatch starts fetches, and loses and doubles none.
LEMMA DispatchKeeps ==
    ASSUME NEW s, Apart(s), Dispatch(s)
    PROVE  /\ queue_ring' \in Seq(Fetches) /\ fetch_ring' \subseteq Fetches
           /\ Distinct(queue_ring') /\ Elems(queue_ring') \cap fetch_ring' = {}
           /\ Elems(queue_ring') \cup fetch_ring' = Of(s)
           /\ s.ring \subseteq fetch_ring'
           /\ badHandle \in BOOLEAN => badHandle' \in BOOLEAN
  <1> DEFINE after == DispatchedUpTo(s)
             failed == {PutBack(after[n]) :
                          n \in {m \in DOMAIN after : MayDispatch(after[m])}}
  <1>1. Len(s.queue) \in Nat
    BY DEF Apart, Pairs
  <1>2. Follows(s, Refused(s))
    BY PutBackFollows DEF Refused, Follows
  <1>3. Follows(s, after[Len(s.queue)])
    BY <1>1, TurnsFollow
  <1>4. ASSUME NEW t \in failed PROVE Follows(s, t)
    <2>1. PICK n \in DOMAIN after : MayDispatch(after[n]) /\ t = PutBack(after[n])
      BY <1>4
    <2>2. 0 \in 0..Len(s.queue)
      BY <1>1
    <2>3. DOMAIN after = 0..Len(s.queue)
      BY <2>2, TurnsFollow
    <2>4. Follows(s, after[n])
      BY <2>1, <2>3, TurnsFollow
    <2> HIDE DEF after
    <2> QED BY <2>1, <2>4, PutBackFollows DEF Follows
  <1>5. PICK t : Follows(s, t) /\ queue_ring' = t.queue /\ fetch_ring' = t.ring
    <2>1. \E t \in IF inside_curl THEN {Refused(s)}
                   ELSE {after[Len(s.queue)]}
                        \cup (IF StartMayFail THEN failed ELSE {}) :
               queue_ring' = t.queue /\ fetch_ring' = t.ring
      BY DEF Dispatch
    <2> HIDE DEF after, failed
    <2> QED BY <2>1, <1>2, <1>3, <1>4
  <1>6. badHandle' \in BOOLEAN
    BY DEF Dispatch
  <1> QED BY <1>5, <1>6 DEF Follows, Apart, Pairs, Of

-----------------------------------------------------------------------------
(* The rings, the contexts and the cache's pointers, with the fetches of T *)
(* taken out of the rings and those of C on their way to the end.          *)
IsLive(r) == r.life = "live"

\* Every fetch that is set up is in one ring, and its flags say in which.
Placed(T) ==
    \A f \in Fetches :
        /\ f \in Elems(queue_ring) \cup fetch_ring <=> IsLive(ctx[f]) /\ f \notin T
        /\ IsLive(ctx[f]) /\ f \notin T =>
              /\ ctx[f].fetch_is_active <=> f \in fetch_ring
              /\ ctx[f].handle <=> f \in fetch_ring

\* A transfer is aborted or stopped only when nobody waits for it, and one
\* that nobody waits for is stopped before it has a result of its own.
Fated(T, C) ==
    \A f \in Fetches : IsLive(ctx[f]) =>
        /\ ctx[f].owner \in Objects
        /\ ctx[f].abort \/ ctx[f].stopped => ctx[f].ended
        /\ ctx[f].result = "write" => ctx[f].stopped
        /\ ctx[f].result # "none" => f \in T \/ ctx[f].handle
        /\ f \notin C => /\ ctx[f].ended => ctx[f].abort \/ ctx[f].stopped
                         /\ ctx[f].stopped => ctx[f].result \in {"none", "write"}

\* An object holds a fetch that goes on, and its own.
Holding ==
    \A o \in Objects : held[o] # Null =>
        IsLive(ctx[held[o]]) /\ ~ctx[held[o]].ended /\ ctx[held[o]].owner = o

\* Until a message comes late, every fetch that goes on is held.
Watched ==
    ~late => \A f \in Fetches :
        IsLive(ctx[f]) /\ ~ctx[f].ended => held[ctx[f].owner] = f

Typed == /\ queue_ring \in Seq(Fetches) /\ fetch_ring \subseteq Fetches
         /\ ctx \in [Fetches -> Contexts]
         /\ held \in [Objects -> Fetches \cup {Null}]
         /\ late \in BOOLEAN

Rings == Distinct(queue_ring) /\ Elems(queue_ring) \cap fetch_ring = {}

Core(T, C) == /\ Typed /\ Rings /\ Placed(T) /\ Fated(T, C)
              /\ Holding /\ Watched

LEMMA NullIsNoFetch == \A f \in Fetches : f # Null
  BY FetchAssumption DEF Fetches

LEMMA MoreClosing ==
    ASSUME NEW T, NEW C, NEW D, Core(T, C), C \subseteq D
    PROVE  Core(T, D)
  <1>1. Fated(T, D)
    BY DEF Core, Fated
  <1> QED BY <1>1 DEF Core

\* What the context c of a fetch agrees on with the context d.
Like(c, d) ==
    /\ c.life = d.life /\ c.owner = d.owner
    /\ c.fetch_is_active = d.fetch_is_active /\ c.handle = d.handle
    /\ c.abort = d.abort /\ c.stopped = d.stopped /\ c.result = d.result

LEMMA RemoveFacts ==
    ASSUME NEW T, NEW g \in Fetches \ T, Typed, Rings, Placed(T), IsLive(ctx[g]),
           RemoveFromQueues(g)
    PROVE  /\ queue_ring' \in Seq(Fetches) /\ fetch_ring' \subseteq Fetches
           /\ Rings'
           /\ fetch_ring' = fetch_ring \ {g}
           /\ Elems(queue_ring') = Elems(queue_ring) \ {g}
  <1>1. /\ queue_ring \in Seq(Fetches) /\ fetch_ring \subseteq Fetches
        /\ Distinct(queue_ring) /\ Elems(queue_ring) \cap fetch_ring = {}
    BY DEF Typed, Rings
  <1>2. ctx[g].fetch_is_active <=> g \in fetch_ring
    BY DEF Placed
  <1>3. CASE ctx[g].fetch_is_active
    <2>1. fetch_ring' = fetch_ring \ {g} /\ queue_ring' = queue_ring
      BY <1>3 DEF RemoveFromQueues
    <2>2. g \notin Elems(queue_ring)
      BY <1>1, <1>2, <1>3
    <2> QED BY <1>1, <2>1, <2>2 DEF Rings
  <1>4. CASE ~ctx[g].fetch_is_active
    <2>1. fetch_ring' = fetch_ring /\ queue_ring' = Without(queue_ring, g)
      BY <1>4 DEF RemoveFromQueues
    <2>2. /\ Without(queue_ring, g) \in Seq(Fetches)
          /\ Distinct(Without(queue_ring, g))
          /\ Elems(Without(queue_ring, g)) = Elems(queue_ring) \ {g}
      BY <1>1, WithoutFacts
    <2> QED BY <1>1, <1>2, <1>4, <2>1, <2>2 DEF Rings
  <1> QED BY <1>3, <1>4

\* An abort marks the fetch or frees it.
LEMMA AbortFacts ==
    ASSUME NEW T, NEW g \in Fetches \ T, NEW c \in [Fetches -> Contexts],
           Typed, Rings, Placed(T), IsLive(ctx[g]), AbortFetch(g, c)
    PROVE  /\ queue_ring' \in Seq(Fetches) /\ fetch_ring' \subseteq Fetches
           /\ Rings'
           /\ ctx' \in [Fetches -> Contexts]
           /\ \A h \in Fetches \ {g} : ctx'[h] = c[h]
           /\ Deferred(g) =>
                /\ queue_ring' = queue_ring /\ fetch_ring' = fetch_ring
                /\ ctx'[g].life = c[g].life /\ ctx'[g].owner = c[g].owner
                /\ ctx'[g].fetch_is_active = c[g].fetch_is_active
                /\ ctx'[g].handle = c[g].handle
                /\ ctx'[g].stopped = c[g].stopped /\ ctx'[g].result = c[g].result
                /\ ctx'[g].ended /\ ctx'[g].abort
           /\ ~Deferred(g) =>
                /\ fetch_ring' = fetch_ring \ {g}
                /\ Elems(queue_ring') = Elems(queue_ring) \ {g}
                /\ ctx'[g].life = "freed"
  <1>1. c[g] \in Contexts
    OBVIOUS
  <1>2. Freed \in Contexts /\ Freed.life = "freed"
    BY DEF Freed, Unborn, Contexts
  <1>3. CASE Deferred(g)
    <2> DEFINE r == [c[g] EXCEPT !.ended = TRUE, !.abort = TRUE]
    <2>1. /\ queue_ring' = queue_ring /\ fetch_ring' = fetch_ring
          /\ ctx' = [c EXCEPT ![g] = r]
      BY <1>3 DEF AbortFetch
    <2>2. /\ r \in Contexts
          /\ r.life = c[g].life /\ r.owner = c[g].owner
          /\ r.fetch_is_active = c[g].fetch_is_active
          /\ r.handle = c[g].handle
          /\ r.stopped = c[g].stopped /\ r.result = c[g].result
          /\ r.ended /\ r.abort
      BY <1>1 DEF Contexts
    <2> HIDE DEF r
    <2> QED BY <1>3, <2>1, <2>2 DEF Typed, Rings
  <1>4. CASE ~Deferred(g)
    <2>1. RemoveFromQueues(g) /\ ctx' = [c EXCEPT ![g] = Freed]
      BY <1>4 DEF AbortFetch
    <2> QED BY <1>2, <1>4, <2>1, RemoveFacts
  <1> QED BY <1>3, <1>4

\* c says of every fetch what ctx says, and that those of D have ended.
Tells(c, D) ==
    /\ c \in [Fetches -> Contexts]
    /\ \A h \in Fetches : /\ Like(c[h], ctx[h])
                          /\ c[h].ended <=> ctx[h].ended \/ h \in D

\* The end of the fetches of D is told to their owner o, who lets go of it.
LEMMA EndKeeps ==
    ASSUME NEW T, NEW C, NEW D \in SUBSET C, Core(T, C), NEW o \in Objects,
           NEW c, Tells(c, D),
           \A h \in D : h \in Fetches /\ ctx[h].owner = o,
           ctx' = c, LetGo(o), UNCHANGED <<queue_ring, fetch_ring>>,
           late' \in BOOLEAN, ~late' => ~late,
           ~late' => held[o] \in D
    PROVE  Core(T, C)'
  <1>1. /\ Typed /\ Rings /\ Placed(T) /\ Fated(T, C) /\ Holding /\ Watched
        /\ \A h \in Fetches : Like(ctx'[h], ctx[h])
        /\ \A h \in Fetches : ctx'[h].ended <=> ctx[h].ended \/ h \in D
        /\ ctx' \in [Fetches -> Contexts]
    BY DEF Core, Tells
  <1>2. /\ held' \in [Objects -> Fetches \cup {Null}]
        /\ held'[o] = Null
        /\ \A p \in Objects \ {o} : held'[p] = held[p]
    BY <1>1 DEF LetGo, Typed
  <1>3. Typed' /\ Rings' /\ Placed(T)'
    BY <1>1, <1>2 DEF Typed, Rings, Placed, Like, IsLive
  <1>4. Fated(T, C)'
    BY <1>1 DEF Fated, Like, IsLive
  <1>5. Holding'
    <2> SUFFICES ASSUME NEW p \in Objects, held'[p] # Null
                 PROVE  /\ IsLive(ctx'[held'[p]])
                        /\ ~ctx'[held'[p]].ended /\ ctx'[held'[p]].owner = p
      BY DEF Holding
    <2>1. p # o /\ held'[p] = held[p] /\ held[p] \in Fetches
      BY <1>1, <1>2 DEF Typed
    <2>2. IsLive(ctx[held[p]]) /\ ~ctx[held[p]].ended /\ ctx[held[p]].owner = p
      BY <1>1, <2>1 DEF Holding
    <2> QED BY <1>1, <2>1, <2>2 DEF Like, IsLive
  <1>6. Watched'
    <2> SUFFICES ASSUME ~late', NEW h \in Fetches, IsLive(ctx'[h]), ~ctx'[h].ended
                 PROVE  held'[ctx'[h].owner] = h
      BY DEF Watched
    <2>1. IsLive(ctx[h]) /\ ~ctx[h].ended /\ h \notin D /\ ctx'[h].owner = ctx[h].owner
      BY <1>1 DEF Like, IsLive
    <2>2. held[ctx[h].owner] = h /\ ctx[h].owner \in Objects
      BY <1>1, <2>1 DEF Watched, Fated
    <2>3. ctx[h].owner # o
      BY <2>1, <2>2
    <2> QED BY <1>2, <2>1, <2>2, <2>3
  <1> QED BY <1>3, <1>4, <1>5, <1>6 DEF Core

\* A message that ends nothing.
LEMMA MoreKeeps ==
    ASSUME NEW T, NEW C, Core(T, C), NEW c, Tells(c, {}),
           ctx' = c, UNCHANGED <<held, queue_ring, fetch_ring>>,
           late' \in BOOLEAN, ~late' => ~late
    PROVE  Core(T, C)'
  <1>1. /\ Typed /\ Rings /\ Placed(T) /\ Fated(T, C) /\ Holding /\ Watched
        /\ \A h \in Fetches : Like(ctx'[h], ctx[h])
        /\ \A h \in Fetches : ctx'[h].ended <=> ctx[h].ended
        /\ ctx' \in [Fetches -> Contexts]
    BY DEF Core, Tells
  <1>2. Typed' /\ Rings' /\ Placed(T)'
    BY <1>1 DEF Typed, Rings, Placed, Like, IsLive
  <1>3. Fated(T, C)'
    BY <1>1 DEF Fated, Like, IsLive
  <1>4. \A p \in Objects : held[p] # Null => held[p] \in Fetches
    BY <1>1 DEF Typed
  <1>5. Holding' /\ Watched'
    BY <1>1, <1>4 DEF Holding, Watched, Like, IsLive
  <1> QED BY <1>2, <1>3, <1>5 DEF Core

\* o aborts the fetch it holds, when the end of those of D has been told.
LEMMA AbortKeeps ==
    ASSUME NEW T, NEW C, NEW D \in SUBSET C, Core(T, C), NEW o \in Objects,
           NEW g \in Fetches \ T, held[o] = g,
           NEW c, Tells(c, D),
           \A h \in D : h \in Fetches /\ ctx[h].owner = o,
           AbortFetch(g, c), LetGo(o),
           late' \in BOOLEAN, ~late' => ~late
    PROVE  Core(T, C)'
  <1>1. /\ Typed /\ Rings /\ Placed(T) /\ Fated(T, C) /\ Holding /\ Watched
        /\ \A h \in Fetches : Like(c[h], ctx[h])
        /\ \A h \in Fetches : c[h].ended <=> ctx[h].ended \/ h \in D
        /\ c \in [Fetches -> Contexts]
    BY DEF Core, Tells
  <1>2. IsLive(ctx[g]) /\ ctx[g].owner = o
    BY <1>1, NullIsNoFetch DEF Holding
  <1>3. /\ queue_ring' \in Seq(Fetches) /\ fetch_ring' \subseteq Fetches
        /\ Rings'
        /\ ctx' \in [Fetches -> Contexts]
        /\ \A h \in Fetches \ {g} : ctx'[h] = c[h]
        /\ Deferred(g) =>
             /\ queue_ring' = queue_ring /\ fetch_ring' = fetch_ring
             /\ ctx'[g].life = c[g].life /\ ctx'[g].owner = c[g].owner
             /\ ctx'[g].fetch_is_active = c[g].fetch_is_active
             /\ ctx'[g].handle = c[g].handle
             /\ ctx'[g].stopped = c[g].stopped /\ ctx'[g].result = c[g].result
             /\ ctx'[g].ended /\ ctx'[g].abort
        /\ ~Deferred(g) =>
             /\ fetch_ring' = fetch_ring \ {g}
             /\ Elems(queue_ring') = Elems(queue_ring) \ {g}
             /\ ctx'[g].life = "freed"
    BY <1>1, <1>2, AbortFacts
  <1>4. /\ held' \in [Objects -> Fetches \cup {Null}]
        /\ held'[o] = Null
        /\ \A p \in Objects \ {o} : held'[p] = held[p]
    BY <1>1 DEF LetGo, Typed
  <1>5. Typed'
    BY <1>3, <1>4 DEF Typed
  <1>6. \A h \in Fetches \ {g} : Like(ctx'[h], ctx[h]) /\ (ctx'[h].ended <=> ctx[h].ended \/ h \in D)
    BY <1>1, <1>3
  <1>7. ~(IsLive(ctx'[g]) /\ ~ctx'[g].ended)
    BY <1>3 DEF IsLive
  <1>8. ASSUME Deferred(g) PROVE Placed(T)' /\ Fated(T, C)'
    <2>1. Placed(T)'
      BY <1>1, <1>3, <1>6, <1>8 DEF Placed, Like, IsLive
    <2>2. Fated(T, C)'
      BY <1>1, <1>3, <1>6, <1>8 DEF Fated, Like, IsLive
    <2> QED BY <2>1, <2>2
  <1>9. ASSUME ~Deferred(g) PROVE Placed(T)' /\ Fated(T, C)'
    <2>1. ~IsLive(ctx'[g])
      BY <1>3, <1>9 DEF IsLive
    <2>2. Placed(T)'
      BY <1>1, <1>3, <1>6, <1>9, <2>1 DEF Placed, Like, IsLive
    <2>3. Fated(T, C)'
      BY <1>1, <1>6, <2>1 DEF Fated, Like, IsLive
    <2> QED BY <2>2, <2>3
  <1>10. Holding'
    <2> SUFFICES ASSUME NEW p \in Objects, held'[p] # Null
                 PROVE  /\ IsLive(ctx'[held'[p]])
                        /\ ~ctx'[held'[p]].ended /\ ctx'[held'[p]].owner = p
      BY DEF Holding
    <2>1. p # o /\ held'[p] = held[p] /\ held[p] \in Fetches
      BY <1>1, <1>4 DEF Typed
    <2>2. IsLive(ctx[held[p]]) /\ ~ctx[held[p]].ended /\ ctx[held[p]].owner = p
      BY <1>1, <2>1 DEF Holding
    <2>3. held[p] # g
      BY <1>2, <2>1, <2>2
    <2>4. held[p] \notin D
      BY <2>1, <2>2
    <2> QED BY <1>6, <2>1, <2>2, <2>3, <2>4 DEF Like, IsLive
  <1>11. Watched'
    <2> SUFFICES ASSUME ~late', NEW h \in Fetches, IsLive(ctx'[h]), ~ctx'[h].ended
                 PROVE  held'[ctx'[h].owner] = h
      BY DEF Watched
    <2>1. h # g
      BY <1>7
    <2>2. IsLive(ctx[h]) /\ ~ctx[h].ended /\ ctx'[h].owner = ctx[h].owner
      BY <1>6, <2>1 DEF Like, IsLive
    <2>3. held[ctx[h].owner] = h /\ ctx[h].owner \in Objects
      BY <1>1, <2>2 DEF Watched, Fated
    <2> QED BY <1>4, <2>1, <2>2, <2>3
  <1>12. Placed(T)' /\ Fated(T, C)'
    BY <1>8, <1>9
  <1> QED BY <1>3, <1>5, <1>10, <1>11, <1>12 DEF Core

\* A message to the owner of f, who may abort what it holds.
LEMMA SendKeeps ==
    ASSUME NEW T, NEW C, Core(T, C), NEW f \in Fetches, IsLive(ctx[f]),
           NEW c, Tells(c, {}), NEW kind, SendCallback(f, kind, c),
           kind # "more" => f \in C,
           kind = "moved" => T = {} /\ Deferred(f)
    PROVE  /\ Core(T, C)'
           /\ IsLive(ctx'[f])
           /\ ctx'[f].handle = ctx[f].handle /\ ctx'[f].stopped = ctx[f].stopped
           /\ ctx'[f].result = ctx[f].result
           /\ kind # "more" => ctx'[f].ended
  <1> DEFINE o == ctx[f].owner
             told == [c EXCEPT ![f].ended = (@ \/ kind # "more")]
             D == IF kind = "more" THEN {} ELSE {f}
  <1>1. /\ Typed /\ Rings /\ Placed(T) /\ Fated(T, C) /\ Holding /\ Watched
        /\ c \in [Fetches -> Contexts]
        /\ \A h \in Fetches : Like(c[h], ctx[h]) /\ (c[h].ended <=> ctx[h].ended)
    BY DEF Core, Tells
  <1>2. o \in Objects
    BY <1>1 DEF Fated
  <1>3. late' = (late \/ ctx[f].ended) /\ late' \in BOOLEAN /\ (~late' => ~late)
    BY <1>1 DEF SendCallback, Typed
  <1>4. /\ Tells(told, D)
        /\ Like(told[f], ctx[f])
        /\ kind # "more" => told[f].ended
    <2> DEFINE r == [c[f] EXCEPT !.ended = (@ \/ kind # "more")]
    <2>1. c[f] \in Contexts
      BY <1>1
    <2>2. /\ r \in Contexts
          /\ r.life = c[f].life /\ r.owner = c[f].owner
          /\ r.fetch_is_active = c[f].fetch_is_active
          /\ r.handle = c[f].handle /\ r.abort = c[f].abort
          /\ r.stopped = c[f].stopped /\ r.result = c[f].result
          /\ r.ended <=> c[f].ended \/ kind # "more"
      BY <2>1 DEF Contexts
    <2>3. told = [c EXCEPT ![f] = r]
      OBVIOUS
    <2> HIDE DEF r, told
    <2>4. /\ told \in [Fetches -> Contexts] /\ told[f] = r
          /\ \A h \in Fetches \ {f} : told[h] = c[h]
      BY <1>1, <2>2, <2>3
    <2>5. Like(told[f], ctx[f])
      BY <1>1, <2>2, <2>4 DEF Like
    <2>6. \A h \in Fetches : /\ Like(told[h], ctx[h])
                             /\ told[h].ended <=> ctx[h].ended \/ h \in D
      BY <1>1, <2>2, <2>4, <2>5
    <2>7. kind # "more" => told[f].ended
      BY <2>2, <2>4
    <2> HIDE DEF D
    <2> QED BY <2>4, <2>5, <2>6, <2>7 DEF Tells
  <1>5. \/ /\ kind = "more" /\ ctx' = told
           /\ UNCHANGED <<held, queue_ring, fetch_ring>>
        \/ /\ kind = "ends" /\ ctx' = told /\ LetGo(o)
           /\ UNCHANGED <<queue_ring, fetch_ring>>
        \/ /\ kind = "moved" /\ held[o] # Null
           /\ AbortFetch(held[o], told) /\ LetGo(o)
    BY DEF SendCallback
  <1>6. told[f].ended \in BOOLEAN
    BY <1>4 DEF Tells, Contexts
  <1>7. CASE kind = "more"
    <2>1. ctx' = told /\ UNCHANGED <<held, queue_ring, fetch_ring>> /\ D = {}
      BY <1>5, <1>7
    <2> HIDE DEF told, D
    <2>2. Tells(told, {})
      BY <1>4, <2>1
    <2>3. Core(T, C)'
      BY <1>3, <2>1, <2>2, MoreKeeps
    <2> QED BY <1>4, <1>7, <2>1, <2>3 DEF Like, IsLive
  <1>8. CASE kind = "ends"
    <2>1. ctx' = told /\ LetGo(o) /\ UNCHANGED <<queue_ring, fetch_ring>> /\ D = {f}
      BY <1>5, <1>8
    <2>2. D \in SUBSET C
      BY <1>8, <2>1
    <2>3. ~late' => held[o] \in D
      BY <1>1, <1>3, <2>1 DEF Watched
    <2>4. \A h \in D : h \in Fetches /\ ctx[h].owner = o
      BY <2>1
    <2> HIDE DEF told, D, o
    <2>5. Core(T, C)'
      BY <1>2, <1>3, <1>4, <2>1, <2>2, <2>3, <2>4, EndKeeps
    <2> QED BY <1>4, <1>8, <2>1, <2>5 DEF Like, IsLive
  <1>9. CASE kind = "moved"
    <2>1. held[o] # Null /\ AbortFetch(held[o], told) /\ LetGo(o) /\ D = {f}
      BY <1>5, <1>9
    <2>2. D \in SUBSET C
      BY <1>9, <2>1
    <2>3. \A h \in D : h \in Fetches /\ ctx[h].owner = o
      BY <2>1
    <2>4. held[o] \in Fetches \ T /\ IsLive(ctx[held[o]])
      BY <1>1, <1>2, <1>9, <2>1 DEF Typed, Holding
    <2>5. told \in [Fetches -> Contexts]
      BY <1>4 DEF Tells
    <2> HIDE DEF told, D, o
    <2>6. Core(T, C)'
      BY <1>2, <1>3, <1>4, <2>1, <2>2, <2>3, <2>4, AbortKeeps
    <2>7. /\ \A h \in Fetches \ {held[o]} : ctx'[h] = told[h]
          /\ Deferred(held[o]) =>
               /\ ctx'[held[o]].life = told[held[o]].life
               /\ ctx'[held[o]].handle = told[held[o]].handle
               /\ ctx'[held[o]].stopped = told[held[o]].stopped
               /\ ctx'[held[o]].result = told[held[o]].result
               /\ ctx'[held[o]].ended
      BY <1>1, <2>1, <2>4, <2>5, AbortFacts
    <2>8. CASE held[o] = f
      BY <1>4, <1>9, <2>6, <2>7, <2>8 DEF Like, IsLive
    <2>9. CASE held[o] # f
      BY <1>4, <1>9, <2>6, <2>7, <2>9 DEF Like, IsLive
    <2> QED BY <2>8, <2>9
  <1> QED BY <1>5, <1>7, <1>8, <1>9

\* A dispatch marks what it has started.
LEMMA StartedFacts ==
    ASSUME NEW d \in [Fetches -> Contexts], ctx' = WithStarted(d)
    PROVE  /\ ctx' \in [Fetches -> Contexts]
           /\ \A h \in Fetches :
                /\ ctx'[h].life = d[h].life /\ ctx'[h].owner = d[h].owner
                /\ ctx'[h].abort = d[h].abort /\ ctx'[h].stopped = d[h].stopped
                /\ ctx'[h].result = d[h].result
                /\ ctx'[h].ended <=> d[h].ended
                /\ h \in fetch_ring' \ fetch_ring =>
                     ctx'[h].fetch_is_active /\ ctx'[h].handle
                /\ h \notin fetch_ring' \ fetch_ring =>
                     /\ ctx'[h].fetch_is_active = d[h].fetch_is_active
                     /\ ctx'[h].handle = d[h].handle
  <1> DEFINE r(h) == [d[h] EXCEPT !.fetch_is_active = TRUE, !.handle = TRUE]
  <1>1. \A h \in Fetches :
          /\ r(h) \in Contexts
          /\ r(h).life = d[h].life /\ r(h).owner = d[h].owner
          /\ r(h).abort = d[h].abort /\ r(h).stopped = d[h].stopped
          /\ r(h).result = d[h].result /\ r(h).ended = d[h].ended
          /\ r(h).fetch_is_active /\ r(h).handle
    <2> TAKE h \in Fetches
    <2>1. d[h] \in Contexts
      OBVIOUS
    <2> QED BY <2>1 DEF Contexts
  <1> HIDE DEF r
  <1>2. ctx' = [h \in Fetches |-> IF h \in fetch_ring' \ fetch_ring
                                  THEN r(h) ELSE d[h]]
    BY DEF WithStarted, r
  <1>3. \A h \in Fetches : ctx'[h] = IF h \in fetch_ring' \ fetch_ring
                                     THEN r(h) ELSE d[h]
    BY <1>2
  <1>4. ctx' \in [Fetches -> Contexts]
    BY <1>1, <1>2
  <1> QED BY <1>1, <1>3, <1>4

\* A poll dispatches what waits.
LEMMA DispatchCore ==
    ASSUME NEW T, NEW C, Core(T, C),
           Dispatch([queue |-> queue_ring, ring |-> fetch_ring]),
           ctx' = WithStarted(ctx), UNCHANGED <<held, late>>
    PROVE  Core(T, C)'
  <1> DEFINE s == [queue |-> queue_ring, ring |-> fetch_ring]
  <1>1. /\ Typed /\ Rings /\ Placed(T) /\ Fated(T, C) /\ Holding /\ Watched
        /\ ctx \in [Fetches -> Contexts]
    BY DEF Core, Typed
  <1>2. Apart(s) /\ Of(s) = Elems(queue_ring) \cup fetch_ring /\ s.ring = fetch_ring
    BY <1>1 DEF Apart, Pairs, Of, Typed, Rings
  <1>3. /\ queue_ring' \in Seq(Fetches) /\ fetch_ring' \subseteq Fetches
        /\ Rings'
        /\ Elems(queue_ring') \cup fetch_ring' = Elems(queue_ring) \cup fetch_ring
        /\ fetch_ring \subseteq fetch_ring'
    <2> HIDE DEF s
    <2> QED BY <1>2, DispatchKeeps DEF Rings, s
  <1>4. /\ ctx' \in [Fetches -> Contexts]
        /\ \A h \in Fetches :
             /\ ctx'[h].life = ctx[h].life /\ ctx'[h].owner = ctx[h].owner
             /\ ctx'[h].abort = ctx[h].abort /\ ctx'[h].stopped = ctx[h].stopped
             /\ ctx'[h].result = ctx[h].result
             /\ ctx'[h].ended <=> ctx[h].ended
             /\ h \in fetch_ring' \ fetch_ring =>
                  ctx'[h].fetch_is_active /\ ctx'[h].handle
             /\ h \notin fetch_ring' \ fetch_ring =>
                  /\ ctx'[h].fetch_is_active = ctx[h].fetch_is_active
                  /\ ctx'[h].handle = ctx[h].handle
    BY <1>1, StartedFacts
  <1>5. Typed'
    BY <1>1, <1>3, <1>4 DEF Typed
  <1>6. Placed(T)'
    BY <1>1, <1>3, <1>4 DEF Placed, IsLive
  <1>7. Fated(T, C)'
    <2> SUFFICES ASSUME NEW h \in Fetches, IsLive(ctx'[h])
                 PROVE  /\ ctx'[h].owner \in Objects
                        /\ ctx'[h].abort \/ ctx'[h].stopped => ctx'[h].ended
                        /\ ctx'[h].result = "write" => ctx'[h].stopped
                        /\ ctx'[h].result # "none" => h \in T \/ ctx'[h].handle
                        /\ h \notin C =>
                             /\ ctx'[h].ended => ctx'[h].abort \/ ctx'[h].stopped
                             /\ ctx'[h].stopped => ctx'[h].result \in {"none", "write"}
      BY DEF Fated
    <2>1. IsLive(ctx[h])
      BY <1>4 DEF IsLive
    <2>2. ctx[h].handle => ctx'[h].handle
      BY <1>4
    <2> QED BY <1>1, <1>4, <2>1, <2>2 DEF Fated
  <1>8. \A p \in Objects : held[p] # Null => held[p] \in Fetches
    BY <1>1 DEF Typed
  <1>9. Holding' /\ Watched'
    BY <1>1, <1>4, <1>8 DEF Holding, Watched, IsLive
  <1> QED BY <1>3, <1>5, <1>6, <1>7, <1>9 DEF Core

\* o starts f, when the end of those of D has been told.
LEMMA StartKeeps ==
    ASSUME NEW T, NEW C, NEW D \in SUBSET C, Core(T, C), NEW o \in Objects,
           NEW f \in Fetches, NEW c, Tells(c, D),
           \A h \in D : h \in Fetches /\ ctx[h].owner = o,
           ~IsLive(ctx[f]), f \notin T, Start(o, f, c),
           late' \in BOOLEAN, ~late' => ~late,
           ~late' => held[o] = Null \/ held[o] \in D
    PROVE  /\ Core(T, C)'
           /\ \A h \in Fetches : IsLive(ctx[h]) =>
                /\ IsLive(ctx'[h]) /\ ctx'[h].result = ctx[h].result
                /\ ctx'[h].stopped = ctx[h].stopped
                /\ ctx'[h].ended <=> ctx[h].ended \/ h \in D
                /\ ctx[h].handle => ctx'[h].handle
  <1> DEFINE s == [queue |-> Append(queue_ring, f), ring |-> fetch_ring]
             new == [Unborn EXCEPT !.life = "live", !.owner = o]
             d == [c EXCEPT ![f] = new]
  <1>1. /\ Typed /\ Rings /\ Placed(T) /\ Fated(T, C) /\ Holding /\ Watched
        /\ c \in [Fetches -> Contexts]
        /\ \A h \in Fetches : /\ Like(c[h], ctx[h])
                              /\ c[h].ended <=> ctx[h].ended \/ h \in D
    BY DEF Core, Tells
  <1>2. f \notin Elems(queue_ring) \cup fetch_ring
    BY <1>1 DEF Placed
  <1>3. /\ Apart(s) /\ Of(s) = Elems(queue_ring) \cup {f} \cup fetch_ring
        /\ s.ring = fetch_ring
    <2>1. /\ queue_ring \in Seq(Fetches) /\ fetch_ring \subseteq Fetches
          /\ Distinct(queue_ring) /\ Elems(queue_ring) \cap fetch_ring = {}
      BY <1>1 DEF Typed, Rings
    <2>2. /\ Append(queue_ring, f) \in Seq(Fetches)
          /\ Distinct(Append(queue_ring, f))
          /\ Elems(Append(queue_ring, f)) = Elems(queue_ring) \cup {f}
      BY <1>2, <2>1, AppendFacts
    <2> QED BY <1>2, <2>1, <2>2 DEF Apart, Pairs, Of
  <1>4. /\ held' = [held EXCEPT ![o] = f] /\ Dispatch(s)
        /\ ctx' = WithStarted(d)
    BY DEF Start
  <1> HIDE DEF s
  <1>5. /\ queue_ring' \in Seq(Fetches) /\ fetch_ring' \subseteq Fetches
        /\ Rings'
        /\ Elems(queue_ring') \cup fetch_ring' = Elems(queue_ring) \cup {f} \cup fetch_ring
        /\ fetch_ring \subseteq fetch_ring'
    BY <1>3, <1>4, DispatchKeeps DEF Rings
  <1>6. /\ new \in Contexts /\ new.life = "live" /\ new.owner = o
        /\ ~new.fetch_is_active /\ ~new.handle /\ ~new.abort /\ ~new.stopped
        /\ ~new.ended /\ new.result = "none"
    BY DEF Unborn, Contexts
  <1> HIDE DEF new
  <1>7. /\ d \in [Fetches -> Contexts] /\ d[f] = new
        /\ \A h \in Fetches \ {f} : d[h] = c[h]
    BY <1>1, <1>6
  <1> HIDE DEF d
  <1>8. /\ ctx' \in [Fetches -> Contexts]
        /\ \A h \in Fetches :
             /\ ctx'[h].life = d[h].life /\ ctx'[h].owner = d[h].owner
             /\ ctx'[h].abort = d[h].abort /\ ctx'[h].stopped = d[h].stopped
             /\ ctx'[h].result = d[h].result
             /\ ctx'[h].ended <=> d[h].ended
             /\ h \in fetch_ring' \ fetch_ring =>
                  ctx'[h].fetch_is_active /\ ctx'[h].handle
             /\ h \notin fetch_ring' \ fetch_ring =>
                  /\ ctx'[h].fetch_is_active = d[h].fetch_is_active
                  /\ ctx'[h].handle = d[h].handle
    BY <1>4, <1>7, StartedFacts
  <1>9. \A h \in Fetches \ {f} :
          /\ ctx'[h].life = ctx[h].life /\ ctx'[h].owner = ctx[h].owner
          /\ ctx'[h].abort = ctx[h].abort /\ ctx'[h].stopped = ctx[h].stopped
          /\ ctx'[h].result = ctx[h].result
          /\ ctx'[h].ended <=> ctx[h].ended \/ h \in D
          /\ h \in fetch_ring' \ fetch_ring =>
               ctx'[h].fetch_is_active /\ ctx'[h].handle
          /\ h \notin fetch_ring' \ fetch_ring =>
               /\ ctx'[h].fetch_is_active = ctx[h].fetch_is_active
               /\ ctx'[h].handle = ctx[h].handle
    BY <1>1, <1>7, <1>8 DEF Like
  <1>10. /\ ctx'[f].life = "live" /\ ctx'[f].owner = o
         /\ ~ctx'[f].abort /\ ~ctx'[f].stopped /\ ~ctx'[f].ended
         /\ ctx'[f].result = "none"
         /\ ctx'[f].fetch_is_active <=> f \in fetch_ring'
         /\ ctx'[f].handle <=> f \in fetch_ring'
    BY <1>2, <1>6, <1>7, <1>8
  <1>11. /\ held' \in [Objects -> Fetches \cup {Null}]
         /\ held'[o] = f
         /\ \A p \in Objects \ {o} : held'[p] = held[p]
    BY <1>1, <1>4 DEF Typed
  <1>12. Typed'
    BY <1>5, <1>8, <1>11 DEF Typed
  <1>13. Placed(T)'
    <2>1. ASSUME NEW h \in Fetches \ {f}
          PROVE  /\ h \in Elems(queue_ring') \cup fetch_ring' <=> IsLive(ctx'[h]) /\ h \notin T
                 /\ IsLive(ctx'[h]) /\ h \notin T =>
                      /\ ctx'[h].fetch_is_active <=> h \in fetch_ring'
                      /\ ctx'[h].handle <=> h \in fetch_ring'
      BY <1>1, <1>5, <1>9 DEF Placed, IsLive
    <2>2. f \in Elems(queue_ring') \cup fetch_ring' /\ IsLive(ctx'[f])
      BY <1>5, <1>10 DEF IsLive
    <2> QED BY <1>10, <2>1, <2>2 DEF Placed
  <1>14. Fated(T, C)'
    <2> SUFFICES ASSUME NEW h \in Fetches, IsLive(ctx'[h])
                 PROVE  /\ ctx'[h].owner \in Objects
                        /\ ctx'[h].abort \/ ctx'[h].stopped => ctx'[h].ended
                        /\ ctx'[h].result = "write" => ctx'[h].stopped
                        /\ ctx'[h].result # "none" => h \in T \/ ctx'[h].handle
                        /\ h \notin C =>
                             /\ ctx'[h].ended => ctx'[h].abort \/ ctx'[h].stopped
                             /\ ctx'[h].stopped => ctx'[h].result \in {"none", "write"}
      BY DEF Fated
    <2>1. CASE h = f
      BY <1>10, <2>1
    <2>2. CASE h # f
      <3>1. IsLive(ctx[h])
        BY <1>9, <2>2 DEF IsLive
      <3>2. ctx[h].handle => ctx'[h].handle
        BY <1>9, <2>2
      <3>3. h \notin C => h \notin D
        OBVIOUS
      <3> QED BY <1>1, <1>9, <2>2, <3>1, <3>2, <3>3 DEF Fated
    <2> QED BY <2>1, <2>2
  <1>15. Holding'
    <2> SUFFICES ASSUME NEW p \in Objects, held'[p] # Null
                 PROVE  /\ IsLive(ctx'[held'[p]])
                        /\ ~ctx'[held'[p]].ended /\ ctx'[held'[p]].owner = p
      BY DEF Holding
    <2>1. CASE p = o
      BY <1>10, <1>11, <2>1 DEF IsLive
    <2>2. CASE p # o
      <3>1. held'[p] = held[p] /\ held[p] \in Fetches
        BY <1>1, <1>11, <2>2 DEF Typed
      <3>2. IsLive(ctx[held[p]]) /\ ~ctx[held[p]].ended /\ ctx[held[p]].owner = p
        BY <1>1, <3>1 DEF Holding
      <3>3. held[p] # f /\ held[p] \notin D
        BY <2>2, <3>2
      <3> QED BY <1>9, <3>1, <3>2, <3>3 DEF IsLive
    <2> QED BY <2>1, <2>2
  <1>16. Watched'
    <2> SUFFICES ASSUME ~late', NEW h \in Fetches, IsLive(ctx'[h]), ~ctx'[h].ended
                 PROVE  held'[ctx'[h].owner] = h
      BY DEF Watched
    <2>1. CASE h = f
      BY <1>10, <1>11, <2>1
    <2>2. CASE h # f
      <3>1. /\ IsLive(ctx[h]) /\ ~ctx[h].ended /\ h \notin D
            /\ ctx'[h].owner = ctx[h].owner
        BY <1>9, <2>2 DEF IsLive
      <3>2. held[ctx[h].owner] = h /\ ctx[h].owner \in Objects
        BY <1>1, <3>1 DEF Watched, Fated
      <3>3. ctx[h].owner # o
        BY <3>1, <3>2, NullIsNoFetch
      <3> QED BY <1>11, <3>1, <3>2, <3>3
    <2> QED BY <2>1, <2>2
  <1>17. ASSUME NEW h \in Fetches, IsLive(ctx[h])
         PROVE  /\ IsLive(ctx'[h]) /\ ctx'[h].result = ctx[h].result
                /\ ctx'[h].stopped = ctx[h].stopped
                /\ ctx'[h].ended <=> ctx[h].ended \/ h \in D
                /\ ctx[h].handle => ctx'[h].handle
    <2>1. h # f
      BY <1>17
    <2> QED BY <1>9, <1>17, <2>1 DEF IsLive
  <1> QED BY <1>5, <1>12, <1>13, <1>14, <1>15, <1>16, <1>17 DEF Core

LEMMA NothingTold ==
    ASSUME Typed
    PROVE  Tells(ctx, {})
  BY DEF Tells, Typed, Like

LEMMA Unmoved ==
    ASSUME NEW T, NEW C, Core(T, C),
           UNCHANGED <<queue_ring, fetch_ring, ctx, held, late>>
    PROVE  Core(T, C)'
  <1>1. Typed' /\ Rings' /\ Placed(T)'
    BY DEF Core, Typed, Rings, Placed
  <1>2. Fated(T, C)' /\ Holding' /\ Watched'
    BY DEF Core, Fated, Holding, Watched
  <1> QED BY <1>1, <1>2 DEF Core

\* curl changes what it keeps about the transfer f.
LEMMA TransferKeeps ==
    ASSUME NEW T, NEW C, NEW B, Core(T, C), NEW f \in Fetches, C \subseteq B \cup {f},
           NEW r \in Contexts, ctx' = [ctx EXCEPT ![f] = r],
           r.life = ctx[f].life, r.owner = ctx[f].owner,
           r.fetch_is_active = ctx[f].fetch_is_active, r.handle = ctx[f].handle,
           r.abort = ctx[f].abort, r.ended <=> ctx[f].ended,
           IsLive(ctx[f]) =>
               /\ r.stopped => r.ended
               /\ r.result = "write" => r.stopped
               /\ r.result # "none" => f \in T \/ r.handle
               /\ f \notin B => /\ r.ended => r.abort \/ r.stopped
                                /\ r.stopped => r.result \in {"none", "write"},
           UNCHANGED <<queue_ring, fetch_ring, held, late>>
    PROVE  Core(T, B)' /\ ctx'[f] = r
  <1>1. /\ Typed /\ Rings /\ Placed(T) /\ Fated(T, C) /\ Holding /\ Watched
        /\ ctx \in [Fetches -> Contexts]
    BY DEF Core, Typed
  <1>2. /\ ctx' \in [Fetches -> Contexts] /\ ctx'[f] = r
        /\ \A h \in Fetches \ {f} : ctx'[h] = ctx[h]
    BY <1>1
  <1>3. \A h \in Fetches :
          /\ ctx'[h].life = ctx[h].life /\ ctx'[h].owner = ctx[h].owner
          /\ ctx'[h].fetch_is_active = ctx[h].fetch_is_active
          /\ ctx'[h].handle = ctx[h].handle
          /\ ctx'[h].ended <=> ctx[h].ended
    <2> TAKE h \in Fetches
    <2>1. CASE h = f
      BY <1>2, <2>1
    <2>2. CASE h # f
      BY <1>2, <2>2
    <2> QED BY <2>1, <2>2
  <1>4. Typed' /\ Rings' /\ Placed(T)'
    BY <1>1, <1>2, <1>3 DEF Typed, Rings, Placed, IsLive
  <1>5. \A p \in Objects : held[p] # Null => held[p] \in Fetches
    BY <1>1 DEF Typed
  <1>6. Holding' /\ Watched'
    BY <1>1, <1>3, <1>5 DEF Holding, Watched, IsLive
  <1>7. Fated(T, B)'
    <2> SUFFICES ASSUME NEW h \in Fetches, IsLive(ctx'[h])
                 PROVE  /\ ctx'[h].owner \in Objects
                        /\ ctx'[h].abort \/ ctx'[h].stopped => ctx'[h].ended
                        /\ ctx'[h].result = "write" => ctx'[h].stopped
                        /\ ctx'[h].result # "none" => h \in T \/ ctx'[h].handle
                        /\ h \notin B =>
                             /\ ctx'[h].ended => ctx'[h].abort \/ ctx'[h].stopped
                             /\ ctx'[h].stopped => ctx'[h].result \in {"none", "write"}
      BY DEF Fated
    <2>1. IsLive(ctx[h])
      BY <1>3 DEF IsLive
    <2>2. CASE h = f
      BY <1>1, <1>2, <2>1, <2>2 DEF Fated
    <2>3. CASE h # f
      BY <1>1, <1>2, <2>1, <2>3 DEF Fated
    <2> QED BY <2>2, <2>3
  <1> QED BY <1>2, <1>4, <1>6, <1>7 DEF Core

-----------------------------------------------------------------------------
(* The poll. *)
Closing ==
    IF pc \in {"in_headers", "in_done", "stop", "in_certs", "last", "in_last"}
    THEN {cur} ELSE {}

\* The fetch in hand is there; while its callback runs it has its handle,
\* and once fetch_curl_done has decided, its end is still to be told exactly
\* if there is a verdict.
Hand ==
    /\ pc \in InHand => cur \in Fetches /\ IsLive(ctx[cur])
    /\ pc \in {"in_header", "in_data", "in_headers", "in_done"} => ctx[cur].handle
    /\ pc \in {"in_header", "in_data", "in_headers"} => ctx[cur].result = "none"
    /\ pc \in {"in_headers", "in_done", "in_last"} => ctx[cur].ended
    /\ pc = "in_data" => ~ctx[cur].stopped
    /\ pc = "in_done" => verdict = "none"
    /\ pc \in {"stop", "in_certs", "last"} => (ctx[cur].ended <=> verdict = "none")

Interlock == pc # "idle" => inside_curl

Scalars == /\ inside_curl \in BOOLEAN /\ scheduled \in BOOLEAN
           /\ pc \in InHand \cup {"idle", "perform", "results", "crashed"}
           /\ cur \in Fetches \cup {Null}
           /\ verdict \in {"none", "ends", "timedout"}
           /\ badHandle \in BOOLEAN

Going == pc # "crashed" => Core(TakenOut, Closing) /\ Hand

(* FetchInv is not inductive: that the fetch in hand survives its callbacks *)
(* needs its handle, that an ended fetch is not aborted again needs that no *)
(* object holds one, and this that a message tells an end only once.        *)
IInv == Typed /\ Scalars /\ Rings /\ Interlock /\ Going

LEMMA InvImplies == IInv => FetchInv
  <1> SUFFICES ASSUME IInv PROVE FetchInv
    OBVIOUS
  <1>1. TypeOK
    BY DEF IInv, Typed, Scalars, TypeOK
  <1>2. /\ \A i, j \in DOMAIN queue_ring : queue_ring[i] = queue_ring[j] => i = j
        /\ Queued \cap fetch_ring = {}
        /\ Queued = Elems(queue_ring)
    BY DEF IInv, Rings, Distinct, Elems, Queued
  <1>3. TakenOut \subseteq Fetches \cup {Null} /\ Live \subseteq Fetches
    BY DEF IInv, Scalars, TakenOut, Live
  <1>4. ASSUME pc # "crashed"
        PROVE  /\ Live \ TakenOut = Queued \cup fetch_ring
               /\ \A f \in Live \ TakenOut :
                    /\ ctx[f].fetch_is_active <=> f \in fetch_ring
                    /\ ctx[f].handle <=> f \in fetch_ring
    <2>1. Placed(TakenOut) /\ queue_ring \in Seq(Fetches) /\ fetch_ring \subseteq Fetches
      BY <1>4 DEF IInv, Going, Core, Typed
    <2>2. Elems(queue_ring) \subseteq Fetches
      BY <2>1 DEF Elems
    <2>3. \A f \in Fetches : f \in Live <=> IsLive(ctx[f])
      BY DEF Live, IsLive
    <2> HIDE DEF TakenOut
    <2>4. Live \ TakenOut = Elems(queue_ring) \cup fetch_ring
      BY <1>3, <2>1, <2>2, <2>3 DEF Placed
    <2>5. \A f \in Live \ TakenOut :
                    /\ ctx[f].fetch_is_active <=> f \in fetch_ring
                    /\ ctx[f].handle <=> f \in fetch_ring
      BY <1>3, <2>1, <2>3 DEF Placed
    <2> QED BY <1>2, <2>4, <2>5
  <1>5. pc # "idle" => inside_curl
    BY DEF IInv, Interlock
  <1>6. InHandIsLive
    BY DEF IInv, Going, Hand, InHandIsLive, InHand, Callbacks, Live, IsLive
  <1>7. HeldWhileGoing
    <2> SUFFICES ASSUME ~late, pc # "crashed", NEW f \in Fetches, NEW o \in Objects
                 PROVE  held[o] = f <=> f \in Live /\ ~ctx[f].ended /\ ctx[f].owner = o
      BY DEF HeldWhileGoing
    <2>1. Holding /\ Watched /\ f # Null
      BY NullIsNoFetch DEF IInv, Going, Core
    <2>2. held[o] = f => IsLive(ctx[f]) /\ ~ctx[f].ended /\ ctx[f].owner = o
      BY <2>1 DEF Holding
    <2>3. IsLive(ctx[f]) /\ ~ctx[f].ended /\ ctx[f].owner = o => held[o] = f
      BY <2>1 DEF Watched
    <2> QED BY <2>2, <2>3 DEF Live, IsLive
  <1> QED BY <1>1, <1>2, <1>4, <1>5, <1>6, <1>7 DEF FetchInv

LEMMA InitInv == Init => IInv
  <1> SUFFICES ASSUME Init PROVE IInv
    OBVIOUS
  <1>1. Unborn \in Contexts /\ ~IsLive(Unborn)
    BY DEF Unborn, Contexts, IsLive
  <1>2. /\ Elems(queue_ring) = {} /\ queue_ring \in Seq(Fetches) /\ fetch_ring = {}
        /\ Distinct(queue_ring)
    BY DEF Init, Elems, Distinct
  <1>3. /\ ctx \in [Fetches -> Contexts]
        /\ \A f \in Fetches : ~IsLive(ctx[f])
    BY <1>1 DEF Init
  <1>4. /\ held \in [Objects -> Fetches \cup {Null}]
        /\ \A o \in Objects : held[o] = Null
    BY DEF Init
  <1>5. Typed /\ Rings
    BY <1>2, <1>3, <1>4 DEF Init, Typed, Rings
  <1>6. Scalars /\ Interlock /\ Hand
    BY DEF Init, Scalars, Interlock, Hand, InHand, Callbacks
  <1>7. Core({}, {})
    BY <1>2, <1>3, <1>4, <1>5 DEF Core, Placed, Fated, Holding, Watched
  <1>8. TakenOut = {} /\ Closing = {}
    BY DEF Init, TakenOut, Closing
  <1> QED BY <1>5, <1>6, <1>7, <1>8 DEF IInv, Going

-----------------------------------------------------------------------------
(* The cache. *)
LEMMA CacheStarts ==
    ASSUME IInv, NEW o \in Objects, NEW f \in Fetches, fetch_start(o, f)
    PROVE  IInv'
  <1>1. /\ pc \in Callbacks \cup {"idle"} /\ held[o] = Null /\ Start(o, f, ctx)
        /\ UNCHANGED <<inside_curl, pc, cur, verdict, late>>
    BY DEF fetch_start
  <1>2. /\ Typed /\ Scalars /\ Core(TakenOut, Closing) /\ Hand /\ pc # "crashed"
        /\ Tells(ctx, {}) /\ late \in BOOLEAN
    BY <1>1, NothingTold DEF IInv, Going, Callbacks, Typed
  <1>3. ~IsLive(ctx[f])
    BY <1>1 DEF Start, IsNext, IsLive
  <1>4. f \notin TakenOut
    BY <1>2, <1>3 DEF Hand, TakenOut, InHand, Callbacks
  <1>5. /\ Core(TakenOut, Closing)'
        /\ \A h \in Fetches : IsLive(ctx[h]) =>
             /\ IsLive(ctx'[h]) /\ ctx'[h].result = ctx[h].result
             /\ ctx'[h].stopped = ctx[h].stopped
             /\ ctx'[h].ended <=> ctx[h].ended
             /\ ctx[h].handle => ctx'[h].handle
    <2>1. PICK T, C : T = TakenOut /\ C = Closing
      OBVIOUS
    <2>2. TakenOut' = T /\ Closing' = C
      BY <1>1, <2>1 DEF TakenOut, Closing
    <2>3. Core(T, C) /\ f \notin T
      BY <1>2, <1>4, <2>1
    <2>4. /\ Core(T, C)'
          /\ \A h \in Fetches : IsLive(ctx[h]) =>
               /\ IsLive(ctx'[h]) /\ ctx'[h].result = ctx[h].result
               /\ ctx'[h].stopped = ctx[h].stopped
               /\ ctx'[h].ended <=> ctx[h].ended \/ h \in {}
               /\ ctx[h].handle => ctx'[h].handle
      <3>1. PICK D : D = {}
        OBVIOUS
      <3>2. /\ D \in SUBSET C /\ Tells(ctx, D)
            /\ \A h \in D : h \in Fetches /\ ctx[h].owner = o
            /\ late' \in BOOLEAN /\ (~late' => ~late)
            /\ ~late' => held[o] = Null \/ held[o] \in D
        BY <1>1, <1>2, <3>1
      <3>3. /\ Core(T, C)'
            /\ \A h \in Fetches : IsLive(ctx[h]) =>
                 /\ IsLive(ctx'[h]) /\ ctx'[h].result = ctx[h].result
                 /\ ctx'[h].stopped = ctx[h].stopped
                 /\ ctx'[h].ended <=> ctx[h].ended \/ h \in D
                 /\ ctx[h].handle => ctx'[h].handle
        BY <1>1, <1>3, <2>3, <3>2, StartKeeps
      <3> QED BY <3>1, <3>3
    <2> QED BY <2>2, <2>4 DEF Core, Placed, Fated
  <1>6. Hand'
    BY <1>1, <1>2, <1>5 DEF Hand, InHand, Callbacks
  <1>7. badHandle' \in BOOLEAN /\ scheduled' \in BOOLEAN
    BY <1>1, <1>2 DEF Start, Dispatch, Scalars
  <1>8. Scalars' /\ Interlock'
    BY <1>1, <1>2, <1>7 DEF Scalars, Interlock, IInv
  <1>9. Typed' /\ Rings'
    BY <1>5 DEF Core
  <1> QED BY <1>5, <1>6, <1>8, <1>9 DEF IInv, Going

LEMMA CacheAborts ==
    ASSUME IInv, NEW o \in Objects, fetch_abort(o)
    PROVE  IInv'
  <1>1. /\ pc \in Callbacks \cup {"idle"} /\ held[o] # Null
        /\ AbortFetch(held[o], ctx) /\ LetGo(o)
        /\ UNCHANGED <<inside_curl, scheduled, pc, cur, verdict, late, badHandle>>
    BY DEF fetch_abort, LetGo
  <1>2. /\ Typed /\ Scalars /\ Core(TakenOut, Closing) /\ Hand /\ pc # "crashed"
        /\ Tells(ctx, {}) /\ late \in BOOLEAN
    BY <1>1, NothingTold DEF IInv, Going, Callbacks, Typed
  <1>3. /\ held[o] \in Fetches
        /\ IsLive(ctx[held[o]]) /\ ~ctx[held[o]].ended
    BY <1>1, <1>2 DEF Core, Typed, Holding
  <1>4. held[o] \notin TakenOut
    BY <1>1, <1>2, <1>3 DEF Hand, TakenOut, InHand, Callbacks
  <1>5. PICK T, C : T = TakenOut /\ C = Closing
    OBVIOUS
  <1>6. TakenOut' = T /\ Closing' = C
    BY <1>1, <1>5 DEF TakenOut, Closing
  <1>7. PICK D : D = {}
    OBVIOUS
  <1>8. PICK g \in Fetches \ T : g = held[o]
    BY <1>3, <1>4, <1>5
  <1>9. Core(T, C)'
    <2>1. /\ Core(T, C) /\ D \in SUBSET C /\ Tells(ctx, D)
          /\ \A h \in D : h \in Fetches /\ ctx[h].owner = o
          /\ held[o] = g /\ AbortFetch(g, ctx)
          /\ late' \in BOOLEAN /\ (~late' => ~late)
      BY <1>1, <1>2, <1>5, <1>7, <1>8
    <2> QED BY <1>1, <2>1, AbortKeeps
  <1>10. /\ \A h \in Fetches \ {g} : ctx'[h] = ctx[h]
         /\ Deferred(g) =>
              /\ ctx'[g].life = ctx[g].life
              /\ ctx'[g].handle = ctx[g].handle /\ ctx'[g].result = ctx[g].result
              /\ ctx'[g].stopped = ctx[g].stopped /\ ctx'[g].ended
    <2>1. /\ Placed(T) /\ Rings /\ ctx \in [Fetches -> Contexts]
          /\ AbortFetch(g, ctx) /\ IsLive(ctx[g])
      BY <1>1, <1>2, <1>3, <1>5, <1>8 DEF Core, Typed
    <2> QED BY <1>2, <2>1, AbortFacts
  <1>11. Hand'
    <2>1. CASE pc \in {"in_header", "in_data", "in_headers", "in_done"} /\ cur = g
      <3>1. Deferred(g)
        BY <1>2, <2>1 DEF Deferred, Hand, IInv, Interlock
      <3> QED BY <1>1, <1>2, <1>10, <2>1, <3>1 DEF Hand, InHand, Callbacks, IsLive
    <2>2. CASE cur # g
      BY <1>1, <1>2, <1>10, <2>2 DEF Hand, InHand, Callbacks
    <2>3. CASE pc = "in_last" /\ cur = g
      BY <1>2, <1>3, <1>8, <2>3 DEF Hand
    <2>4. CASE pc = "idle"
      BY <1>1, <2>4 DEF Hand, InHand, Callbacks
    <2> QED BY <1>1, <2>1, <2>2, <2>3, <2>4 DEF Callbacks
  <1>12. Scalars' /\ Interlock'
    BY <1>1, <1>2 DEF Scalars, Interlock, IInv
  <1>13. Typed' /\ Rings'
    BY <1>9 DEF Core
  <1>14. Core(TakenOut, Closing)'
    BY <1>6, <1>9 DEF Core, Placed, Fated
  <1> QED BY <1>11, <1>12, <1>13, <1>14 DEF IInv, Going

(* fetcher_poll *)
LEMMA PollKeeps ==
    ASSUME IInv, fetcher_poll
    PROVE  IInv'
  <1>1. /\ pc = "idle"
        /\ Dispatch([queue |-> queue_ring, ring |-> fetch_ring])
        /\ ctx' = WithStarted(ctx)
        /\ scheduled' = FALSE
        /\ \/ pc' = "idle" /\ inside_curl' = inside_curl
           \/ pc' = "perform" /\ inside_curl' = TRUE
        /\ UNCHANGED <<held, cur, verdict, late>>
    BY DEF fetcher_poll
  <1>2. Scalars /\ Core({}, {})
    BY <1>1 DEF IInv, Going, TakenOut, Closing
  <1>3. Core({}, {})'
    BY <1>1, <1>2, DispatchCore
  <1>4. TakenOut' = {} /\ Closing' = {}
    BY <1>1 DEF TakenOut, Closing
  <1>5. badHandle' \in BOOLEAN
    BY <1>1 DEF Dispatch
  <1>6. Scalars' /\ Interlock' /\ Hand'
    BY <1>1, <1>2, <1>5 DEF Scalars, Interlock, Hand, InHand, Callbacks, IInv
  <1>7. Core(TakenOut, Closing)'
    BY <1>3, <1>4 DEF Core, Placed, Fated
  <1>8. Typed' /\ Rings'
    BY <1>3 DEF Core
  <1> QED BY <1>6, <1>7, <1>8 DEF IInv, Going

-----------------------------------------------------------------------------
(* curl. *)
LEMMA Performing ==
    ASSUME IInv, pc = "perform"
    PROVE  /\ Typed /\ Scalars /\ Rings /\ Core({}, {}) /\ inside_curl
           /\ \A f \in Transfers :
                /\ f \in Fetches /\ IsLive(ctx[f]) /\ Deferred(f)
                /\ ctx[f].handle /\ ctx[f].result = "none"
                /\ ctx[f].ended => ctx[f].abort \/ ctx[f].stopped
  <1>1. /\ Typed /\ Scalars /\ Rings /\ Core({}, {}) /\ inside_curl
    BY DEF IInv, Going, TakenOut, Closing, Interlock
  <1>2. ASSUME NEW f \in Transfers
        PROVE  /\ f \in Fetches /\ IsLive(ctx[f]) /\ Deferred(f)
               /\ ctx[f].handle /\ ctx[f].result = "none"
               /\ ctx[f].ended => ctx[f].abort \/ ctx[f].stopped
    BY <1>1 DEF Transfers, Live, IsLive, Deferred, Core, Fated
  <1> QED BY <1>1, <1>2

\* The invariant follows from its parts at the new place of the poll.
LEMMA Concludes ==
    ASSUME NEW T, NEW C, Core(T, C)', TakenOut' = T, Closing' = C,
           Scalars', Interlock', Hand'
    PROVE  IInv'
  <1>1. Typed' /\ Rings' /\ Core(TakenOut, Closing)'
    BY DEF Core, Placed, Fated
  <1> QED BY <1>1 DEF IInv, Going

\* Only what curl keeps of f, but for its handle and its abort, has changed.
LEMMA StopKeeps ==
    ASSUME IInv, pc = "perform", NEW f \in Transfers, ctx[f].abort,
           StopTransfer(f), UNCHANGED unchangedByCurl
    PROVE  IInv'
  <1>1. /\ Typed /\ Scalars /\ Core({}, {}) /\ inside_curl
        /\ f \in Fetches /\ IsLive(ctx[f]) /\ ctx[f].result = "none"
    BY Performing
  <1> DEFINE r == [ctx[f] EXCEPT !.stopped = TRUE]
  <1>2. /\ ctx' = [ctx EXCEPT ![f] = r]
        /\ UNCHANGED <<queue_ring, fetch_ring, held, pc, cur, late>>
        /\ UNCHANGED <<inside_curl, scheduled, verdict, badHandle>>
    BY DEF StopTransfer, unchangedByCurl
  <1>3. ctx[f] \in Contexts
    BY <1>1 DEF Typed
  <1>4. /\ r \in Contexts
        /\ r.life = ctx[f].life /\ r.owner = ctx[f].owner
        /\ r.fetch_is_active = ctx[f].fetch_is_active /\ r.handle = ctx[f].handle
        /\ r.abort = ctx[f].abort /\ r.result = ctx[f].result
        /\ r.ended = ctx[f].ended /\ r.stopped
    BY <1>3 DEF Contexts
  <1> HIDE DEF r
  <1>5. PICK T : T = {}
    OBVIOUS
  <1>6. /\ r.stopped => r.ended
        /\ r.result = "write" => r.stopped
        /\ r.result # "none" => f \in T \/ r.handle
        /\ f \notin T => /\ r.ended => r.abort \/ r.stopped
                         /\ r.stopped => r.result \in {"none", "write"}
    BY <1>1, <1>4 DEF Core, Fated
  <1>7. Core(T, T)'
    <2>1. Core(T, T) /\ T \subseteq T \cup {f} /\ (r.ended <=> ctx[f].ended)
      BY <1>1, <1>4, <1>5
    <2> QED BY <1>1, <1>2, <1>4, <1>6, <2>1, TransferKeeps
  <1>8. TakenOut' = T /\ Closing' = T
    BY <1>2, <1>5 DEF TakenOut, Closing
  <1>9. Scalars' /\ Interlock' /\ Hand'
    BY <1>1, <1>2 DEF Scalars, Interlock, Hand, InHand, Callbacks
  <1> QED BY <1>7, <1>8, <1>9, Concludes

\* What curl notes about headers tells nobody anything.
LEMMA HeadersNoted ==
    ASSUME Typed, NEW f \in Fetches
    PROVE  /\ Tells([ctx EXCEPT ![f].had_headers = TRUE], {})
           /\ Tells([ctx EXCEPT ![f].sent_ssl_chain = TRUE], {})
  <1> DEFINE r == [ctx[f] EXCEPT !.had_headers = TRUE]
             q == [ctx[f] EXCEPT !.sent_ssl_chain = TRUE]
  <1>1. ctx \in [Fetches -> Contexts] /\ ctx[f] \in Contexts
    BY DEF Typed
  <1>2. r \in Contexts /\ Like(r, ctx[f]) /\ (r.ended <=> ctx[f].ended)
    BY <1>1 DEF Contexts, Like
  <1>3. q \in Contexts /\ Like(q, ctx[f]) /\ (q.ended <=> ctx[f].ended)
    BY <1>1 DEF Contexts, Like
  <1> HIDE DEF r, q
  <1>4. \A h \in Fetches : Like(ctx[h], ctx[h])
    BY DEF Like
  <1>5. Tells([ctx EXCEPT ![f] = r], {})
    BY <1>1, <1>2, <1>4 DEF Tells
  <1>6. Tells([ctx EXCEPT ![f] = q], {})
    BY <1>1, <1>3, <1>4 DEF Tells
  <1> QED BY <1>5, <1>6 DEF r, q

\* A callback of curl gives the cache a message about f.
LEMMA CallbackKeeps ==
    ASSUME IInv, pc = "perform", NEW f \in Transfers, NEW c, Tells(c, {}),
           NEW kind, SendCallback(f, kind, c), cur' = f, ~ctx[f].stopped,
           pc' \in {"in_header", "in_data", "in_headers"},
           kind = "more" <=> pc' # "in_headers",
           UNCHANGED unchangedByCurl
    PROVE  IInv'
  <1>1. /\ Typed /\ Scalars /\ Core({}, {}) /\ inside_curl
        /\ f \in Fetches /\ IsLive(ctx[f]) /\ ctx[f].result = "none"
        /\ ctx[f].handle /\ Deferred(f)
    BY Performing
  <1>2. PICK T, C : T = {} /\ C = IF pc' = "in_headers" THEN {f} ELSE {}
    OBVIOUS
  <1>3. /\ Core(T, C)
        /\ kind # "more" => f \in C
        /\ kind = "moved" => T = {} /\ Deferred(f)
    <2>1. PICK B : B = {}
      OBVIOUS
    <2>2. Core(T, B) /\ B \subseteq C
      BY <1>1, <1>2, <2>1
    <2>3. Core(T, C)
      BY <2>2, MoreClosing
    <2> QED BY <1>1, <1>2, <2>3
  <1>4. /\ Core(T, C)'
        /\ IsLive(ctx'[f])
        /\ ctx'[f].handle = ctx[f].handle /\ ctx'[f].stopped = ctx[f].stopped
        /\ ctx'[f].result = ctx[f].result
        /\ kind # "more" => ctx'[f].ended
    <2>1. /\ Core(T, C) /\ f \in Fetches /\ IsLive(ctx[f])
          /\ Tells(c, {}) /\ SendCallback(f, kind, c)
          /\ kind # "more" => f \in C
          /\ kind = "moved" => T = {} /\ Deferred(f)
      BY <1>1, <1>3
    <2> QED BY ONLY <2>1, SendKeeps
  <1>5. TakenOut' = T /\ Closing' = C
    BY <1>2 DEF TakenOut, Closing
  <1>6. Scalars' /\ Interlock'
    BY <1>1 DEF Scalars, Interlock, unchangedByCurl, InHand, Callbacks
  <1>7. Hand'
    BY <1>1, <1>4 DEF Hand, InHand, Callbacks
  <1> QED BY <1>4, <1>5, <1>6, <1>7, Concludes

LEMMA HeaderKeeps ==
    ASSUME IInv, NEW f \in Fetches, fetch_curl_header(f)
    PROVE  IInv'
  <1> DEFINE c == [ctx EXCEPT ![f].sent_ssl_chain = TRUE]
  <1>1. /\ pc = "perform" /\ f \in Transfers /\ ~ctx[f].stopped
        /\ \/ ctx[f].abort /\ StopTransfer(f)
           \/ SendCallback(f, "more", c) /\ pc' = "in_header" /\ cur' = f
        /\ UNCHANGED unchangedByCurl
    BY DEF fetch_curl_header
  <1>2. Tells(c, {})
    BY HeadersNoted DEF IInv
  <1> HIDE DEF c
  <1>3. CASE ctx[f].abort /\ StopTransfer(f)
    BY <1>1, <1>3, StopKeeps
  <1>4. CASE SendCallback(f, "more", c) /\ pc' = "in_header" /\ cur' = f
    BY <1>1, <1>2, <1>4, CallbackKeeps
  <1> QED BY <1>1, <1>3, <1>4

LEMMA ProgressKeeps ==
    ASSUME IInv, NEW f \in Fetches, fetch_curl_progress(f)
    PROVE  IInv'
  <1>1. /\ pc = "perform" /\ f \in Transfers /\ ~ctx[f].stopped
        /\ SendCallback(f, "more", ctx) /\ pc' = "in_header" /\ cur' = f
        /\ UNCHANGED unchangedByCurl
    BY DEF fetch_curl_progress
  <1>2. Tells(ctx, {})
    BY NothingTold DEF IInv
  <1> QED BY <1>1, <1>2, CallbackKeeps

LEMMA DataKeeps ==
    ASSUME IInv, NEW f \in Fetches, fetch_curl_data(f)
    PROVE  IInv'
  <1> DEFINE c == [ctx EXCEPT ![f].had_headers = TRUE]
  <1>1. /\ pc = "perform" /\ f \in Transfers /\ ~ctx[f].stopped
        /\ \/ ctx[f].abort /\ StopTransfer(f)
           \/ SendCallback(f, "more", c) /\ pc' = "in_data" /\ cur' = f
           \/ /\ \E kind \in {"ends", "moved"} : SendCallback(f, kind, c)
              /\ pc' = "in_headers" /\ cur' = f
        /\ UNCHANGED unchangedByCurl
    BY DEF fetch_curl_data
  <1>2. Tells(c, {})
    BY HeadersNoted DEF IInv
  <1> HIDE DEF c
  <1>3. CASE ctx[f].abort /\ StopTransfer(f)
    BY <1>1, <1>3, StopKeeps
  <1>4. CASE SendCallback(f, "more", c) /\ pc' = "in_data" /\ cur' = f
    BY <1>1, <1>2, <1>4, CallbackKeeps
  <1>5. CASE /\ \E kind \in {"ends", "moved"} : SendCallback(f, kind, c)
             /\ pc' = "in_headers" /\ cur' = f
    <2>1. PICK kind \in {"ends", "moved"} : SendCallback(f, kind, c)
      BY <1>5
    <2>2. kind = "more" <=> pc' # "in_headers"
      BY <1>5, <2>1
    <2> QED BY <1>1, <1>2, <1>5, <2>1, <2>2, CallbackKeeps
  <1> QED BY <1>1, <1>3, <1>4, <1>5

LEMMA CompletesKeeps ==
    ASSUME IInv, NEW f \in Fetches, Completes(f)
    PROVE  IInv'
  <1>1. /\ pc = "perform" /\ f \in Transfers
        /\ UNCHANGED <<queue_ring, fetch_ring, held, pc, cur, late>>
        /\ UNCHANGED <<inside_curl, scheduled, verdict, badHandle>>
    BY DEF Completes, unchangedByCurl
  <1>2. /\ Typed /\ Scalars /\ Core({}, {}) /\ inside_curl
        /\ IsLive(ctx[f]) /\ ctx[f].handle
    BY <1>1, Performing
  <1>3. PICK res : /\ res \in {"ok", "partial", "write", "error", "timedout"}
                   /\ ctx[f].stopped <=> res = "write"
                   /\ ctx' = [ctx EXCEPT ![f].result = res]
    <2>1. PICK res \in IF ctx[f].stopped THEN {"write"}
                ELSE {"error", "timedout"} \cup
                     (IF ctx[f].sent_ssl_chain THEN {"ok", "partial"} ELSE {}) :
                 ctx' = [ctx EXCEPT ![f].result = res]
      BY DEF Completes
    <2> QED BY <2>1
  <1> DEFINE r == [ctx[f] EXCEPT !.result = res]
  <1>4. ctx[f] \in Contexts
    BY <1>2 DEF Typed
  <1>5. /\ r \in Contexts
        /\ r.life = ctx[f].life /\ r.owner = ctx[f].owner
        /\ r.fetch_is_active = ctx[f].fetch_is_active /\ r.handle = ctx[f].handle
        /\ r.abort = ctx[f].abort /\ r.stopped = ctx[f].stopped
        /\ r.ended = ctx[f].ended /\ r.result = res
    BY <1>3, <1>4 DEF Contexts
  <1>6. ctx' = [ctx EXCEPT ![f] = r]
    BY <1>3
  <1> HIDE DEF r
  <1>7. PICK T : T = {}
    OBVIOUS
  <1>8. /\ r.stopped => r.ended
        /\ r.result = "write" => r.stopped
        /\ r.result # "none" => f \in T \/ r.handle
        /\ f \notin T => /\ r.ended => r.abort \/ r.stopped
                         /\ r.stopped => r.result \in {"none", "write"}
    BY <1>2, <1>3, <1>5 DEF Core, Fated
  <1>9. Core(T, T)'
    <2>1. Core(T, T) /\ T \subseteq T \cup {f} /\ (r.ended <=> ctx[f].ended)
      BY <1>2, <1>5, <1>7
    <2> QED BY <1>1, <1>5, <1>6, <1>8, <2>1, TransferKeeps
  <1>10. TakenOut' = T /\ Closing' = T
    BY <1>1, <1>7 DEF TakenOut, Closing
  <1>11. Scalars' /\ Interlock' /\ Hand'
    BY <1>1, <1>2 DEF Scalars, Interlock, Hand, InHand, Callbacks
  <1> QED BY <1>9, <1>10, <1>11, Concludes

\* Steps that change no fetch: the poll moves on, nothing changes hands.
LEMMA MovesOn ==
    ASSUME IInv, pc # "crashed",
           UNCHANGED <<queue_ring, fetch_ring, ctx, held, late>>,
           TakenOut' = TakenOut, Closing \subseteq Closing',
           Scalars', Interlock', Hand'
    PROVE  IInv'
  <1>1. PICK T, C, D : T = TakenOut /\ C = Closing /\ D = Closing'
    OBVIOUS
  <1>2. Core(T, C) /\ C \subseteq D
    BY <1>1 DEF IInv, Going
  <1>3. Core(T, D)
    BY <1>2, MoreClosing
  <1>4. Core(T, D)'
    BY <1>3, Unmoved
  <1> QED BY <1>1, <1>4, Concludes

LEMMA PerformEnds ==
    ASSUME IInv, PerformFails \/ PerformReturns
    PROVE  IInv'
  <1>1. /\ pc = "perform"
        /\ \/ pc' = "idle" /\ scheduled' = TRUE
           \/ pc' = "results" /\ scheduled' = scheduled
        /\ UNCHANGED <<queue_ring, fetch_ring, ctx, held, inside_curl, cur,
                       verdict, late, badHandle>>
    BY DEF PerformFails, PerformReturns, unchangedByCurl
  <1>2. Scalars /\ inside_curl
    BY <1>1 DEF IInv, Interlock
  <1>3. Scalars' /\ Interlock' /\ Hand' /\ TakenOut' = TakenOut /\ Closing = {}
    BY <1>1, <1>2 DEF Scalars, Interlock, Hand, InHand, Callbacks, TakenOut, Closing
  <1> QED BY <1>1, <1>3, MovesOn

LEMMA HeaderReturnsKeeps ==
    ASSUME IInv, HeaderReturns
    PROVE  IInv'
  <1>1. /\ pc = "in_header" /\ pc' = "perform" /\ cur' = Null
        /\ UNCHANGED <<queue_ring, fetch_ring, ctx, held, late>>
        /\ UNCHANGED <<inside_curl, scheduled, verdict, badHandle>>
    BY DEF HeaderReturns, unchangedByCurl
  <1>2. Scalars /\ inside_curl
    BY <1>1 DEF IInv, Interlock
  <1>3. Scalars' /\ Interlock' /\ Hand' /\ TakenOut' = TakenOut /\ Closing = {}
    BY <1>1, <1>2 DEF Scalars, Interlock, Hand, InHand, Callbacks, TakenOut, Closing
  <1> QED BY <1>1, <1>3, MovesOn

LEMMA DataReturnsKeeps ==
    ASSUME IInv, DataReturns
    PROVE  IInv'
  <1>1. /\ pc \in {"in_data", "in_headers"}
        /\ ctx' = [ctx EXCEPT ![cur].stopped = (pc = "in_headers" \/ ctx[cur].abort)]
        /\ pc' = "perform" /\ cur' = Null
        /\ UNCHANGED <<queue_ring, fetch_ring, held, late>>
        /\ UNCHANGED <<inside_curl, scheduled, verdict, badHandle>>
    BY DEF DataReturns, unchangedByCurl
  <1>2. /\ Scalars /\ inside_curl /\ Core({}, Closing) /\ Typed
        /\ cur \in Fetches /\ IsLive(ctx[cur]) /\ ctx[cur].result = "none"
        /\ pc = "in_headers" => ctx[cur].ended
        /\ pc = "in_data" => ~ctx[cur].stopped
    BY <1>1 DEF IInv, Interlock, Going, Hand, InHand, Callbacks, TakenOut
  <1>3. PICK f \in Fetches : f = cur
    BY <1>2
  <1>4. PICK T, C, s : T = {} /\ C = Closing /\ s = (pc = "in_headers" \/ ctx[cur].abort)
    OBVIOUS
  <1> DEFINE r == [ctx[f] EXCEPT !.stopped = s]
  <1>5. ctx[f] \in Contexts /\ s \in BOOLEAN
    BY <1>2, <1>4 DEF Typed, Contexts
  <1>6. /\ r \in Contexts
        /\ r.life = ctx[f].life /\ r.owner = ctx[f].owner
        /\ r.fetch_is_active = ctx[f].fetch_is_active /\ r.handle = ctx[f].handle
        /\ r.abort = ctx[f].abort /\ r.result = ctx[f].result
        /\ r.ended = ctx[f].ended
        /\ r.stopped <=> s
    BY <1>5 DEF Contexts
  <1>7. ctx' = [ctx EXCEPT ![f] = r]
    BY <1>1, <1>3, <1>4
  <1> HIDE DEF r
  <1>8. /\ r.stopped => r.ended
        /\ r.result = "write" => r.stopped
        /\ r.result # "none" => f \in T \/ r.handle
        /\ f \notin T => /\ r.ended => r.abort \/ r.stopped
                         /\ r.stopped => r.result \in {"none", "write"}
    <2>1. ctx[f].abort => ctx[f].ended
      BY <1>2, <1>3 DEF Core, Fated
    <2>2. pc = "in_data" => (ctx[f].ended => ctx[f].abort)
      BY <1>2, <1>3 DEF Core, Fated, Closing
    <2> QED BY <1>1, <1>2, <1>3, <1>4, <1>6, <2>1, <2>2
  <1>9. Core(T, T)'
    <2>1. /\ Core(T, C) /\ C \subseteq T \cup {f} /\ f \in Fetches
          /\ r \in Contexts /\ ctx' = [ctx EXCEPT ![f] = r]
          /\ r.life = ctx[f].life /\ r.owner = ctx[f].owner
          /\ r.fetch_is_active = ctx[f].fetch_is_active
          /\ r.handle = ctx[f].handle /\ r.abort = ctx[f].abort
          /\ r.ended <=> ctx[f].ended
          /\ UNCHANGED <<queue_ring, fetch_ring, held, late>>
      BY <1>1, <1>2, <1>3, <1>4, <1>6, <1>7 DEF Closing
    <2> QED BY ONLY <1>8, <2>1, TransferKeeps
  <1>10. TakenOut' = T /\ Closing' = T
    BY <1>1, <1>4 DEF TakenOut, Closing
  <1>11. Scalars' /\ Interlock' /\ Hand'
    BY <1>1, <1>2 DEF Scalars, Interlock, Hand, InHand, Callbacks
  <1> QED BY <1>9, <1>10, <1>11, Concludes

-----------------------------------------------------------------------------
(* fetch_curl_done. *)
\* What the verdict says of a completed fetch.
LEMMA Decided ==
    ASSUME IInv, pc = "results", NEW f \in Completed
    PROVE  /\ Typed /\ Scalars /\ Core({}, {}) /\ inside_curl
           /\ f \in Fetches /\ IsLive(ctx[f]) /\ Deferred(f) /\ ctx[f].handle
           /\ ctx[f].ended <=> VerdictOf(f) = "none"
           /\ ctx[f].ended /\ HeadersToLookAt(f) => ctx[f].result = "partial"
  <1>1. /\ Typed /\ Scalars /\ Core({}, {}) /\ inside_curl
        /\ f \in Fetches /\ IsLive(ctx[f]) /\ ctx[f].result # "none"
    BY DEF IInv, Going, TakenOut, Closing, Interlock, Completed, Live, IsLive
  <1>2. ctx[f].handle
    BY <1>1 DEF Core, Fated
  <1>3. /\ ctx[f].abort \/ ctx[f].stopped => ctx[f].ended
        /\ ctx[f].result = "write" => ctx[f].stopped
        /\ ctx[f].ended => ctx[f].abort \/ ctx[f].stopped
        /\ ctx[f].stopped => ctx[f].result \in {"none", "write"}
    BY <1>1 DEF Core, Fated
  <1>4. ctx[f].ended <=> VerdictOf(f) = "none"
    BY <1>1, <1>3 DEF VerdictOf
  <1>5. ctx[f].ended /\ HeadersToLookAt(f) => ctx[f].result = "partial"
    BY <1>1, <1>3 DEF HeadersToLookAt
  <1> QED BY <1>1, <1>2, <1>4, <1>5 DEF Deferred

LEMMA DoneKeeps ==
    ASSUME IInv, NEW f \in Fetches, fetch_curl_done(f)
    PROVE  IInv'
  <1> DEFINE c == [ctx EXCEPT ![f].had_headers = TRUE]
  <1>1. /\ pc = "results" /\ f \in Completed /\ cur' = f
        /\ UNCHANGED <<inside_curl, scheduled, badHandle>>
        /\ \/ /\ verdict' = VerdictOf(f) /\ pc' = "stop"
              /\ UNCHANGED <<queue_ring, fetch_ring, ctx, held, late>>
           \/ /\ \E kind \in {"ends", "moved"} : SendCallback(f, kind, c)
              /\ verdict' = "none" /\ pc' = "in_done"
           \/ NobodyToAbort(f) /\ verdict' = "none"
    BY DEF fetch_curl_done
  <1>2. /\ Typed /\ Scalars /\ Core({}, {}) /\ inside_curl
        /\ IsLive(ctx[f]) /\ Deferred(f) /\ ctx[f].handle
        /\ ctx[f].ended <=> VerdictOf(f) = "none"
    BY <1>1, Decided
  <1>3. Tells(c, {})
    BY <1>2, HeadersNoted
  <1> HIDE DEF c
  <1>4. TakenOut = {} /\ Closing = {}
    BY <1>1 DEF TakenOut, Closing
  <1>5. CASE /\ verdict' = VerdictOf(f) /\ pc' = "stop"
             /\ UNCHANGED <<queue_ring, fetch_ring, ctx, held, late>>
    <2>1. VerdictOf(f) \in {"none", "ends", "timedout"}
      BY DEF VerdictOf
    <2>2. Scalars' /\ Interlock' /\ Hand' /\ TakenOut' = TakenOut
      BY <1>1, <1>2, <1>4, <1>5, <2>1
         DEF Scalars, Interlock, Hand, InHand, Callbacks, TakenOut
    <2> QED BY <1>1, <1>4, <1>5, <2>2, MovesOn
  <1>6. CASE /\ \E kind \in {"ends", "moved"} : SendCallback(f, kind, c)
             /\ verdict' = "none" /\ pc' = "in_done"
    <2>1. PICK kind \in {"ends", "moved"} : SendCallback(f, kind, c)
      BY <1>6
    <2>2. PICK T, C : T = {} /\ C = {f}
      OBVIOUS
    <2>3. Core(T, C)
      <3>1. Core(T, T) /\ T \subseteq C
        BY <1>2, <2>2
      <3> QED BY <3>1, MoreClosing
    <2>4. /\ Core(T, C)' /\ IsLive(ctx'[f])
          /\ ctx'[f].handle = ctx[f].handle /\ ctx'[f].ended
      <3>1. /\ Core(T, C) /\ f \in Fetches /\ IsLive(ctx[f])
            /\ Tells(c, {}) /\ SendCallback(f, kind, c) /\ kind # "more"
            /\ kind # "more" => f \in C
            /\ kind = "moved" => T = {} /\ Deferred(f)
        BY <1>2, <1>3, <2>1, <2>2, <2>3
      <3> QED BY ONLY <3>1, SendKeeps
    <2>5. TakenOut' = T /\ Closing' = C
      BY <1>1, <1>6, <2>2 DEF TakenOut, Closing
    <2>6. Scalars' /\ Interlock' /\ Hand'
      BY <1>1, <1>2, <1>6, <2>4 DEF Scalars, Interlock, Hand, InHand, Callbacks
    <2> QED BY <2>4, <2>5, <2>6, Concludes
  <1>7. CASE NobodyToAbort(f) /\ verdict' = "none"
    <2>1. /\ pc' = "crashed" /\ late' = (late \/ ctx[f].ended)
          /\ UNCHANGED <<queue_ring, fetch_ring, ctx, held>>
      BY <1>7 DEF NobodyToAbort
    <2>2. Typed' /\ Rings' /\ Going'
      BY <1>2, <2>1 DEF Typed, Rings, Core, Going
    <2>3. Scalars' /\ Interlock'
      BY <1>1, <1>2, <1>7, <2>1 DEF Scalars, Interlock
    <2> QED BY <2>2, <2>3 DEF IInv
  <1> QED BY <1>1, <1>5, <1>6, <1>7

LEMMA StepsOn ==
    ASSUME IInv, HeadersDone \/ CertsReturn \/ PollReturns
    PROVE  IInv'
  <1>1. /\ \/ pc = "in_done" /\ pc' = "stop" /\ UNCHANGED <<inside_curl, scheduled>>
           \/ pc = "in_certs" /\ pc' = "last" /\ UNCHANGED <<inside_curl, scheduled>>
           \/ pc = "results" /\ pc' = "idle" /\ inside_curl' = FALSE /\ scheduled' = TRUE
        /\ UNCHANGED <<queue_ring, fetch_ring, ctx, held, cur, late, verdict, badHandle>>
    BY DEF HeadersDone, CertsReturn, PollReturns, unchangedByCurl
  <1>2. Scalars /\ Hand /\ Interlock
    BY <1>1 DEF IInv, Going
  <1>3. Scalars' /\ Interlock' /\ Hand'
    BY <1>1, <1>2 DEF Scalars, Interlock, Hand, InHand, Callbacks
  <1>4. TakenOut' = TakenOut /\ Closing \subseteq Closing'
    BY <1>1 DEF TakenOut, Closing
  <1> QED BY <1>1, <1>3, <1>4, MovesOn

LEMMA StopsKeeps ==
    ASSUME IInv, fetch_curl_stop
    PROVE  IInv'
  <1>1. /\ pc = "stop" /\ RemoveFromQueues(cur)
        /\ \/ pc' = "in_certs" /\ late' = (late \/ ctx[cur].ended)
           \/ pc' = "last" /\ late' = late
        /\ ctx' = [ctx EXCEPT ![cur].handle = FALSE, ![cur].sent_ssl_chain = TRUE]
        /\ UNCHANGED <<held, cur>>
        /\ UNCHANGED <<inside_curl, scheduled, verdict, badHandle>>
    BY DEF fetch_curl_stop, unchangedByCurl
  <1>2. PICK f : f = cur
    OBVIOUS
  <1>3. /\ Scalars /\ inside_curl /\ Hand
        /\ f \in Fetches /\ IsLive(ctx[f])
        /\ ctx[f].ended <=> verdict = "none"
    BY <1>1, <1>2 DEF IInv, Interlock, Going, Hand, InHand, Callbacks
  <1>4. /\ Typed /\ Rings /\ Placed({}) /\ Fated({}, {f}) /\ Holding /\ Watched
        /\ ctx \in [Fetches -> Contexts]
    BY <1>1, <1>2 DEF IInv, Going, TakenOut, Closing, Core, Typed
  <1>5. /\ queue_ring' \in Seq(Fetches) /\ fetch_ring' \subseteq Fetches
        /\ Rings'
        /\ fetch_ring' = fetch_ring \ {f}
        /\ Elems(queue_ring') = Elems(queue_ring) \ {f}
    <2>1. PICK T : T = {}
      OBVIOUS
    <2>2. f \in Fetches \ T /\ Placed(T) /\ RemoveFromQueues(f)
      BY <1>1, <1>2, <1>3, <1>4, <2>1
    <2> QED BY <1>3, <1>4, <2>2, RemoveFacts
  <1> DEFINE r == [ctx[f] EXCEPT !.handle = FALSE, !.sent_ssl_chain = TRUE]
  <1>6. ctx[f] \in Contexts
    BY <1>3, <1>4
  <1>7. /\ r \in Contexts
        /\ r.life = ctx[f].life /\ r.owner = ctx[f].owner
        /\ r.abort = ctx[f].abort /\ r.stopped = ctx[f].stopped
        /\ r.result = ctx[f].result /\ r.ended = ctx[f].ended
    BY <1>6 DEF Contexts
  <1>8. ctx' = [ctx EXCEPT ![f] = r]
    BY <1>1, <1>2
  <1> HIDE DEF r
  <1>9. /\ ctx' \in [Fetches -> Contexts] /\ ctx'[f] = r
        /\ \A h \in Fetches \ {f} : ctx'[h] = ctx[h]
    BY <1>3, <1>4, <1>7, <1>8
  <1>10. \A h \in Fetches :
           /\ ctx'[h].life = ctx[h].life /\ ctx'[h].owner = ctx[h].owner
           /\ ctx'[h].abort = ctx[h].abort /\ ctx'[h].stopped = ctx[h].stopped
           /\ ctx'[h].result = ctx[h].result
           /\ ctx'[h].ended <=> ctx[h].ended
    <2> TAKE h \in Fetches
    <2>1. CASE h = f
      BY <1>7, <1>9, <2>1
    <2>2. CASE h # f
      BY <1>9, <2>2
    <2> QED BY <2>1, <2>2
  <1>11. PICK T : T = {f}
    OBVIOUS
  <1>12. /\ late' \in BOOLEAN /\ (~late' => ~late)
    BY <1>1, <1>4 DEF Typed
  <1>13. Typed'
    BY <1>1, <1>4, <1>5, <1>9, <1>12 DEF Typed
  <1>14. Placed(T)'
    BY <1>4, <1>5, <1>9, <1>10, <1>11 DEF Placed, IsLive
  <1>15. Fated(T, T)'
    <2> SUFFICES ASSUME NEW h \in Fetches, IsLive(ctx'[h])
                 PROVE  /\ ctx'[h].owner \in Objects
                        /\ ctx'[h].abort \/ ctx'[h].stopped => ctx'[h].ended
                        /\ ctx'[h].result = "write" => ctx'[h].stopped
                        /\ ctx'[h].result # "none" => h \in T \/ ctx'[h].handle
                        /\ h \notin T =>
                             /\ ctx'[h].ended => ctx'[h].abort \/ ctx'[h].stopped
                             /\ ctx'[h].stopped => ctx'[h].result \in {"none", "write"}
      BY DEF Fated
    <2>1. IsLive(ctx[h])
      BY <1>10 DEF IsLive
    <2>2. h # f => ctx'[h].handle = ctx[h].handle
      BY <1>9
    <2> QED BY <1>4, <1>10, <1>11, <2>1, <2>2 DEF Fated
  <1>16. \A p \in Objects : held[p] # Null => held[p] \in Fetches
    BY <1>4 DEF Typed
  <1>17. Holding' /\ Watched'
    BY <1>1, <1>4, <1>10, <1>12, <1>16 DEF Holding, Watched, IsLive
  <1>18. Core(T, T)'
    BY <1>5, <1>13, <1>14, <1>15, <1>17 DEF Core
  <1>19. TakenOut' = T /\ Closing' = T
    BY <1>1, <1>2, <1>11 DEF TakenOut, Closing
  <1>20. IsLive(ctx'[f]) /\ (ctx'[f].ended <=> verdict = "none")
    BY <1>3, <1>10 DEF IsLive
  <1>21. Scalars' /\ Interlock' /\ Hand'
    BY <1>1, <1>2, <1>3, <1>20 DEF Scalars, Interlock, Hand, InHand, Callbacks
  <1> QED BY <1>18, <1>19, <1>21, Concludes

LEMMA LastKeeps ==
    ASSUME IInv, LastMessage
    PROVE  IInv'
  <1>1. /\ pc = "last" /\ verdict # "none" /\ SendCallback(cur, "ends", ctx)
        /\ pc' = "in_last" /\ cur' = cur
        /\ UNCHANGED <<inside_curl, scheduled, verdict, badHandle>>
    BY DEF LastMessage, unchangedByCurl
  <1>2. PICK f, T : f = cur /\ T = {cur}
    OBVIOUS
  <1>3. /\ Typed /\ Scalars /\ inside_curl /\ Core(T, T)
        /\ f \in Fetches /\ IsLive(ctx[f])
    BY <1>1, <1>2 DEF IInv, Interlock, Going, Hand, InHand, Callbacks,
                      TakenOut, Closing, Core
  <1>4. Tells(ctx, {})
    BY <1>3, NothingTold
  <1>5. PICK kind : kind = "ends"
    OBVIOUS
  <1>6. /\ Core(T, T)' /\ IsLive(ctx'[f]) /\ ctx'[f].ended
    <2>1. /\ Core(T, T) /\ f \in Fetches /\ IsLive(ctx[f]) /\ Tells(ctx, {})
          /\ SendCallback(f, kind, ctx) /\ kind # "more"
          /\ kind # "more" => f \in T
          /\ kind = "moved" => T = {} /\ Deferred(f)
      BY <1>1, <1>2, <1>3, <1>4, <1>5
    <2> QED BY ONLY <2>1, SendKeeps
  <1>7. TakenOut' = T /\ Closing' = T
    BY <1>1, <1>2 DEF TakenOut, Closing
  <1>8. Scalars' /\ Interlock' /\ Hand'
    BY <1>1, <1>2, <1>3, <1>6 DEF Scalars, Interlock, Hand, InHand, Callbacks
  <1> QED BY <1>6, <1>7, <1>8, Concludes

LEMMA RetryKeeps ==
    ASSUME IInv, Retry
    PROVE  IInv'
  <1> DEFINE c == [ctx EXCEPT ![cur].ended = TRUE]
  <1>1. /\ pc = "last" /\ verdict = "timedout" /\ late' = (late \/ ctx[cur].ended)
        /\ \/ /\ \E f \in Fetches : Start(ctx[cur].owner, f, c)
              /\ pc' = "in_last"
           \/ /\ pc' = "crashed"
              /\ UNCHANGED <<queue_ring, fetch_ring, ctx, held, scheduled, badHandle>>
        /\ UNCHANGED <<cur, inside_curl, verdict>>
    BY DEF Retry
  <1>2. PICK e, T : e = cur /\ T = {cur}
    OBVIOUS
  <1>3. /\ Typed /\ Scalars /\ Rings /\ inside_curl /\ Core(T, T)
        /\ e \in Fetches /\ IsLive(ctx[e]) /\ ~ctx[e].ended
        /\ late' \in BOOLEAN /\ (~late' => ~late)
    BY <1>1, <1>2 DEF IInv, Interlock, Going, Hand, InHand, Callbacks,
                      TakenOut, Closing, Core, Typed
  <1>4. Tells(c, T)
    <2> DEFINE r == [ctx[e] EXCEPT !.ended = TRUE]
    <2>1. ctx \in [Fetches -> Contexts] /\ ctx[e] \in Contexts
      BY <1>3 DEF Typed
    <2>2. r \in Contexts /\ Like(r, ctx[e]) /\ r.ended
      BY <2>1 DEF Contexts, Like
    <2>3. c = [ctx EXCEPT ![e] = r]
      BY <1>2
    <2> HIDE DEF r, c
    <2>4. \A h \in Fetches : Like(ctx[h], ctx[h])
      BY DEF Like
    <2>5. /\ c \in [Fetches -> Contexts] /\ c[e] = r
          /\ \A h \in Fetches \ {e} : c[h] = ctx[h]
      BY <1>3, <2>1, <2>2, <2>3
    <2>6. \A h \in Fetches : Like(c[h], ctx[h]) /\ (c[h].ended <=> ctx[h].ended \/ h \in T)
      <3> TAKE h \in Fetches
      <3>1. CASE h = e
        BY <1>2, <2>2, <2>5, <3>1
      <3>2. CASE h # e
        BY <1>2, <2>4, <2>5, <3>2
      <3> QED BY <3>1, <3>2
    <2> QED BY <2>5, <2>6 DEF Tells
  <1> HIDE DEF c
  <1>5. CASE /\ \E f \in Fetches : Start(ctx[cur].owner, f, c)
             /\ pc' = "in_last"
    <2>1. PICK f \in Fetches : Start(ctx[cur].owner, f, c)
      BY <1>5
    <2>2. ~IsLive(ctx[f]) /\ f \notin T
      BY <1>2, <1>3, <2>1 DEF Start, IsNext, IsLive
    <2>3. PICK o \in Objects : o = ctx[e].owner
      BY <1>3 DEF Core, Fated
    <2>4. ~late' => held[o] = Null \/ held[o] \in T
      BY <1>1, <1>2, <1>3, <2>3 DEF Core, Watched
    <2>5. /\ Core(T, T)'
          /\ \A h \in Fetches : IsLive(ctx[h]) =>
               /\ IsLive(ctx'[h]) /\ ctx'[h].result = ctx[h].result
               /\ ctx'[h].stopped = ctx[h].stopped
               /\ ctx'[h].ended <=> ctx[h].ended \/ h \in T
               /\ ctx[h].handle => ctx'[h].handle
      <3>1. /\ T \in SUBSET T /\ Core(T, T) /\ Tells(c, T)
            /\ \A h \in T : h \in Fetches /\ ctx[h].owner = o
            /\ ~IsLive(ctx[f]) /\ f \notin T /\ Start(o, f, c)
            /\ late' \in BOOLEAN /\ (~late' => ~late)
            /\ ~late' => held[o] = Null \/ held[o] \in T
        BY <1>2, <1>3, <1>4, <2>1, <2>2, <2>3, <2>4
      <3>2. o \in Objects /\ f \in Fetches
        OBVIOUS
      <3> QED BY ONLY <3>1, <3>2, StartKeeps
    <2>6. IsLive(ctx'[e]) /\ ctx'[e].ended
      BY <1>2, <1>3, <2>5
    <2>7. TakenOut' = T /\ Closing' = T
      BY <1>1, <1>2, <1>5 DEF TakenOut, Closing
    <2>8. badHandle' \in BOOLEAN /\ scheduled' \in BOOLEAN
      BY <1>3, <2>1 DEF Start, Dispatch, Scalars
    <2>9. Scalars' /\ Interlock' /\ Hand'
      BY <1>1, <1>2, <1>3, <1>5, <2>6, <2>8
         DEF Scalars, Interlock, Hand, InHand, Callbacks
    <2> QED BY <2>5, <2>7, <2>9, Concludes
  <1>6. CASE /\ pc' = "crashed"
             /\ UNCHANGED <<queue_ring, fetch_ring, ctx, held, scheduled, badHandle>>
    <2>1. Typed' /\ Rings' /\ Going'
      BY <1>3, <1>6 DEF Typed, Rings, Going
    <2>2. Scalars' /\ Interlock'
      BY <1>1, <1>3, <1>6 DEF Scalars, Interlock
    <2> QED BY <2>1, <2>2 DEF IInv
  <1> QED BY <1>1, <1>5, <1>6

\* By then the fetch has ended: no object holds it.
LEMMA FreeKeeps ==
    ASSUME IInv, fetch_free
    PROVE  IInv' /\ ctx[cur].ended
  <1>1. /\ (pc = "last" /\ verdict = "none") \/ pc = "in_last"
        /\ ctx' = [ctx EXCEPT ![cur] = Freed]
        /\ cur' = Null /\ verdict' = "none" /\ pc' = "results"
        /\ UNCHANGED <<queue_ring, fetch_ring, held, inside_curl, scheduled,
                       late, badHandle>>
    BY DEF fetch_free
  <1>2. PICK f : f = cur
    OBVIOUS
  <1>3. /\ Scalars /\ inside_curl
        /\ f \in Fetches /\ IsLive(ctx[f]) /\ ctx[f].ended
    BY <1>1, <1>2 DEF IInv, Interlock, Going, Hand, InHand, Callbacks
  <1>4. /\ Typed /\ Rings /\ Placed({f}) /\ Fated({f}, {f}) /\ Holding /\ Watched
        /\ ctx \in [Fetches -> Contexts]
    BY <1>1, <1>2 DEF IInv, Going, TakenOut, Closing, Core, Typed
  <1>5. Freed \in Contexts /\ ~IsLive(Freed)
    BY DEF Freed, Unborn, Contexts, IsLive
  <1>6. /\ ctx' \in [Fetches -> Contexts] /\ ~IsLive(ctx'[f])
        /\ \A h \in Fetches \ {f} : ctx'[h] = ctx[h]
    BY <1>1, <1>2, <1>3, <1>4, <1>5
  <1>7. PICK T : T = {}
    OBVIOUS
  <1>8. Typed' /\ Rings'
    BY <1>1, <1>4, <1>6 DEF Typed, Rings
  <1>9. Placed(T)'
    BY <1>1, <1>4, <1>6, <1>7 DEF Placed
  <1>10. Fated(T, T)'
    BY <1>4, <1>6, <1>7 DEF Fated
  <1>11. Holding'
    <2> SUFFICES ASSUME NEW p \in Objects, held[p] # Null
                 PROVE  /\ IsLive(ctx'[held[p]])
                        /\ ~ctx'[held[p]].ended /\ ctx'[held[p]].owner = p
      BY <1>1 DEF Holding
    <2>1. held[p] \in Fetches /\ IsLive(ctx[held[p]]) /\ ~ctx[held[p]].ended
          /\ ctx[held[p]].owner = p
      BY <1>4 DEF Holding, Typed
    <2>2. held[p] # f
      BY <1>3, <2>1
    <2> QED BY <1>6, <2>1, <2>2
  <1>12. Watched'
    BY <1>1, <1>4, <1>6 DEF Watched
  <1>13. Core(T, T)'
    BY <1>8, <1>9, <1>10, <1>11, <1>12 DEF Core
  <1>14. TakenOut' = T /\ Closing' = T
    BY <1>1, <1>7 DEF TakenOut, Closing
  <1>15. Scalars' /\ Interlock' /\ Hand'
    BY <1>1, <1>3 DEF Scalars, Interlock, Hand, InHand, Callbacks
  <1> QED BY <1>2, <1>3, <1>13, <1>14, <1>15, Concludes

-----------------------------------------------------------------------------
LEMMA NextInv == IInv /\ [Next]_vars => IInv'
  <1> SUFFICES ASSUME IInv, [Next]_vars PROVE IInv'
    OBVIOUS
  <1>1. CASE CacheNext
    BY <1>1, CacheStarts, CacheAborts DEF CacheNext
  <1>2. CASE fetcher_poll
    BY <1>2, PollKeeps
  <1>3. CASE CurlNext
    BY <1>3, HeaderKeeps, ProgressKeeps, DataKeeps, CompletesKeeps, PerformEnds
       DEF CurlNext
  <1>4. CASE CallbackReturns
    BY <1>4, HeaderReturnsKeeps, DataReturnsKeeps, StepsOn DEF CallbackReturns
  <1>5. CASE DoneNext
    BY <1>5, DoneKeeps, StopsKeeps, LastKeeps, RetryKeeps, FreeKeeps, StepsOn
       DEF DoneNext
  <1>6. CASE UNCHANGED vars
    <2>1. UNCHANGED <<queue_ring, fetch_ring, ctx, held, late>>
      BY <1>6 DEF vars
    <2>2. Typed' /\ Rings'
      BY <2>1 DEF IInv, Typed, Rings
    <2>3. TakenOut' = TakenOut /\ Closing' = Closing /\ Scalars' /\ Interlock'
      BY <1>6 DEF vars, TakenOut, Closing, Scalars, Interlock, IInv
    <2>4. CASE pc = "crashed"
      BY <1>6, <2>2, <2>3, <2>4 DEF vars, IInv, Going
    <2>5. CASE pc # "crashed"
      <3>1. Hand'
        BY <1>6, <2>5 DEF vars, IInv, Going, Hand
      <3> QED BY <2>1, <2>3, <2>5, <3>1, MovesOn
    <2> QED BY <2>4, <2>5
  <1> QED BY <1>1, <1>2, <1>3, <1>4, <1>5, <1>6 DEF Next

(* The inductive invariant of the fetches holds in every state.            *)
THEOREM InductiveInvariant == Spec => []IInv
  BY InitInv, NextInv, PTL DEF Spec

(* However the cache starts and aborts fetches from within curl's          *)
(* callbacks: the fetch in hand is there when its callback returns, each   *)
(* fetch is in the one ring its flag names, with a handle exactly if it    *)
(* was started, and the cache holds those that are going and no other      *)
(* (fetch_remove_from_queues, fetch_curl_abort, fetch_curl_done).          *)
THEOREM FetchesInStep == Spec => []FetchInv
  BY InductiveInvariant, InvImplies, PTL

\* A message is given only to a user that waits for it, but for those named.
LEMMA StepEndsOnce ==
    ASSUME IInv, [Next]_vars
    PROVE  [/\ pc \in {"last", "in_last"} /\ pc' = "results" => ctx[cur].ended
            /\ Given /\ ctx[cur'].ended =>
                   \/ pc' = "in_certs"
                   \/ pc' = "in_done" /\ ctx[cur'].result = "partial"]_vars
  <1> SUFFICES ASSUME Next
               PROVE  /\ pc \in {"last", "in_last"} /\ pc' = "results" => ctx[cur].ended
                      /\ Given /\ ctx[cur'].ended =>
                            \/ pc' = "in_certs"
                            \/ pc' = "in_done" /\ ctx[cur'].result = "partial"
    OBVIOUS
  <1>1. CASE CacheNext
    BY <1>1 DEF CacheNext, fetch_start, fetch_abort, Given, Callbacks
  <1>2. CASE fetcher_poll
    BY <1>2 DEF fetcher_poll, Given, Callbacks
  <1>3. CASE CurlNext
    <2>1. ASSUME NEW f \in Fetches, pc = "perform", f \in Transfers,
                 ~ctx[f].stopped, ~ctx[f].abort, cur' = f
          PROVE  ~ctx[cur'].ended
      BY <2>1, Performing
    <2>2. ASSUME NEW f \in Fetches, fetch_curl_header(f)
          PROVE  pc = "perform" /\ (Given => ~ctx[cur'].ended)
      <3>1. Given => ~ctx[f].abort
        BY <2>2 DEF fetch_curl_header, StopTransfer, Given
      <3> QED BY <2>1, <2>2, <3>1 DEF fetch_curl_header, StopTransfer, Given
    <2>3. ASSUME NEW f \in Fetches, fetch_curl_progress(f)
          PROVE  pc = "perform" /\ (Given => ~ctx[cur'].ended)
      BY <2>1, <2>3 DEF fetch_curl_progress
    <2>4. ASSUME NEW f \in Fetches, fetch_curl_data(f)
          PROVE  pc = "perform" /\ (Given => ~ctx[cur'].ended)
      <3>1. Given => ~ctx[f].abort
        BY <2>4 DEF fetch_curl_data, StopTransfer, Given
      <3> QED BY <2>1, <2>4, <3>1 DEF fetch_curl_data, StopTransfer, Given
    <2>5. ASSUME NEW f \in Fetches, Completes(f)
          PROVE  pc = "perform" /\ ~Given
      BY <2>5 DEF Completes, Given, Callbacks
    <2>6. ASSUME PerformFails \/ PerformReturns
          PROVE  pc = "perform" /\ ~Given
      BY <2>6 DEF PerformFails, PerformReturns, Given, Callbacks
    <2> QED BY <1>3, <2>2, <2>3, <2>4, <2>5, <2>6 DEF CurlNext
  <1>4. CASE CallbackReturns
    BY <1>4 DEF CallbackReturns, HeaderReturns, DataReturns, HeadersDone,
                CertsReturn, Given, Callbacks
  <1>5. CASE \E f \in Fetches : fetch_curl_done(f)
    <2>1. PICK f \in Fetches : fetch_curl_done(f)
      BY <1>5
    <2>2. pc = "results" /\ f \in Completed /\ cur' = f
      BY <2>1 DEF fetch_curl_done
    <2>3. Given => pc' = "in_done" /\ HeadersToLookAt(f)
      BY <2>1 DEF fetch_curl_done, NobodyToAbort, Given, Callbacks
    <2>4. ctx[f].ended /\ HeadersToLookAt(f) => ctx[f].result = "partial"
      BY <2>2, Decided
    <2> QED BY <2>2, <2>3, <2>4
  <1>6. CASE fetch_curl_stop
    BY <1>6 DEF fetch_curl_stop, Given, Callbacks
  <1>7. CASE LastMessage \/ Retry
    <2>1. pc = "last" /\ verdict # "none" /\ cur' = cur
          /\ pc' \in {"in_last", "crashed"}
      BY <1>7 DEF LastMessage, Retry
    <2>2. ~ctx[cur].ended
      BY <2>1 DEF IInv, Going, Hand
    <2> QED BY <2>1, <2>2
  <1>8. CASE fetch_free
    <2>1. ctx[cur].ended
      BY <1>8, FreeKeeps
    <2> QED BY <1>8, <2>1 DEF fetch_free, Given, Callbacks
  <1>9. CASE PollReturns
    BY <1>9 DEF PollReturns, Given, Callbacks
  <1> QED BY <1>1, <1>2, <1>3, <1>4, <1>5, <1>6, <1>7, <1>8, <1>9
          DEF Next, DoneNext

(* Every fetch ends once: it is freed only after its user was told of its  *)
(* end or has aborted it ("the fetcher did not finish"), and a user who    *)
(* has been told gets nothing more but certificates and what follows from  *)
(* the headers of a partial file (fetch_curl_done, fetch_curl_stop).       *)
THEOREM FetchEndsOnce == Spec => EndsOnce
  BY InductiveInvariant, StepEndsOnce, PTL DEF Spec, EndsOnce
=============================================================================
