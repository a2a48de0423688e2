---------------------------- MODULE LlCacheProofs ----------------------------
(***************************************************************************)
(* Theorems about LlCache for any number of clients, objects and URLs and  *)
(* whatever the clients do in their callbacks, with one attempt for each   *)
(* fetch (the default).  The invariants are consequences of IInv, below,   *)
(* which is inductive, and the last of them of Remembered, which is        *)
(* inductive with it.                                                      *)
(***************************************************************************)
EXTENDS LlCache, FiniteSetTheorems, SequenceTheorems, WellFoundedInduction,
        TLAPS

-----------------------------------------------------------------------------
(* Lists in which nothing is twice *)

\* Without takes the one element out, wherever it is.
LEMMA WithoutShape ==
    ASSUME NEW S, NEW q \in Seq(S), NEW x \in Range(q)
    PROVE  LET k == IndexOf(q, x)
               w == Without(q, x)
           IN  /\ k \in 1..Len(q) /\ q[k] = x
               /\ w \in Seq(S) /\ DOMAIN w = 1..(Len(q) - 1) /\ Len(w) = Len(q) - 1
               /\ \A m \in DOMAIN w : w[m] = IF m < k THEN q[m] ELSE q[m + 1]
  <1> DEFINE k == IndexOf(q, x)
             a == SubSeq(q, 1, k - 1)
             b == SubSeq(q, k + 1, Len(q))
             w == a \o b
  <1>1. k \in 1..Len(q) /\ q[k] = x /\ Len(q) \in Nat
    BY DEF IndexOf, Range
  <1>2. Without(q, x) = w
    BY DEF Without
  <1> HIDE DEF k
  <1>3. /\ a \in Seq(S) /\ Len(a) = k - 1
        /\ \A j \in 1..(k - 1) : a[j] = q[j]
    BY <1>1
  <1>4. /\ b \in Seq(S) /\ Len(b) = Len(q) - k
        /\ \A j \in 1..(Len(q) - k) : b[j] = q[j + k]
    BY <1>1
  <1> HIDE DEF a, b
  <1>5. /\ w \in Seq(S) /\ Len(w) = Len(a) + Len(b)
        /\ \A i \in 1..(Len(a) + Len(b)) :
              w[i] = IF i <= Len(a) THEN a[i] ELSE b[i - Len(a)]
    BY <1>3, <1>4, ConcatProperties
  <1> HIDE DEF w
  <1>6. DOMAIN w = 1..(Len(q) - 1) /\ DOMAIN q = 1..Len(q) /\ Len(w) = Len(q) - 1
    BY <1>1, <1>3, <1>4, <1>5
  <1>7. \A m \in DOMAIN w : w[m] = IF m < k THEN q[m] ELSE q[m + 1]
    <2> TAKE m \in DOMAIN w
    <2>1. w[m] = IF m <= k - 1 THEN a[m] ELSE b[m - (k - 1)]
      BY <1>3, <1>4, <1>5, <1>6, <1>1
    <2>2. CASE m < k
      BY <2>1, <2>2, <1>1, <1>3, <1>6
    <2>3. CASE ~(m < k)
      <3>1. m - (k - 1) \in 1..(Len(q) - k) /\ (m - (k - 1)) + k = m + 1
        BY <2>3, <1>1, <1>6
      <3>2. w[m] = b[m - (k - 1)]
        BY <2>1, <2>3, <1>1, <1>6
      <3> QED BY <3>1, <3>2, <1>4, <2>3
    <2> QED BY <2>2, <2>3
  <1> QED BY <1>1, <1>2, <1>5, <1>6, <1>7 DEF k

LEMMA WithoutFacts ==
    ASSUME NEW S, NEW q \in Seq(S), NEW x, IsInjective(q)
    PROVE  /\ Without(q, x) \in Seq(S)
           /\ IsInjective(Without(q, x))
           /\ Range(Without(q, x)) = Range(q) \ {x}
           /\ Len(Without(q, x)) <= Len(q)
  <1>1. CASE x \in Range(q)
    <2> DEFINE k == IndexOf(q, x)
               w == Without(q, x)
    <2>1. /\ k \in 1..Len(q) /\ q[k] = x /\ Len(q) \in Nat
          /\ w \in Seq(S) /\ DOMAIN w = 1..(Len(q) - 1) /\ Len(w) = Len(q) - 1
          /\ \A m \in DOMAIN w : w[m] = IF m < k THEN q[m] ELSE q[m + 1]
      BY <1>1, WithoutShape
    <2>2. DOMAIN q = 1..Len(q)
      OBVIOUS
    <2> HIDE DEF k, w
    <2>3. IsInjective(w)
      BY <2>1, <2>2 DEF IsInjective
    <2>4. \A m \in DOMAIN w : \E n \in DOMAIN q : n # k /\ w[m] = q[n]
      <3> TAKE m \in DOMAIN w
      <3>1. CASE m < k
        BY <3>1, <2>1, <2>2
      <3>2. CASE ~(m < k)
        <4>1. m + 1 \in DOMAIN q /\ m + 1 # k /\ w[m] = q[m + 1]
          BY <3>2, <2>1, <2>2
        <4> QED BY <4>1
      <3> QED BY <3>1, <3>2
    <2>5. ASSUME NEW n \in DOMAIN q, n # k
           PROVE  \E m \in DOMAIN w : w[m] = q[n]
      <3>1. CASE n < k
        BY <3>1, <2>1, <2>2
      <3>2. CASE n > k
        <4>1. n - 1 \in DOMAIN w /\ w[n - 1] = q[(n - 1) + 1] /\ (n - 1) + 1 = n
          BY <3>2, <2>1, <2>2
        <4> QED BY <4>1
      <3> QED BY <3>1, <3>2, <2>1, <2>2, <2>5
    <2>6. ASSUME NEW y PROVE y \in Range(w) <=> y \in Range(q) \ {x}
      <3>1. k \in DOMAIN q
        BY <2>1, <2>2
      <3> QED BY <3>1, <2>1, <2>4, <2>5 DEF Range, IsInjective
    <2>7. Range(w) = Range(q) \ {x}
      BY <2>6
    <2> QED BY <2>1, <2>3, <2>7 DEF w
  <1>2. CASE x \notin Range(q)
    <2>1. Without(q, x) = q
      BY <1>2 DEF Without
    <2> QED BY <1>2, <2>1
  <1> QED BY <1>1, <1>2

LEMMA PrependFacts ==
    ASSUME NEW S, NEW q \in Seq(S), NEW x \in S, IsInjective(q), x \notin Range(q)
    PROVE  /\ AtHead(x, q) \in Seq(S) /\ IsInjective(AtHead(x, q))
           /\ Range(AtHead(x, q)) = Range(q) \cup {x}
           /\ q = <<>> => Len(AtHead(x, q)) <= 1
  <1> DEFINE w == AtHead(x, q)
             a == <<x>>
  <1>1. a \in Seq(S) /\ Len(a) = 1 /\ a[1] = x
    OBVIOUS
  <1> HIDE DEF a
  <1>2. /\ a \o q \in Seq(S) /\ Len(a \o q) = Len(a) + Len(q)
        /\ \A i \in 1..(Len(a) + Len(q)) :
              (a \o q)[i] = IF i <= Len(a) THEN a[i] ELSE q[i - Len(a)]
    BY <1>1, ConcatProperties
  <1>3. w = a \o q
    BY DEF a, AtHead
  <1> HIDE DEF w
  <1>4. /\ Len(q) \in Nat /\ DOMAIN q = 1..Len(q) /\ Len(w) = Len(q) + 1
        /\ w \in Seq(S) /\ DOMAIN w = 1..(Len(q) + 1)
        /\ \A i \in DOMAIN w : w[i] = IF i = 1 THEN x ELSE q[i - 1]
    BY <1>1, <1>2, <1>3
  <1>5. IsInjective(w)
    BY <1>4 DEF IsInjective, Range
  <1>6. ASSUME NEW y PROVE y \in Range(w) <=> y \in Range(q) \cup {x}
    <2>1. 1 \in DOMAIN w /\ w[1] = x
      BY <1>4
    <2>2. ASSUME NEW i \in DOMAIN q PROVE i + 1 \in DOMAIN w /\ w[i + 1] = q[i]
      BY <1>4
    <2>3. ASSUME NEW i \in DOMAIN w, i # 1 PROVE i - 1 \in DOMAIN q /\ w[i] = q[i - 1]
      BY <1>4, <2>3
    <2> QED BY <2>1, <2>2, <2>3 DEF Range
  <1>7. Range(w) = Range(q) \cup {x}
    BY <1>6
  <1>8. q = <<>> => Len(w) <= 1
    BY <1>4
  <1> QED BY <1>4, <1>5, <1>7, <1>8 DEF w

\* One element is put in the place of another.
LEMMA ExchangeFacts ==
    ASSUME NEW S, NEW q \in Seq(S), NEW x, NEW y \in S, IsInjective(q),
           x \in Range(q), y \notin Range(q)
    PROVE  LET w == [i \in DOMAIN q |-> IF q[i] = x THEN y ELSE q[i]]
           IN  /\ w \in Seq(S) /\ IsInjective(w) /\ Len(w) = Len(q)
               /\ Range(w) = (Range(q) \ {x}) \cup {y}
  <1> DEFINE w == [i \in DOMAIN q |-> IF q[i] = x THEN y ELSE q[i]]
  <1>1. Len(q) \in Nat /\ DOMAIN q = 1..Len(q) /\ \A i \in DOMAIN q : q[i] \in S
    OBVIOUS
  <1>2. /\ DOMAIN w = DOMAIN q
        /\ \A i \in DOMAIN q : w[i] = IF q[i] = x THEN y ELSE q[i]
    OBVIOUS
  <1>3. w \in Seq(S) /\ Len(w) = Len(q)
    BY <1>1
  <1> HIDE DEF w
  <1>4. IsInjective(w)
    BY <1>1, <1>2 DEF IsInjective, Range
  <1>5. ASSUME NEW z PROVE z \in Range(w) <=> z \in (Range(q) \ {x}) \cup {y}
    BY <1>2 DEF Range
  <1>6. Range(w) = (Range(q) \ {x}) \cup {y}
    BY <1>5
  <1> QED BY <1>3, <1>4, <1>6 DEF w

\* The reverse of one list before another
LEMMA ReverseFacts ==
    ASSUME NEW S, NEW q \in Seq(S), NEW p \in Seq(S), IsInjective(q), IsInjective(p),
           Range(q) \cap Range(p) = {}
    PROVE  LET w == [i \in 1..Len(q) |-> q[Len(q) + 1 - i]] \o p
           IN  /\ w \in Seq(S) /\ IsInjective(w)
               /\ Range(w) = Range(q) \cup Range(p)
               /\ Len(w) = Len(q) + Len(p)
  <1> DEFINE r == [i \in 1..Len(q) |-> q[Len(q) + 1 - i]]
             w == r \o p
  <1>1. /\ Len(q) \in Nat /\ DOMAIN q = 1..Len(q)
        /\ Len(p) \in Nat /\ DOMAIN p = 1..Len(p)
    OBVIOUS
  <1>2. r \in Seq(S) /\ Len(r) = Len(q) /\ \A i \in 1..Len(q) : r[i] = q[Len(q) + 1 - i]
    <2>1. \A i \in 1..Len(q) : Len(q) + 1 - i \in 1..Len(q)
      BY <1>1
    <2>2. \A i \in 1..Len(q) : q[Len(q) + 1 - i] \in S
      BY <1>1, <2>1
    <2> QED BY <1>1, <2>2
  <1> HIDE DEF r
  <1>3. /\ w \in Seq(S) /\ Len(w) = Len(q) + Len(p) /\ DOMAIN w = 1..(Len(q) + Len(p))
        /\ \A i \in DOMAIN w : w[i] = IF i <= Len(q) THEN q[Len(q) + 1 - i]
                                      ELSE p[i - Len(q)]
    <2>1. /\ w \in Seq(S) /\ Len(w) = Len(r) + Len(p)
          /\ \A i \in 1..(Len(r) + Len(p)) :
                w[i] = IF i <= Len(r) THEN r[i] ELSE p[i - Len(r)]
      BY <1>2, ConcatProperties
    <2> HIDE DEF w
    <2>2. /\ w \in Seq(S) /\ Len(w) = Len(q) + Len(p)
          /\ DOMAIN w = 1..(Len(q) + Len(p))
      BY <1>1, <1>2, <2>1
    <2>3. ASSUME NEW i \in DOMAIN w
          PROVE  w[i] = IF i <= Len(q) THEN q[Len(q) + 1 - i] ELSE p[i - Len(q)]
      <3>1. w[i] = IF i <= Len(q) THEN r[i] ELSE p[i - Len(q)]
        BY <1>2, <2>1, <2>2
      <3>2. i <= Len(q) => r[i] = q[Len(q) + 1 - i]
        BY <1>1, <1>2, <2>2
      <3> QED BY <3>1, <3>2
    <2> QED BY <2>2, <2>3
  <1> HIDE DEF w
  <1>4. ASSUME NEW i \in DOMAIN w
        PROVE  \/ /\ i <= Len(q) /\ Len(q) + 1 - i \in DOMAIN q
                  /\ w[i] = q[Len(q) + 1 - i]
               \/ /\ i > Len(q) /\ i - Len(q) \in DOMAIN p
                  /\ w[i] = p[i - Len(q)]
    BY <1>1, <1>3
  <1>5. IsInjective(w)
    <2> SUFFICES ASSUME NEW i \in DOMAIN w, NEW j \in DOMAIN w, w[i] = w[j]
                 PROVE  i = j
      BY DEF IsInjective
    <2>0. i \in Nat /\ j \in Nat
      BY <1>1, <1>3
    <2>1. CASE i <= Len(q) /\ j <= Len(q)
      <3>1. Len(q) + 1 - i = Len(q) + 1 - j
        BY <1>4, <2>0, <2>1, <1>1 DEF IsInjective
      <3> QED BY <3>1, <1>1, <2>0
    <2>2. CASE i > Len(q) /\ j > Len(q)
      <3>1. i - Len(q) = j - Len(q)
        BY <1>4, <2>0, <2>2, <1>1 DEF IsInjective
      <3> QED BY <3>1, <1>1, <2>0
    <2>a. ASSUME NEW m \in DOMAIN w
          PROVE  /\ m <= Len(q) => w[m] \in Range(q)
                 /\ m > Len(q) => w[m] \in Range(p)
      BY <1>1, <1>3, <1>4 DEF Range
    <2>3. CASE i <= Len(q) /\ j > Len(q)
      BY <2>a, <2>3
    <2>4. CASE i > Len(q) /\ j <= Len(q)
      BY <2>a, <2>4
    <2>5. (i <= Len(q) \/ i > Len(q)) /\ (j <= Len(q) \/ j > Len(q))
      BY <1>1, <2>0
    <2> QED BY <2>1, <2>2, <2>3, <2>4, <2>5
  <1>6. ASSUME NEW y PROVE y \in Range(w) <=> y \in Range(q) \cup Range(p)
    <2>1. y \in Range(w) => y \in Range(q) \cup Range(p)
      BY <1>4 DEF Range
    <2>2. ASSUME NEW i \in DOMAIN q
          PROVE  Len(q) + 1 - i \in DOMAIN w /\ w[Len(q) + 1 - i] = q[i]
      <3>1. /\ Len(q) + 1 - i \in 1..Len(q)
            /\ Len(q) + 1 - (Len(q) + 1 - i) = i
        BY <1>1
      <3> QED BY <3>1, <1>1, <1>3
    <2>3. ASSUME NEW i \in DOMAIN p
          PROVE  i + Len(q) \in DOMAIN w /\ w[i + Len(q)] = p[i]
      <3>1. /\ i + Len(q) \in 1..(Len(q) + Len(p)) /\ i + Len(q) > Len(q)
            /\ (i + Len(q)) - Len(q) = i
        BY <1>1
      <3> QED BY <3>1, <1>1, <1>3
    <2> QED BY <2>1, <2>2, <2>3 DEF Range
  <1>7. Range(w) = Range(q) \cup Range(p)
    BY <1>6
  <1> QED BY <1>3, <1>5, <1>7 DEF w, r

LEMMA AppendFacts ==
    ASSUME NEW S, NEW q \in Seq(S), NEW x \in S, IsInjective(q), x \notin Range(q)
    PROVE  /\ Append(q, x) \in Seq(S) /\ IsInjective(Append(q, x))
           /\ Range(Append(q, x)) = Range(q) \cup {x}
  <1> DEFINE w == Append(q, x)
  <1>1. /\ w \in Seq(S) /\ Len(w) = Len(q) + 1
        /\ \A i \in 1..Len(q) : w[i] = q[i]
        /\ w[Len(q) + 1] = x
    BY AppendProperties
  <1> HIDE DEF w
  <1>2. /\ Len(q) \in Nat /\ DOMAIN q = 1..Len(q)
        /\ DOMAIN w = 1..(Len(q) + 1)
    BY <1>1
  <1>3. IsInjective(w)
    BY <1>1, <1>2 DEF IsInjective, Range
  <1>4. ASSUME NEW y PROVE y \in Range(w) <=> y \in Range(q) \cup {x}
    <2>1. Len(q) + 1 \in DOMAIN w /\ \A i \in DOMAIN q : i \in DOMAIN w
      BY <1>2
    <2>2. \A i \in DOMAIN w : i \in DOMAIN q \/ i = Len(q) + 1
      BY <1>2
    <2> QED BY <1>1, <1>2, <2>1, <2>2 DEF Range
  <1>5. Range(w) = Range(q) \cup {x}
    BY <1>4
  <1> QED BY <1>1, <1>3, <1>5 DEF w

\* Where the elements are
LEMMA IndexFacts ==
    ASSUME NEW S, NEW q \in Seq(S), IsInjective(q)
    PROVE  /\ \A x \in Range(q) : IndexOf(q, x) \in 1..Len(q) /\ q[IndexOf(q, x)] = x
           /\ \A i \in 1..Len(q) : IndexOf(q, q[i]) = i
  <1>1. DOMAIN q = 1..Len(q)
    OBVIOUS
  <1>2. ASSUME NEW x \in Range(q)
        PROVE  IndexOf(q, x) \in 1..Len(q) /\ q[IndexOf(q, x)] = x
    BY <1>1 DEF Range, IndexOf
  <1>3. ASSUME NEW i \in 1..Len(q) PROVE IndexOf(q, q[i]) = i
    <2>1. q[i] \in Range(q)
      BY <1>1 DEF Range
    <2> QED BY <1>1, <1>2, <2>1 DEF IsInjective
  <1> QED BY <1>2, <1>3

\* The elements of S are in w in the order they have in q.
KeepsOrder(q, w, S) ==
    \A x, y \in S : IndexOf(q, x) < IndexOf(q, y) => IndexOf(w, x) < IndexOf(w, y)

LEMMA WithoutOrder ==
    ASSUME NEW S, NEW q \in Seq(S), NEW x, IsInjective(q)
    PROVE  KeepsOrder(q, Without(q, x), Range(q) \ {x})
  <1>1. CASE x \in Range(q)
    <2> DEFINE k == IndexOf(q, x)
               w == Without(q, x)
    <2>1. /\ k \in 1..Len(q) /\ q[k] = x
          /\ w \in Seq(S) /\ DOMAIN w = 1..(Len(q) - 1) /\ Len(w) = Len(q) - 1
          /\ \A m \in DOMAIN w : w[m] = IF m < k THEN q[m] ELSE q[m + 1]
      BY <1>1, WithoutShape
    <2>2. IsInjective(w)
      BY WithoutFacts
    <2> HIDE DEF k, w
    <2>3. ASSUME NEW y \in Range(q) \ {x}
          PROVE  /\ IndexOf(q, y) \in Int
                 /\ \/ IndexOf(q, y) < k /\ IndexOf(w, y) = IndexOf(q, y)
                    \/ IndexOf(q, y) > k /\ IndexOf(w, y) = IndexOf(q, y) - 1
      <3>1. PICK i : i = IndexOf(q, y)
        OBVIOUS
      <3>2. i \in 1..Len(q) /\ q[i] = y /\ i # k /\ Len(q) \in Nat
        BY <2>1, <3>1, IndexFacts
      <3>3. \A j \in 1..Len(w) : IndexOf(w, w[j]) = j
        BY <2>1, <2>2, IndexFacts
      <3>4. CASE i < k
        <4>1. i \in 1..Len(w) /\ i \in DOMAIN w
          BY <2>1, <3>2, <3>4
        <4>2. w[i] = y
          BY <2>1, <3>2, <3>4, <4>1
        <4> QED BY <3>1, <3>2, <3>3, <3>4, <4>1, <4>2
      <3>5. CASE i > k
        <4>1. i - 1 \in 1..Len(w) /\ i - 1 \in DOMAIN w /\ ~(i - 1 < k) /\ (i - 1) + 1 = i
          BY <2>1, <3>2, <3>5
        <4>2. w[i - 1] = y
          BY <2>1, <3>2, <4>1
        <4> QED BY <3>1, <3>2, <3>3, <3>5, <4>1, <4>2
      <3> QED BY <2>1, <3>2, <3>4, <3>5
    <2>4. k \in Int
      BY <2>1
    <2> QED BY <2>3, <2>4 DEF KeepsOrder, w
  <1>2. CASE x \notin Range(q)
    BY <1>2 DEF Without, KeepsOrder
  <1> QED BY <1>1, <1>2

LEMMA PrependOrder ==
    ASSUME NEW S, NEW q \in Seq(S), NEW x \in S, IsInjective(q), x \notin Range(q)
    PROVE  /\ IndexOf(AtHead(x, q), x) = 1
           /\ \A y \in Range(q) : IndexOf(AtHead(x, q), y) = IndexOf(q, y) + 1
           /\ KeepsOrder(q, AtHead(x, q), Range(q))
  <1> DEFINE w == AtHead(x, q)
             a == <<x>>
  <1>1. a \in Seq(S) /\ Len(a) = 1 /\ a[1] = x
    OBVIOUS
  <1> HIDE DEF a
  <1>2. /\ a \o q \in Seq(S) /\ Len(a \o q) = Len(a) + Len(q)
        /\ \A i \in 1..(Len(a) + Len(q)) :
              (a \o q)[i] = IF i <= Len(a) THEN a[i] ELSE q[i - Len(a)]
    BY <1>1, ConcatProperties
  <1>3. w = a \o q /\ IsInjective(w)
    BY PrependFacts DEF a, AtHead
  <1> HIDE DEF w
  <1>4. /\ Len(q) \in Nat /\ Len(w) = Len(q) + 1 /\ w \in Seq(S)
        /\ \A i \in 1..Len(w) : w[i] = IF i = 1 THEN x ELSE q[i - 1]
    BY <1>1, <1>2, <1>3
  <1>5. \A j \in 1..Len(w) : IndexOf(w, w[j]) = j
    BY <1>3, <1>4, IndexFacts
  <1>6. IndexOf(w, x) = 1
    <2>1. 1 \in 1..Len(w) /\ w[1] = x
      BY <1>4
    <2> QED BY <1>5, <2>1
  <1>7. ASSUME NEW y \in Range(q)
        PROVE  IndexOf(q, y) \in Int /\ IndexOf(w, y) = IndexOf(q, y) + 1
    <2>1. PICK i : i = IndexOf(q, y)
      OBVIOUS
    <2>2. i \in 1..Len(q) /\ q[i] = y
      BY <2>1, IndexFacts
    <2>3. i + 1 \in 1..Len(w) /\ (i + 1) - 1 = i /\ i + 1 # 1
      BY <1>4, <2>2
    <2>4. w[i + 1] = y
      BY <1>4, <2>2, <2>3
    <2> QED BY <1>5, <2>1, <2>2, <2>3, <2>4
  <1>8. KeepsOrder(q, w, Range(q))
    BY <1>7 DEF KeepsOrder
  <1> QED BY <1>6, <1>7, <1>8 DEF w

\* w is q, with y in the place of x.
InPlaceOf(y, x, w, q) ==
    /\ IndexOf(w, y) = IndexOf(q, x)
    /\ \A z \in Range(q) \ {x} : IndexOf(w, z) = IndexOf(q, z)
    /\ Range(w) = (Range(q) \ {x}) \cup {y}

LEMMA ExchangeOrder ==
    ASSUME NEW S, NEW q \in Seq(S), NEW x \in Range(q), NEW y \in S, IsInjective(q),
           y \notin Range(q)
    PROVE  InPlaceOf(y, x, [i \in DOMAIN q |-> IF q[i] = x THEN y ELSE q[i]], q)
  <1> DEFINE w == [i \in DOMAIN q |-> IF q[i] = x THEN y ELSE q[i]]
  <1>1. Len(q) \in Nat /\ DOMAIN q = 1..Len(q)
    OBVIOUS
  <1>2. \A i \in 1..Len(q) : w[i] = IF q[i] = x THEN y ELSE q[i]
    BY <1>1
  <1>3. /\ w \in Seq(S) /\ IsInjective(w) /\ Len(w) = Len(q)
        /\ Range(w) = (Range(q) \ {x}) \cup {y}
    BY ExchangeFacts
  <1> HIDE DEF w
  <1>4. \A j \in 1..Len(q) : IndexOf(w, w[j]) = j
    BY <1>3, IndexFacts
  <1>5. \A z \in Range(q) : IndexOf(q, z) \in 1..Len(q) /\ q[IndexOf(q, z)] = z
    BY IndexFacts
  <1>6. IndexOf(w, y) = IndexOf(q, x)
    BY <1>2, <1>4, <1>5
  <1>7. \A z \in Range(q) \ {x} : IndexOf(w, z) = IndexOf(q, z)
    BY <1>2, <1>4, <1>5
  <1> QED BY <1>3, <1>6, <1>7 DEF w, InPlaceOf

\* A set of numbers has a least one.
LEMMA Least ==
    ASSUME NEW T \in SUBSET Nat, T # {}
    PROVE  \E s \in T : \A t \in T : s <= t
  <1> DEFINE less == {p \in Nat \X Nat : p[1] < p[2]}
  <1>1. IsWellFoundedOn(less, Nat)
    BY NatLessThanWellFounded, Zenon DEF OpToRel
  <1>2. PICK s \in T : \A t \in T : <<t, s>> \notin less
    BY <1>1, WFMin
  <1>3. ASSUME NEW t \in T PROVE s <= t
    <2>1. s \in Nat /\ t \in Nat
      BY <1>2
    <2>2. t < s => <<t, s>> \in less
      BY <2>1
    <2> QED BY <2>1, <2>2, <1>2
  <1> QED BY <1>3

\* The walk of llcache_clean, by recursion: there is such a function.
LEMMA PurgedWalk ==
    ASSUME NEW q, Len(q) \in Nat, NEW X
    PROVE  \E left : /\ Purged(q, X) = left[Len(q)]
                     /\ left[0] = <<>>
                     /\ \A n \in 1..Len(q) :
                          left[n] = IF q[n] \in X THEN left[n - 1]
                                    ELSE Append(left[n - 1], q[n])
  <1> DEFINE L == Len(q)
             Turn(t, n) == IF q[n] \in X THEN t ELSE Append(t, q[n])
             Solves(g, n) == g = [m \in 0..n |-> IF m = 0 THEN <<>>
                                                 ELSE Turn(g[m - 1], m)]
             Stuck == {n \in 0..L : ~\E g : Solves(g, n)}
             f == CHOOSE g : Solves(g, L)
  <1>0. L \in Nat
    OBVIOUS
  <1>1. Purged(q, X) = f[L]
    BY DEF Purged
  <1> HIDE DEF Turn, L
  <1>2. Stuck = {}
    <2> SUFFICES ASSUME Stuck # {} PROVE FALSE
      OBVIOUS
    <2>1. Stuck \in SUBSET Nat
      OBVIOUS
    <2>2. PICK b \in Stuck : \A n \in Stuck : b <= n
      BY <2>1, Least
    <2>3. CASE b = 0
      <3> DEFINE g == [m \in 0..0 |-> <<>>]
      <3>1. Solves(g, 0)
        OBVIOUS
      <3> QED BY <3>1, <2>2, <2>3
    <2>4. CASE b # 0
      <3>1. b \in Nat /\ b - 1 \in 0..L /\ b - 1 \notin Stuck
        <4> HIDE DEF Solves
        <4>1. b \in 0..L /\ b \in Stuck /\ \A n \in Stuck : b <= n
          BY <2>2
        <4> HIDE DEF Stuck
        <4>2. b \in Nat /\ b - 1 \in 0..L
          BY <1>0, <4>1, <2>4
        <4> QED BY <4>1, <4>2
      <3>2. PICK g : Solves(g, b - 1)
        BY <3>1
      <3> DEFINE h == [m \in 0..b |-> IF m = b THEN Turn(g[b - 1], b) ELSE g[m]]
      <3>3. \A m \in 0..b : h[m] = IF m = 0 THEN <<>> ELSE Turn(h[m - 1], m)
        <4> TAKE m \in 0..b
        <4>1. CASE m = b
          BY <4>1, <3>1, <2>4
        <4>2. CASE m # b
          <5>1. m \in 0..(b - 1) /\ h[m] = g[m]
            BY <4>2, <3>1
          <5>2. m # 0 => h[m - 1] = g[m - 1]
            BY <4>2, <3>1
          <5>3. g[m] = IF m = 0 THEN <<>> ELSE Turn(g[m - 1], m)
            BY <5>1, <3>2
          <5> QED BY <5>1, <5>2, <5>3
        <4> QED BY <4>1, <4>2
      <3>4. h = [m \in 0..b |-> h[m]]
        OBVIOUS
      <3> HIDE DEF h
      <3>5. Solves(h, b)
        BY <3>3, <3>4
      <3> QED BY <3>5, <2>2
    <2> QED BY <2>3, <2>4
  <1>3. \E g : Solves(g, L)
    BY <1>0, <1>2
  <1>4. Solves(f, L)
    BY <1>3
  <1>5. \A m \in 0..L : f[m] = IF m = 0 THEN <<>> ELSE Turn(f[m - 1], m)
    BY <1>4
  <1> HIDE DEF f
  <1>6. f[0] = <<>> /\ \A n \in 1..L : f[n] = Turn(f[n - 1], n)
    BY <1>0, <1>5
  <1> QED BY <1>1, <1>6 DEF Turn, L

LEMMA PurgedFacts ==
    ASSUME NEW S, NEW q \in Seq(S), NEW X, IsInjective(q)
    PROVE  /\ Purged(q, X) \in Seq(S) /\ IsInjective(Purged(q, X))
           /\ Range(Purged(q, X)) = Range(q) \ X
  <1>0. Len(q) \in Nat /\ DOMAIN q = 1..Len(q) /\ \A i \in DOMAIN q : q[i] \in S
    OBVIOUS
  <1>1. PICK left : /\ Purged(q, X) = left[Len(q)]
                    /\ left[0] = <<>>
                    /\ \A n \in 1..Len(q) :
                          left[n] = IF q[n] \in X THEN left[n - 1]
                                    ELSE Append(left[n - 1], q[n])
    BY <1>0, PurgedWalk
  <1> DEFINE Upto(n) == {q[i] : i \in 1..n}
             Good(n) == /\ left[n] \in Seq(S) /\ IsInjective(left[n])
                        /\ Range(left[n]) = Upto(n) \ X
             Bad == {n \in 0..Len(q) : ~Good(n)}
  <1>2. Good(0)
    <2>1. <<>> \in Seq(S) /\ IsInjective(<<>>) /\ Range(<<>>) = {}
      BY DEF IsInjective, Range
    <2>2. Upto(0) = {}
      OBVIOUS
    <2> QED BY <1>1, <2>1, <2>2
  <1>3. ASSUME NEW n \in 1..Len(q), Good(n - 1) PROVE Good(n)
    <2>1. Upto(n) = Upto(n - 1) \cup {q[n]}
      <3>1. 1..n = 1..(n - 1) \cup {n}
        BY <1>0
      <3> QED BY <3>1
    <2>2. q[n] \in S /\ q[n] \notin Upto(n - 1)
      BY <1>0 DEF IsInjective
    <2> HIDE DEF Upto
    <2>3. CASE q[n] \in X
      BY <1>1, <1>3, <2>1, <2>3
    <2>4. CASE q[n] \notin X
      <3>1. left[n] = Append(left[n - 1], q[n])
        BY <1>1, <2>4
      <3>2. q[n] \notin Range(left[n - 1])
        BY <1>3, <2>2
      <3>3. /\ left[n] \in Seq(S) /\ IsInjective(left[n])
            /\ Range(left[n]) = Range(left[n - 1]) \cup {q[n]}
        BY <1>3, <2>2, <3>1, <3>2, AppendFacts
      <3> QED BY <1>3, <2>1, <2>4, <3>3
    <2> QED BY <2>3, <2>4
  <1> HIDE DEF Good
  <1>4. Bad = {}
    <2> SUFFICES ASSUME Bad # {} PROVE FALSE
      OBVIOUS
    <2>1. Bad \in SUBSET Nat
      OBVIOUS
    <2>2. PICK b \in Bad : \A n \in Bad : b <= n
      BY <2>1, Least
    <2>3. b \in 1..Len(q) /\ b - 1 \in 0..Len(q)
      BY <1>0, <1>2, <2>2
    <2>4. b - 1 \notin Bad
      BY <2>1, <2>2
    <2> QED BY <1>3, <2>2, <2>3, <2>4
  <1>5. Good(Len(q))
    <2>1. Len(q) \in 0..Len(q)
      BY <1>0
    <2> QED BY <1>4, <2>1
  <1>6. Upto(Len(q)) = Range(q)
    BY <1>0 DEF Range
  <1> QED BY <1>1, <1>5, <1>6 DEF Good

-----------------------------------------------------------------------------
(* The inductive invariant: the lists; the objects and users, in which C   *)
(* are the objects kept and N those that are not, h is what they are and   *)
(* us what the users were told; and the walk w.                            *)
Object == [url : Urls \cup {None}, users : Seq(Users \cup {Tomb}),
           state : INIT..COMPLETE, fetch : BOOLEAN, len : 0..MaxLen,
           candidate : Objects \cup {None}, count : Nat,
           cache : {"void", "live", "stale", "always"}, cond : BOOLEAN,
           forced : BOOLEAN, stream : BOOLEAN, redirects : 0..RedirectLimit + 1,
           retries : 0..FetchAttempts, short : BOOLEAN, lent : BOOLEAN]

User == [state : INIT..COMPLETE, bytes : 0..MaxLen, asked : BOOLEAN]

TwoLists(c, n) == /\ c \in Seq(Objects) /\ IsInjective(c)
                  /\ n \in Seq(Objects) /\ IsInjective(n)
                  /\ Range(c) \cap Range(n) = {}

Typed(C, N, h, us) == /\ C \in SUBSET Objects /\ N \in SUBSET Objects
                      /\ IsFiniteSet(C \cup N)
                      /\ h \in [Objects -> Object] /\ us \in [Users -> User]

(* An object of the cache, kept in the list of those that others may use.  *)
(* A stream is not kept; it has one user, unless it was kept when it was   *)
(* another's candidate.  What was cut short is used by nobody else.        *)
Sound(r, kept) ==
    /\ r.url \in Urls
    /\ r.fetch <=> r.state # COMPLETE
    /\ kept => ~r.stream /\ ~r.forced
    /\ r.lent => ~r.forced
    /\ r.stream /\ ~r.forced => r.state >= DATA
    /\ r.stream /\ ~r.lent => Len(r.users) <= 1
    /\ r.short /\ ~r.lent => r.state = COMPLETE /\ r.cache = "void"

Sounds(C, N, h) ==
    \A o \in Objects : IF o \in C \cup N THEN Sound(h[o], o \in C)
                       ELSE h[o] = NoObject

\* A handle is at one object, once.
Handed(h) ==
    /\ \A o \in Objects : IsInjective(h[o].users)
    /\ \A o, p \in Objects, u \in Users :
          u \in Range(h[o].users) /\ u \in Range(h[p].users) => o = p

\* The objects of A that rely on c
RelyOn(A, h, c) == {o \in A : h[o].candidate = c}

Relied(A, h) ==
    \A c \in Objects : RelyOn(A, h, c) # {} =>
        /\ c \in A /\ c \notin RelyOn(A, h, c) /\ ~h[c].forced
        /\ h[c].count >= Cardinality(RelyOn(A, h, c))

\* What the user r has been told by its object b
Told(r, b) ==
    /\ r.state >= DATA => b.state >= DATA
    /\ r.state < DATA => r.bytes = 0
    /\ b.stream \/ r.bytes <= b.len \/ (b.lent /\ ~r.asked)
    /\ r.asked /\ b.short => b.lent
    /\ r.asked /\ r.state = COMPLETE =>
          b.state = COMPLETE /\ (b.stream \/ r.bytes = b.len)

Informed(h, us) ==
    \A o \in Objects, u \in Users : u \in Range(h[o].users) => Told(us[u], h[o])

Base(C, N, h, us) == /\ Typed(C, N, h, us) /\ Sounds(C, N, h) /\ Handed(h)
                     /\ Relied(C \cup N, h) /\ Informed(h, us)

-----------------------------------------------------------------------------
(* What keeps Base *)

\* An object changes; with it, its users.
LEMMA Replace ==
    ASSUME NEW C, NEW N, NEW h, NEW us, Base(C, N, h, us), NEW o \in C \cup N,
           NEW r \in Object, Sound(r, o \in C), IsInjective(r.users),
           r.candidate = h[o].candidate, r.count = h[o].count,
           r.forced = h[o].forced,
           \A u \in Users : u \in Range(r.users) =>
              /\ Told(us[u], r)
              /\ \A p \in Objects : p # o => u \notin Range(h[p].users)
    PROVE  Base(C, N, [h EXCEPT ![o] = r], us)
  <1> DEFINE g == [h EXCEPT ![o] = r]
             A == C \cup N
  <1>0. /\ Typed(C, N, h, us) /\ Sounds(C, N, h) /\ Handed(h)
        /\ Relied(A, h) /\ Informed(h, us)
    BY DEF Base
  <1>1. o \in Objects /\ A \subseteq Objects
    BY <1>0 DEF Typed
  <1>2. /\ g \in [Objects -> Object] /\ g[o] = r
        /\ \A p \in Objects : p # o => g[p] = h[p]
    BY <1>0, <1>1 DEF Typed
  <1> HIDE DEF g
  <1>3. Typed(C, N, g, us)
    BY <1>0, <1>2 DEF Typed
  <1>4. Sounds(C, N, g)
    BY <1>0, <1>1, <1>2 DEF Sounds
  <1>5. Handed(g)
    <2>1. \A p \in Objects : IsInjective(g[p].users)
      BY <1>0, <1>2 DEF Handed
    <2>2. ASSUME NEW p \in Objects, NEW q \in Objects, NEW u \in Users,
                 u \in Range(g[p].users), u \in Range(g[q].users)
          PROVE  p = q
      BY <1>0, <1>2, <2>2 DEF Handed
    <2> QED BY <2>1, <2>2 DEF Handed
  <1>6. Relied(A, g)
    <2>1. \A p \in A : g[p].candidate = h[p].candidate
      BY <1>1, <1>2
    <2>2. \A c : RelyOn(A, g, c) = RelyOn(A, h, c)
      BY <2>1 DEF RelyOn
    <2>3. \A c \in Objects : g[c].forced = h[c].forced /\ g[c].count = h[c].count
      BY <1>2
    <2> QED BY <1>0, <2>2, <2>3 DEF Relied
  <1>7. Informed(g, us)
    BY <1>0, <1>2 DEF Informed
  <1> QED BY <1>3, <1>4, <1>5, <1>6, <1>7 DEF Base, g

\* A user is told something.
LEMMA Tell ==
    ASSUME NEW C, NEW N, NEW h, NEW us, Base(C, N, h, us), NEW u \in Users,
           NEW r \in User,
           \A o \in Objects : u \in Range(h[o].users) => Told(r, h[o])
    PROVE  Base(C, N, h, [us EXCEPT ![u] = r])
  <1> DEFINE vs == [us EXCEPT ![u] = r]
  <1>0. /\ Typed(C, N, h, us) /\ Sounds(C, N, h) /\ Handed(h)
        /\ Relied(C \cup N, h) /\ Informed(h, us)
    BY DEF Base
  <1>1. /\ vs \in [Users -> User] /\ vs[u] = r
        /\ \A v \in Users : v # u => vs[v] = us[v]
    BY <1>0 DEF Typed
  <1> HIDE DEF vs
  <1>2. Typed(C, N, h, vs)
    BY <1>0, <1>1 DEF Typed
  <1>3. Informed(h, vs)
    BY <1>0, <1>1 DEF Informed
  <1> QED BY <1>0, <1>2, <1>3 DEF Base, vs

\* An object is not to be used by others any more.
LEMMA MoveOut ==
    ASSUME NEW C, NEW N, NEW h, NEW us, Base(C, N, h, us), NEW o \in C
    PROVE  Base(C \ {o}, N \cup {o}, h, us)
  <1>0. /\ Typed(C, N, h, us) /\ Sounds(C, N, h) /\ Handed(h)
        /\ Relied(C \cup N, h) /\ Informed(h, us)
    BY DEF Base
  <1>1. (C \ {o}) \cup (N \cup {o}) = C \cup N
    OBVIOUS
  <1>2. Typed(C \ {o}, N \cup {o}, h, us)
    BY <1>0, <1>1 DEF Typed
  <1>3. Sounds(C \ {o}, N \cup {o}, h)
    <2> SUFFICES ASSUME NEW p \in Objects
                 PROVE  IF p \in C \cup N THEN Sound(h[p], p \in C \ {o})
                        ELSE h[p] = NoObject
      BY <1>1 DEF Sounds
    <2>1. IF p \in C \cup N THEN Sound(h[p], p \in C) ELSE h[p] = NoObject
      BY <1>0 DEF Sounds
    <2> QED BY <2>1 DEF Sound
  <1> QED BY <1>0, <1>1, <1>2, <1>3 DEF Base

\* Candidates apart, an object is what it was.
Alike(r, b) ==
    /\ r.url = b.url /\ r.users = b.users /\ r.state = b.state /\ r.fetch = b.fetch
    /\ r.len = b.len /\ r.cache = b.cache /\ (r.forced <=> b.forced)
    /\ (r.stream <=> b.stream) /\ r.redirects = b.redirects /\ r.retries = b.retries
    /\ (r.short <=> b.short) /\ (r.lent <=> b.lent)

LEMMA AlikeIsAsGood ==
    ASSUME NEW C, NEW N, NEW h, NEW us, NEW g, Sounds(C, N, h), Handed(h),
           Informed(h, us), \A p \in C \cup N : Alike(g[p], h[p]),
           \A p \in Objects \ (C \cup N) : g[p] = h[p]
    PROVE  Sounds(C, N, g) /\ Handed(g) /\ Informed(g, us)
  <1>1. \A p \in Objects : g[p].users = h[p].users
    BY DEF Alike
  <1>2. Sounds(C, N, g)
    BY DEF Sounds, Sound, Alike
  <1>3. Handed(g)
    BY <1>1 DEF Handed
  <1>4. Informed(g, us)
    <2> SUFFICES ASSUME NEW o \in Objects, NEW u \in Users, u \in Range(g[o].users)
                 PROVE  Told(us[u], g[o])
      BY DEF Informed
    <2>1. Told(us[u], h[o])
      BY <1>1 DEF Informed
    <2> QED BY <2>1 DEF Told, Alike
  <1> QED BY <1>2, <1>3, <1>4

\* An object gives up its candidate.
LEMMA Relinquish ==
    ASSUME NEW C, NEW N, NEW h, NEW us, Base(C, N, h, us), NEW o \in C \cup N
    PROVE  LET g == WithoutCandidate(h, o)
           IN  /\ Base(C, N, g, us)
               /\ \A p \in Objects : Alike(g[p], h[p])
               /\ g[o].candidate = None
  <1> DEFINE c == h[o].candidate
             A == C \cup N
             g == WithoutCandidate(h, o)
  <1>0. /\ Typed(C, N, h, us) /\ Sounds(C, N, h) /\ Handed(h)
        /\ Relied(A, h) /\ Informed(h, us)
    BY DEF Base
  <1>1. /\ o \in Objects /\ A \subseteq Objects /\ h[o] \in Object
        /\ IsFiniteSet(A) /\ h \in [Objects -> Object]
    BY <1>0 DEF Typed
  <1>2. CASE c = None
    <2>1. g = h
      BY <1>2 DEF WithoutCandidate
    <2> QED BY <1>2, <2>1 DEF Alike, g
  <1>3. CASE c # None
    <2>1. c \in Objects /\ o \in RelyOn(A, h, c)
      BY <1>1, <1>3 DEF Object, RelyOn
    <2>2. c \in A /\ c # o /\ ~h[c].forced /\ h[c].count >= Cardinality(RelyOn(A, h, c))
      BY <1>0, <2>1 DEF Relied
    <2>3. IsFiniteSet(RelyOn(A, h, c))
      BY <1>1, FS_Subset DEF RelyOn
    <2>4. /\ Cardinality(RelyOn(A, h, c)) \in Nat
          /\ Cardinality(RelyOn(A, h, c) \ {o}) = Cardinality(RelyOn(A, h, c)) - 1
          /\ Cardinality(RelyOn(A, h, c) \ {o}) \in Nat
      BY <2>1, <2>3, FS_RemoveElement, FS_CardinalityType
    <2>5. h[c].count \in Nat /\ h[c].count - 1 \in Nat
      <3>1. h[c].count \in Nat
        BY <1>1, <2>1 DEF Object
      <3> QED BY <3>1, <2>2, <2>4
    <2>6. g = [h EXCEPT ![c].count = @ - 1,
                        ![o] = [@ EXCEPT !.candidate = None, !.cond = FALSE]]
      BY <1>3 DEF WithoutCandidate
    <2> HIDE DEF g, c
    <2>7. /\ g[o] = [h[o] EXCEPT !.candidate = None, !.cond = FALSE]
          /\ g[c] = [h[c] EXCEPT !.count = @ - 1]
          /\ \A p \in Objects : p # o /\ p # c => g[p] = h[p]
          /\ g = [p \in Objects |-> g[p]]
      BY <1>1, <2>1, <2>2, <2>6
    <2>8. g[o] \in Object /\ g[c] \in Object
      <3>1. h[c] \in Object
        BY <1>1, <2>1
      <3>2. [h[c] EXCEPT !.count = @ - 1] \in Object
        BY <2>5, <3>1 DEF Object
      <3>3. [h[o] EXCEPT !.candidate = None, !.cond = FALSE] \in Object
        BY <1>1 DEF Object
      <3> QED BY <2>7, <3>2, <3>3
    <2>9. \A p \in Objects : g[p] \in Object
      BY <1>1, <2>7, <2>8
    <2>10. g \in [Objects -> Object]
      BY <2>7, <2>9
    <2>11. Typed(C, N, g, us)
      BY <1>0, <2>10 DEF Typed
    <2>12. \A p \in Objects : Alike(g[p], h[p])
      <3>1. Alike(g[o], h[o]) /\ Alike(g[c], h[c])
        BY <1>1, <2>1, <2>7 DEF Alike, Object
      <3>2. \A p \in Objects : p # o /\ p # c => Alike(g[p], h[p])
        BY <2>7 DEF Alike
      <3> QED BY <3>1, <3>2
    <2>13. \A p \in Objects \ A : g[p] = h[p]
      BY <2>2, <2>7
    <2>14. Sounds(C, N, g) /\ Handed(g) /\ Informed(g, us)
      BY <1>0, <1>1, <2>12, <2>13, AlikeIsAsGood
    <2>15. g[o].candidate = None
      BY <1>1, <2>7 DEF Object
    <2>16. Relied(A, g)
      <3>1. \A p \in Objects : /\ p # o => g[p].candidate = h[p].candidate
                               /\ p # c => g[p].count = h[p].count
                               /\ g[p].forced <=> h[p].forced
        <4>1. g[c].candidate = h[c].candidate /\ g[o].count = h[o].count
          BY <1>1, <2>1, <2>7 DEF Object
        <4> QED BY <4>1, <2>7, <2>12 DEF Alike
      <3>2. g[c].count = h[c].count - 1
        BY <1>1, <2>1, <2>7 DEF Object
      <3> SUFFICES ASSUME NEW d \in Objects, RelyOn(A, g, d) # {}
                   PROVE  /\ d \in A /\ d \notin RelyOn(A, g, d) /\ ~g[d].forced
                          /\ g[d].count >= Cardinality(RelyOn(A, g, d))
        BY DEF Relied
      <3>3. d # None
        BY LlCacheAssumption
      <3>4. RelyOn(A, g, d) = RelyOn(A, h, d) \ {o}
        BY <1>1, <2>15, <3>1, <3>3 DEF RelyOn
      <3>5. /\ d \in A /\ d \notin RelyOn(A, h, d) /\ ~h[d].forced
            /\ h[d].count >= Cardinality(RelyOn(A, h, d))
        BY <1>0, <3>4 DEF Relied
      <3>6. CASE d = c
        <4>1. g[c].count >= Cardinality(RelyOn(A, g, c))
          <5>1. h[c].count - 1 >= Cardinality(RelyOn(A, h, c)) - 1
            BY <2>2, <2>4, <2>5
          <5> QED BY <2>4, <3>2, <3>4, <3>6, <5>1
        <4>2. ~g[c].forced
          BY <2>1, <2>2, <3>1
        <4> QED BY <3>4, <3>5, <3>6, <4>1, <4>2
      <3>7. CASE d # c
        <4>1. o \notin RelyOn(A, h, d)
          BY <3>7 DEF RelyOn, c
        <4> QED BY <4>1, <3>1, <3>4, <3>5, <3>7
      <3> QED BY <3>6, <3>7
    <2> QED BY <2>11, <2>12, <2>14, <2>15, <2>16 DEF Base, g
  <1> QED BY <1>2, <1>3

\* An object that nobody uses or relies on goes.
LEMMA Purge ==
    ASSUME NEW C, NEW N, NEW h, NEW us, Base(C, N, h, us), NEW X \in SUBSET (C \cup N),
           \A o \in X : h[o].users = <<>> /\ h[o].count = 0
    PROVE  Base(C \ X, N \ X, [o \in Objects |-> IF o \in X THEN NoObject ELSE h[o]], us)
  <1> DEFINE g == [o \in Objects |-> IF o \in X THEN NoObject ELSE h[o]]
             A == C \cup N
             B == (C \ X) \cup (N \ X)
  <1>0. /\ Typed(C, N, h, us) /\ Sounds(C, N, h) /\ Handed(h)
        /\ Relied(A, h) /\ Informed(h, us)
    BY DEF Base
  <1>1. A \subseteq Objects /\ IsFiniteSet(A) /\ h \in [Objects -> Object] /\ B = A \ X
    BY <1>0 DEF Typed
  <1>2. NoObject \in Object
    BY LlCacheAssumption DEF NoObject, Object, INIT, COMPLETE
  <1>3. /\ g \in [Objects -> Object]
        /\ \A o \in Objects : g[o] = IF o \in X THEN NoObject ELSE h[o]
    BY <1>1, <1>2
  <1> HIDE DEF g
  <1>4. Typed(C \ X, N \ X, g, us)
    <2>1. IsFiniteSet(B)
      BY <1>1, FS_Subset
    <2> QED BY <1>0, <1>3, <2>1 DEF Typed
  <1>5. Sounds(C \ X, N \ X, g)
    BY <1>0, <1>3 DEF Sounds
  <1>6. \A o \in Objects : g[o].users = h[o].users
    BY <1>1, <1>3 DEF NoObject
  <1>7. Handed(g)
    BY <1>0, <1>6 DEF Handed
  <1>8. Informed(g, us)
    <2> SUFFICES ASSUME NEW o \in Objects, NEW u \in Users, u \in Range(g[o].users)
                 PROVE  Told(us[u], g[o])
      BY DEF Informed
    <2>1. o \notin X
      BY <1>6 DEF Range
    <2> QED BY <2>1, <1>0, <1>3 DEF Informed
  <1>9. Relied(B, g)
    <2> SUFFICES ASSUME NEW c \in Objects, RelyOn(B, g, c) # {}
                 PROVE  /\ c \in B /\ c \notin RelyOn(B, g, c) /\ ~g[c].forced
                        /\ g[c].count >= Cardinality(RelyOn(B, g, c))
      BY DEF Relied
    <2>1. RelyOn(B, g, c) \subseteq RelyOn(A, h, c)
      BY <1>1, <1>3 DEF RelyOn
    <2>2. IsFiniteSet(RelyOn(A, h, c))
      BY <1>1, FS_Subset DEF RelyOn
    <2>3. Cardinality(RelyOn(B, g, c)) <= Cardinality(RelyOn(A, h, c))
      BY <2>1, <2>2, FS_Subset
    <2>4. /\ c \in A /\ c \notin RelyOn(A, h, c) /\ ~h[c].forced
          /\ h[c].count >= Cardinality(RelyOn(A, h, c))
      BY <1>0, <2>1 DEF Relied
    <2>5. /\ Cardinality(RelyOn(A, h, c)) \in Nat
          /\ Cardinality(RelyOn(B, g, c)) \in Nat
      BY <2>1, <2>2, FS_Subset, FS_CardinalityType
    <2>6. Cardinality(RelyOn(A, h, c)) # 0
      BY <2>1, <2>2, FS_EmptySet
    <2>7. c \notin X
      BY <2>4, <2>5, <2>6
    <2>8. h[c].count \in Nat
      BY <1>1 DEF Object
    <2>9. g[c] = h[c]
      BY <1>3, <2>7
    <2>10. c \in B /\ c \notin RelyOn(B, g, c)
      BY <1>1, <2>1, <2>4, <2>7
    <2>11. h[c].count >= Cardinality(RelyOn(B, g, c))
      BY <2>3, <2>4, <2>5, <2>8
    <2> QED BY <2>4, <2>9, <2>10, <2>11
  <1> QED BY <1>4, <1>5, <1>7, <1>8, <1>9 DEF Base, g

(* A new object o, without users; D and M are the objects kept and not     *)
(* kept when it is there.                                                  *)
LEMMA Begin ==
    ASSUME NEW C, NEW N, NEW h, NEW us, Base(C, N, h, us),
           NEW o \in Objects \ (C \cup N), NEW D, NEW M, NEW r \in Object,
           r.users = <<>>, r.candidate = None,
           IF r.forced THEN D = C /\ M = N \cup {o} ELSE D = C \cup {o} /\ M = N,
           Sound(r, ~r.forced)
    PROVE  Base(D, M, [h EXCEPT ![o] = r], us)
  <1> DEFINE g == [h EXCEPT ![o] = r]
             A == C \cup N
             B == D \cup M
  <1>0. /\ Typed(C, N, h, us) /\ Sounds(C, N, h) /\ Handed(h)
        /\ Relied(A, h) /\ Informed(h, us)
    BY DEF Base
  <1>1. /\ A \subseteq Objects /\ IsFiniteSet(A) /\ h \in [Objects -> Object]
        /\ B = A \cup {o} /\ D \subseteq Objects /\ M \subseteq Objects
        /\ (o \in D <=> ~r.forced)
        /\ \A p \in Objects : p # o => (p \in D <=> p \in C)
    BY <1>0 DEF Typed
  <1>2. /\ g \in [Objects -> Object] /\ g[o] = r
        /\ \A p \in Objects : p # o => g[p] = h[p]
    BY <1>1
  <1> HIDE DEF g
  <1>3. Typed(D, M, g, us)
    <2>1. IsFiniteSet(B)
      BY <1>1, FS_AddElement
    <2> QED BY <1>0, <1>1, <1>2, <2>1 DEF Typed
  <1>4. Sounds(D, M, g)
    <2> SUFFICES ASSUME NEW p \in Objects
                 PROVE  IF p \in B THEN Sound(g[p], p \in D) ELSE g[p] = NoObject
      BY DEF Sounds
    <2>1. CASE p = o
      BY <1>1, <1>2, <2>1 DEF Sound
    <2>2. CASE p # o
      <3>1. IF p \in A THEN Sound(h[p], p \in C) ELSE h[p] = NoObject
        BY <1>0 DEF Sounds
      <3> QED BY <1>1, <1>2, <2>2, <3>1 DEF Sound
    <2> QED BY <2>1, <2>2
  <1>5. r.users = <<>> /\ IsInjective(<<>>) /\ Range(<<>>) = {}
    BY DEF IsInjective, Range
  <1>6. Handed(g)
    <2>1. \A p \in Objects : IsInjective(g[p].users)
      BY <1>0, <1>2, <1>5 DEF Handed
    <2>2. ASSUME NEW p \in Objects, NEW q \in Objects, NEW u \in Users,
                 u \in Range(g[p].users), u \in Range(g[q].users)
          PROVE  p = q
      BY <1>0, <1>2, <1>5, <2>2 DEF Handed
    <2> QED BY <2>1, <2>2 DEF Handed
  <1>7. Informed(g, us)
    BY <1>0, <1>2, <1>5 DEF Informed
  <1>8. Relied(B, g)
    <2> SUFFICES ASSUME NEW c \in Objects, RelyOn(B, g, c) # {}
                 PROVE  /\ c \in B /\ c \notin RelyOn(B, g, c) /\ ~g[c].forced
                        /\ g[c].count >= Cardinality(RelyOn(B, g, c))
      BY DEF Relied
    <2>1. c # None
      BY LlCacheAssumption
    <2>2. RelyOn(B, g, c) = RelyOn(A, h, c)
      BY <1>1, <1>2, <2>1 DEF RelyOn
    <2>3. c \in A
      BY <1>0, <2>2 DEF Relied
    <2> QED BY <1>0, <1>1, <1>2, <2>2, <2>3 DEF Relied
  <1> QED BY <1>3, <1>4, <1>6, <1>7, <1>8 DEF Base, g

\* An object without users that has no candidate takes one.
LEMMA TakeCandidate ==
    ASSUME NEW C, NEW N, NEW h, NEW us, Base(C, N, h, us),
           NEW o \in C \cup N, NEW m \in C, m # o,
           h[o].candidate = None, RelyOn(C \cup N, h, o) = {},
           h[m].candidate # m
    PROVE  LET g == Validating(h, o, m)
           IN  /\ Base(C, N, g, us)
               /\ \A p \in Objects : Alike(g[p], h[p])
  <1> DEFINE A == C \cup N
             g == Validating(h, o, m)
  <1>0. /\ Typed(C, N, h, us) /\ Sounds(C, N, h) /\ Handed(h)
        /\ Relied(A, h) /\ Informed(h, us)
    BY DEF Base
  <1>1. /\ o \in Objects /\ m \in Objects /\ m \in A /\ A \subseteq Objects
        /\ h \in [Objects -> Object] /\ h[o] \in Object /\ h[m] \in Object
        /\ IsFiniteSet(A)
    BY <1>0 DEF Typed
  <1>a. PICK cond \in BOOLEAN : cond <=> h[m].cache # "void"
    OBVIOUS
  <1>2. /\ g[o] = [h[o] EXCEPT !.candidate = m, !.cond = cond]
        /\ g[m] = [h[m] EXCEPT !.count = @ + 1]
        /\ \A p \in Objects : p # o /\ p # m => g[p] = h[p]
        /\ g = [p \in Objects |-> g[p]]
    BY <1>1, <1>a DEF Validating
  <1> HIDE DEF g
  <1>3. g[o] \in Object /\ g[m] \in Object
    <2>0. h[m].count + 1 \in Nat
      BY <1>1 DEF Object
    <2>1. [h[m] EXCEPT !.count = @ + 1] \in Object
      BY <1>1, <2>0 DEF Object
    <2>2. [h[o] EXCEPT !.candidate = m, !.cond = cond] \in Object
      BY <1>1 DEF Object
    <2> QED BY <1>2, <2>1, <2>2
  <1>4. \A p \in Objects : g[p] \in Object
    BY <1>1, <1>2, <1>3
  <1>5. Typed(C, N, g, us)
    BY <1>0, <1>2, <1>4 DEF Typed
  <1>6. Alike(g[o], h[o]) /\ Alike(g[m], h[m])
    BY <1>1, <1>2 DEF Alike, Object
  <1>7. \A p \in Objects : Alike(g[p], h[p])
    BY <1>2, <1>6 DEF Alike
  <1>8. \A p \in Objects \ A : g[p] = h[p]
    BY <1>1, <1>2
  <1>9. Sounds(C, N, g) /\ Handed(g) /\ Informed(g, us)
    BY <1>0, <1>1, <1>7, <1>8, AlikeIsAsGood
  <1>10. Relied(A, g)
    <2>1. /\ g[o].candidate = m /\ g[o].count = h[o].count
          /\ g[m].candidate = h[m].candidate /\ g[m].count = h[m].count + 1
          /\ h[m].count \in Nat
      BY <1>1, <1>2 DEF Object
    <2>2. \A p \in Objects : (g[p].forced <=> h[p].forced)
      BY <1>7 DEF Alike
    <2> SUFFICES ASSUME NEW c \in Objects, RelyOn(A, g, c) # {}
                 PROVE  /\ c \in A /\ c \notin RelyOn(A, g, c) /\ ~g[c].forced
                        /\ g[c].count >= Cardinality(RelyOn(A, g, c))
      BY DEF Relied
    <2>3. CASE c = m
      <3>1. RelyOn(A, g, m) = RelyOn(A, h, m) \cup {o}
        BY <1>1, <1>2, <2>1 DEF RelyOn
      <3>2. IsFiniteSet(RelyOn(A, h, m)) /\ o \notin RelyOn(A, h, m)
        <4>1. m # None
          BY <1>1, LlCacheAssumption
        <4> QED BY <1>1, <4>1, FS_Subset DEF RelyOn
      <3>3. /\ Cardinality(RelyOn(A, g, m)) = Cardinality(RelyOn(A, h, m)) + 1
            /\ Cardinality(RelyOn(A, h, m)) \in Nat
        BY <3>1, <3>2, FS_AddElement, FS_CardinalityType
      <3>4. ~h[m].forced
        <4>1. Sound(h[m], m \in C)
          BY <1>0, <1>1 DEF Sounds
        <4> QED BY <4>1 DEF Sound
      <3>5. h[m].count >= Cardinality(RelyOn(A, h, m))
        <4>1. CASE RelyOn(A, h, m) = {}
          <5>1. Cardinality(RelyOn(A, h, m)) = 0
            BY <3>2, <4>1, FS_EmptySet
          <5> QED BY <2>1, <5>1
        <4>2. CASE RelyOn(A, h, m) # {}
          BY <4>2, <1>0, <1>1 DEF Relied
        <4> QED BY <4>1, <4>2
      <3>6. m \notin RelyOn(A, g, m)
        BY <2>1 DEF RelyOn
      <3> QED BY <1>1, <2>1, <2>2, <2>3, <3>3, <3>4, <3>5, <3>6
    <2>4. CASE c # m
      <3>1. RelyOn(A, g, c) = RelyOn(A, h, c)
        <4>1. c # None
          BY LlCacheAssumption
        <4> QED BY <1>1, <1>2, <2>1, <2>4, <4>1 DEF RelyOn
      <3>2. c # o
        BY <3>1
      <3> QED BY <1>0, <1>2, <2>4, <3>1, <3>2 DEF Relied
    <2> QED BY <2>3, <2>4
  <1> QED BY <1>5, <1>7, <1>9, <1>10 DEF Base, g

(* What llcache_object_retrieve answers: a fresh object of the cache, or a *)
(* new one.                                                                *)
Old(r) == /\ r.cached = cached /\ r.uncached = uncached /\ r.objs = objs
          /\ r.found \in Range(cached) /\ IsFresh(objs[r.found])

New(r, forced, stream) ==
    /\ r.found \in NewObjects
    /\ Range(r.cached) \cup Range(r.uncached) = Alive \cup {r.found}
    /\ \A p \in Alive : Alike(r.objs[p], objs[p])
    /\ \A p \in Objects \ (Alive \cup {r.found}) : r.objs[p] = objs[p]
    /\ \E b \in Object : /\ Alike(r.objs[r.found], b)
                         /\ b.users = <<>> /\ b.state = INIT /\ ~b.short /\ ~b.lent
                         /\ (b.forced <=> forced) /\ (b.stream <=> stream)

LEMMA FetchingIsSound ==
    ASSUME NEW url \in Urls, NEW forced \in BOOLEAN, NEW stream \in BOOLEAN,
           stream => forced, NEW redirects \in 0..(RedirectLimit + 1)
    PROVE  LET b == Fetching(url, forced, stream, redirects)
           IN  /\ b \in Object /\ Sound(b, ~forced)
               /\ b.users = <<>> /\ b.state = INIT /\ ~b.short /\ ~b.lent
               /\ (b.forced <=> forced) /\ (b.stream <=> stream)
               /\ b.candidate = None
  <1> DEFINE b == Fetching(url, forced, stream, redirects)
  <1>1. FetchAttempts \in 0..FetchAttempts /\ 0 \in 0..MaxLen
    BY LlCacheAssumption
  <1>2. INIT \in INIT..COMPLETE /\ INIT # COMPLETE
    BY DEF INIT, COMPLETE
  <1>3. /\ NoObject \in Object /\ NoObject.users = <<>> /\ NoObject.state = INIT
        /\ NoObject.candidate = None /\ ~NoObject.short /\ ~NoObject.lent
    BY <1>1, <1>2, LlCacheAssumption DEF NoObject, Object
  <1>4. b \in Object
    BY <1>1, <1>3 DEF Fetching, Object
  <1>5. /\ b.url = url /\ b.users = <<>> /\ b.state = INIT /\ b.fetch
        /\ b.candidate = None /\ ~b.short /\ ~b.lent
        /\ (b.forced <=> forced) /\ (b.stream <=> stream)
    BY <1>3 DEF Fetching, Object
  <1> HIDE DEF b
  <1>6. Sound(b, ~forced)
    BY <1>2, <1>5 DEF Sound
  <1> QED BY <1>4, <1>5, <1>6 DEF b

LEMMA Retrieval ==
    ASSUME TwoLists(cached, uncached), Base(Range(cached), Range(uncached), objs, users),
           NEW url \in Urls, NEW forced \in BOOLEAN, NEW stream \in BOOLEAN,
           stream => forced, NEW redirects \in 0..(RedirectLimit + 1),
           NEW r \in Retrievals(url, forced, stream, redirects)
    PROVE  /\ TwoLists(r.cached, r.uncached)
           /\ Base(Range(r.cached), Range(r.uncached), r.objs, users)
           /\ Old(r) \/ New(r, forced, stream)
  <1> DEFINE b == Fetching(url, forced, stream, redirects)
             with(o) == [objs EXCEPT ![o] = b]
             validating(o, m) == Validating(with(o), o, m)
             matches == {m \in Range(cached) : objs[m].url = url}
             fresh == {m \in matches : IsFresh(objs[m])}
             old == {m \in matches \ fresh : objs[m].count < MaxCount}
  <1>1. /\ b \in Object /\ Sound(b, ~forced)
        /\ b.users = <<>> /\ b.state = INIT /\ ~b.short /\ ~b.lent
        /\ (b.forced <=> forced) /\ (b.stream <=> stream)
        /\ b.candidate = None
    BY FetchingIsSound
  <1>2. r \in IF forced
        THEN {Outcome(cached, AtHead(o, uncached), with(o), o) : o \in NewObjects}
        ELSE IF matches = {}
        THEN {Outcome(AtHead(o, cached), uncached, with(o), o) : o \in NewObjects}
        ELSE {Outcome(cached, uncached, objs, m) : m \in fresh}
             \cup {Outcome(AtHead(o, cached), uncached, validating(o, m), o) :
                      o \in NewObjects, m \in old}
    BY DEF Retrievals
  <1>3. /\ \/ /\ forced
              /\ \E o \in NewObjects : r = Outcome(cached, AtHead(o, uncached), with(o), o)
           \/ /\ ~forced
              /\ \E o \in NewObjects : r = Outcome(AtHead(o, cached), uncached, with(o), o)
           \/ /\ ~forced
              /\ \E m \in fresh : r = Outcome(cached, uncached, objs, m)
           \/ /\ ~forced
              /\ \E o \in NewObjects, m \in old :
                    r = Outcome(AtHead(o, cached), uncached, validating(o, m), o)
    <2> HIDE DEF matches, fresh, old, with, validating
    <2>1. CASE forced
      BY <1>2, <2>1
    <2>2. CASE ~forced /\ matches = {}
      BY <1>2, <2>2
    <2>3. CASE ~forced /\ matches # {}
      BY <1>2, <2>3
    <2> QED BY <2>1, <2>2, <2>3
  <1>4. /\ objs \in [Objects -> Object] /\ Alive \subseteq Objects
        /\ Range(cached) \subseteq Objects /\ Range(uncached) \subseteq Objects
    BY DEF Base, Typed, Alive
  <1> HIDE DEF b
  <1>5. ASSUME NEW o \in NewObjects
        PROVE  /\ with(o)[o] = b /\ \A p \in Objects : p # o => with(o)[p] = objs[p]
               /\ TwoLists(AtHead(o, cached), uncached)
               /\ TwoLists(cached, AtHead(o, uncached))
               /\ Range(AtHead(o, cached)) = Range(cached) \cup {o}
               /\ Range(AtHead(o, uncached)) = Range(uncached) \cup {o}
    <2>1. o \in Objects /\ o \notin Range(cached) /\ o \notin Range(uncached)
      BY DEF NewObjects, Alive
    <2>2. with(o)[o] = b /\ \A p \in Objects : p # o => with(o)[p] = objs[p]
      BY <1>4, <2>1
    <2>3. /\ AtHead(o, cached) \in Seq(Objects) /\ IsInjective(AtHead(o, cached))
          /\ Range(AtHead(o, cached)) = Range(cached) \cup {o}
      BY <2>1, PrependFacts DEF TwoLists
    <2>4. /\ AtHead(o, uncached) \in Seq(Objects) /\ IsInjective(AtHead(o, uncached))
          /\ Range(AtHead(o, uncached)) = Range(uncached) \cup {o}
      BY <2>1, PrependFacts DEF TwoLists
    <2> HIDE DEF with
    <2>5. TwoLists(AtHead(o, cached), uncached)
      BY <2>1, <2>3 DEF TwoLists
    <2>6. TwoLists(cached, AtHead(o, uncached))
      BY <2>1, <2>4 DEF TwoLists
    <2> QED BY <2>2, <2>3, <2>4, <2>5, <2>6
  <1>6. ASSUME forced, NEW o \in NewObjects
        PROVE  Base(Range(cached), Range(uncached) \cup {o}, with(o), users)
    <2>1. o \in Objects \ (Range(cached) \cup Range(uncached))
      BY DEF NewObjects, Alive
    <2> QED BY <1>1, <1>6, <2>1, Begin
  <1>7. ASSUME ~forced, NEW o \in NewObjects
        PROVE  Base(Range(cached) \cup {o}, Range(uncached), with(o), users)
    <2>1. o \in Objects \ (Range(cached) \cup Range(uncached))
      BY DEF NewObjects, Alive
    <2> QED BY <1>1, <1>7, <2>1, Begin
  <1>8. \A p \in Objects : Alike(objs[p], objs[p])
    BY DEF Alike
  <1>9. Alike(b, b)
    BY DEF Alike
  <1>10. CASE forced /\ \E o \in NewObjects : r = Outcome(cached, AtHead(o, uncached), with(o), o)
    <2>1. PICK o \in NewObjects : r = Outcome(cached, AtHead(o, uncached), with(o), o)
      BY <1>10
    <2>2. o \in Objects /\ o \notin Alive
      BY DEF NewObjects
    <2>3. /\ r.cached = cached /\ r.uncached = AtHead(o, uncached)
          /\ r.objs = with(o) /\ r.found = o
      BY <2>1 DEF Outcome
    <2> HIDE DEF with
    <2>4. New(r, forced, stream)
      <3>1. Range(r.cached) \cup Range(r.uncached) = Alive \cup {o}
        BY <1>5, <2>3 DEF Alive
      <3>2. \A p \in Objects \ {o} : r.objs[p] = objs[p]
        BY <1>5, <2>3
      <3>3. r.objs[o] = b
        BY <1>5, <2>3
      <3> QED BY <1>1, <1>4, <1>8, <1>9, <2>2, <2>3, <3>1, <3>2, <3>3 DEF New
    <2> QED BY <1>5, <1>6, <1>10, <2>3, <2>4
  <1>11. CASE ~forced /\ \E o \in NewObjects : r = Outcome(AtHead(o, cached), uncached, with(o), o)
    <2>1. PICK o \in NewObjects : r = Outcome(AtHead(o, cached), uncached, with(o), o)
      BY <1>11
    <2>2. o \in Objects /\ o \notin Alive
      BY DEF NewObjects
    <2>3. /\ r.cached = AtHead(o, cached) /\ r.uncached = uncached
          /\ r.objs = with(o) /\ r.found = o
      BY <2>1 DEF Outcome
    <2> HIDE DEF with
    <2>4. New(r, forced, stream)
      <3>1. Range(r.cached) \cup Range(r.uncached) = Alive \cup {o}
        BY <1>5, <2>3 DEF Alive
      <3>2. \A p \in Objects \ {o} : r.objs[p] = objs[p]
        BY <1>5, <2>3
      <3>3. r.objs[o] = b
        BY <1>5, <2>3
      <3> QED BY <1>1, <1>4, <1>8, <1>9, <2>2, <2>3, <3>1, <3>2, <3>3 DEF New
    <2> QED BY <1>5, <1>7, <1>11, <2>3, <2>4
  <1>12. CASE ~forced /\ \E m \in fresh : r = Outcome(cached, uncached, objs, m)
    <2>1. PICK m \in fresh : r = Outcome(cached, uncached, objs, m)
      BY <1>12
    <2>2. Old(r)
      BY <2>1 DEF Old, Outcome
    <2> QED BY <2>2 DEF Old
  <1>13. CASE ~forced /\ \E o \in NewObjects, m \in old :
                    r = Outcome(AtHead(o, cached), uncached, validating(o, m), o)
    <2>1. PICK o \in NewObjects, m \in old :
                    r = Outcome(AtHead(o, cached), uncached, validating(o, m), o)
      BY <1>13
    <2>2. o \in Objects /\ o \notin Alive /\ m \in Range(cached) /\ m # o /\ m \in Alive
      BY DEF NewObjects, Alive
    <2> DEFINE h == with(o)
               D == Range(cached) \cup {o}
               M == Range(uncached)
               g == validating(o, m)
    <2>3. Base(D, M, h, users)
      BY <1>7, <1>13
    <2>4. /\ h[o] = b /\ \A p \in Objects : p # o => h[p] = objs[p]
      BY <1>5
    <2>5. g = Validating(h, o, m)
      OBVIOUS
    <2> HIDE DEF g, validating
    <2>6. /\ r.cached = AtHead(o, cached) /\ r.uncached = uncached
          /\ r.objs = g /\ r.found = o
      BY <2>1 DEF Outcome, g
    <2> HIDE DEF with, h
    <2>7. Relied(D \cup M, h)
      BY <2>3 DEF Base
    <2>8. RelyOn(D \cup M, h, o) = {}
      <3>1. \A p \in Alive : objs[p].candidate # o
        <4> SUFFICES ASSUME NEW p \in Alive, objs[p].candidate = o PROVE FALSE
          OBVIOUS
        <4>1. Relied(Alive, objs)
          BY DEF Base, Alive
        <4>2. p \in RelyOn(Alive, objs, o)
          BY DEF RelyOn
        <4> QED BY <4>1, <4>2, <2>2 DEF Relied
      <3>2. h[o].candidate # o
        BY <1>1, <2>2, <2>4, LlCacheAssumption
      <3> QED BY <1>4, <2>4, <3>1, <3>2 DEF RelyOn, Alive
    <2>9. h[m].candidate # m
      BY <1>4, <2>2, <2>7 DEF Relied, RelyOn
    <2>11. h[o].candidate = None
      BY <1>1, <2>4
    <2>12. /\ Base(D, M, g, users)
           /\ \A p \in Objects : Alike(g[p], h[p])
           /\ \A p \in Objects \ {o, m} : g[p] = h[p]
      <3>1. o \in D \cup M /\ m \in D
        BY <2>2
      <3> HIDE DEF D, M
      <3>2. m # o
        BY <2>2
      <3>3. Base(D, M, Validating(h, o, m), users)
        BY ONLY <2>3, <2>8, <2>9, <2>11, <3>1, <3>2, TakeCandidate
      <3>4. \A p \in Objects : Alike(Validating(h, o, m)[p], h[p])
        BY ONLY <2>3, <2>8, <2>9, <2>11, <3>1, <3>2, TakeCandidate
      <3>5. \A p \in Objects \ {o, m} : Validating(h, o, m)[p] = h[p]
        <4>1. h \in [Objects -> Object]
          BY <2>3 DEF Base, Typed
        <4> QED BY <2>2, <4>1 DEF Validating
      <3> QED BY <2>5, <3>3, <3>4, <3>5
    <2>13. New(r, forced, stream)
      <3>1. Range(r.cached) \cup Range(r.uncached) = Alive \cup {o}
        BY <1>5, <2>6 DEF Alive
      <3>2. Alike(g[o], b) /\ \A p \in Alive : Alike(g[p], objs[p])
        BY <1>4, <2>2, <2>4, <2>12
      <3>3. \A p \in Objects \ (Alive \cup {o}) : g[p] = objs[p]
        BY <2>2, <2>4, <2>12
      <3> QED BY <1>1, <1>4, <2>2, <2>6, <3>1, <3>2, <3>3 DEF New
    <2> QED BY <1>5, <2>6, <2>12, <2>13
  <1> QED BY <1>3, <1>10, <1>11, <1>12, <1>13

\* An object is what it was but for its users.
UsersApart(r, b) == r = [b EXCEPT !.users = r.users]

\* The other objects are what they were.
Elsewhere(g, h, S) == \A p \in Objects \ S : g[p] = h[p]

\* The users of one object are handed over to another.
HandedOver(C, N, h, us, o, n, g) ==
    /\ Base(C, N, g, us)
    /\ UsersApart(g[o], h[o]) /\ g[o].users = <<>>
    /\ UsersApart(g[n], h[n])
    /\ Range(g[n].users) = Range(h[o].users) \cup Range(h[n].users)
    /\ Elsewhere(g, h, {o, n})

LEMMA HandOver ==
    ASSUME NEW C, NEW N, NEW h, NEW us, Base(C, N, h, us), NEW o \in C \cup N,
           NEW n \in C \cup N, o # n, Tomb \notin Range(h[o].users),
           \A u \in Users : u \in Range(h[o].users) => Told(us[u], h[n]),
           h[n].stream /\ ~h[n].lent => Len(h[o].users) + Len(h[n].users) <= 1
    PROVE  HandedOver(C, N, h, us, o, n, MovedUsers(h, o, n))
  <1> DEFINE ws == [i \in 1..Len(h[o].users) |-> h[o].users[Len(h[o].users) + 1 - i]]
                     \o h[n].users
             ro == [h[o] EXCEPT !.users = <<>>]
             rn == [h[n] EXCEPT !.users = ws]
             f == [h EXCEPT ![o] = ro]
             g == MovedUsers(h, o, n)
  <1>0. /\ Typed(C, N, h, us) /\ Sounds(C, N, h) /\ Handed(h) /\ Informed(h, us)
    BY DEF Base
  <1>1. /\ o \in Objects /\ n \in Objects /\ h \in [Objects -> Object]
        /\ h[o] \in Object /\ h[n] \in Object
    BY <1>0 DEF Typed
  <1>2. /\ h[o].users \in Seq(Users \cup {Tomb}) /\ h[n].users \in Seq(Users \cup {Tomb})
        /\ IsInjective(h[o].users) /\ IsInjective(h[n].users)
    BY <1>0, <1>1 DEF Object, Handed
  <1>3. Range(h[o].users) \cap Range(h[n].users) = {}
    <2> SUFFICES ASSUME NEW u, u \in Range(h[o].users), u \in Range(h[n].users)
                 PROVE  FALSE
      OBVIOUS
    <2>1. u \in Users \cup {Tomb}
      BY <1>2 DEF Range
    <2> QED BY <1>0, <1>1, <2>1 DEF Handed
  <1>4. /\ ws \in Seq(Users \cup {Tomb}) /\ IsInjective(ws)
        /\ Range(ws) = Range(h[o].users) \cup Range(h[n].users)
        /\ Len(ws) = Len(h[o].users) + Len(h[n].users)
    <2> DEFINE q == h[o].users
               p == h[n].users
    <2>1. /\ q \in Seq(Users \cup {Tomb}) /\ p \in Seq(Users \cup {Tomb})
          /\ IsInjective(q) /\ IsInjective(p) /\ Range(q) \cap Range(p) = {}
      BY <1>2, <1>3
    <2> HIDE DEF q, p
    <2>2. LET w == [i \in 1..Len(q) |-> q[Len(q) + 1 - i]] \o p
          IN  /\ w \in Seq(Users \cup {Tomb}) /\ IsInjective(w)
              /\ Range(w) = Range(q) \cup Range(p)
              /\ Len(w) = Len(q) + Len(p)
      BY <2>1, ReverseFacts
    <2> QED BY <2>2, Zenon DEF q, p
  <1>5. g = [h EXCEPT ![n].users = ws, ![o].users = <<>>]
    BY DEF MovedUsers
  <1> HIDE DEF ws
  <1>6. /\ IsInjective(<<>>) /\ Range(<<>>) = {} /\ Len(<<>>) = 0
        /\ <<>> \in Seq(Users \cup {Tomb})
    BY DEF IsInjective, Range
  <1>7. /\ ro \in Object /\ ro.users = <<>> /\ Sound(ro, o \in C)
        /\ ro.candidate = h[o].candidate /\ ro.count = h[o].count
        /\ ro.forced = h[o].forced
    <2>1. Sound(h[o], o \in C)
      BY <1>0, <1>1 DEF Sounds
    <2>2. ro \in Object
      BY <1>1, <1>6 DEF Object
    <2>3. /\ ro.users = <<>> /\ ro.state = h[o].state /\ ro.fetch = h[o].fetch
          /\ ro.url = h[o].url /\ ro.cache = h[o].cache
          /\ ro.candidate = h[o].candidate /\ ro.count = h[o].count
          /\ ro.forced = h[o].forced /\ ro.stream = h[o].stream
          /\ ro.lent = h[o].lent /\ ro.short = h[o].short
      BY <1>1 DEF Object
    <2> HIDE DEF ro
    <2> QED BY <1>6, <2>1, <2>2, <2>3 DEF Sound
  <1>8. /\ rn \in Object /\ rn.users = ws /\ Sound(rn, n \in C)
        /\ rn.candidate = h[n].candidate /\ rn.count = h[n].count
        /\ rn.forced = h[n].forced
    <2>1. Sound(h[n], n \in C)
      BY <1>0, <1>1 DEF Sounds
    <2> QED BY <1>1, <1>4, <2>1 DEF Object, Sound
  <1>9. /\ f[o] = ro /\ \A p \in Objects : p # o => f[p] = h[p]
    BY <1>1
  <1>10. Base(C, N, f, us)
    <2> HIDE DEF ro
    <2> QED BY <1>6, <1>7, Replace
  <1>11. \A u \in Users : u \in Range(ws) =>
            /\ Told(us[u], rn)
            /\ \A p \in Objects : p # n => u \notin Range(f[p].users)
    <2> SUFFICES ASSUME NEW u \in Users, u \in Range(ws)
                 PROVE  /\ Told(us[u], rn)
                        /\ \A p \in Objects : p # n => u \notin Range(f[p].users)
      OBVIOUS
    <2>1. Told(us[u], h[n])
      BY <1>0, <1>1, <1>4 DEF Informed
    <2>2. Told(us[u], rn)
      BY <1>1, <2>1 DEF Told, Object
    <2>3. ASSUME NEW p \in Objects, p # n PROVE u \notin Range(f[p].users)
      <3>1. CASE p = o
        BY <1>6, <1>7, <1>9, <3>1
      <3>2. CASE p # o
        BY <1>0, <1>1, <1>4, <1>9, <2>3, <3>2 DEF Handed
      <3> QED BY <3>1, <3>2
    <2> QED BY <2>2, <2>3
  <1>12. f[n] = h[n]
    BY <1>1, <1>9
  <1> DEFINE e == [f EXCEPT ![n] = rn]
  <1>13. f \in [Objects -> Object]
    BY <1>10 DEF Base, Typed
  <1>14. Base(C, N, e, us)
    <2> HIDE DEF f, rn, ws
    <2> QED BY <1>4, <1>8, <1>10, <1>11, <1>12, Replace
  <1>15. g = e
    BY <1>1, <1>5, <1>13
  <1>16. /\ g \in [Objects -> Object] /\ g[o] = ro /\ g[n] = rn
         /\ \A p \in Objects : p # o /\ p # n => g[p] = h[p]
    <2>1. e \in [Objects -> Object]
      BY <1>14 DEF Base, Typed
    <2>2. e[n] = rn /\ \A p \in Objects : p # n => e[p] = f[p]
      BY <1>1, <1>13
    <2> HIDE DEF g, e, f, ro, rn
    <2> QED BY <1>1, <1>9, <1>15, <2>1, <2>2
  <1> HIDE DEF g, e
  <1>17. g[n].users = ws
    BY <1>8, <1>16
  <1>18. UsersApart(g[o], h[o]) /\ UsersApart(g[n], h[n])
    BY <1>7, <1>16, <1>17 DEF UsersApart
  <1>19. Elsewhere(g, h, {o, n})
    BY <1>16 DEF Elsewhere
  <1> QED BY <1>4, <1>7, <1>14, <1>15, <1>16, <1>17, <1>18, <1>19 DEF g, HandedOver

-----------------------------------------------------------------------------
(* The walk w *)
Walk == [kind : {"none", "notify", "send", "follow"}, list : {"cached", "uncached"},
         obj : Objects \cup {None}, user : Users \cup {None, Tomb},
         event : {"none", "headers", "data", "done", "message", "redirect"},
         doomed : BOOLEAN, seen : INIT..COMPLETE, orig : 0..MaxLen,
         to : Urls \cup {None}]

\* Where it is; a record without a handle is only there.
Walker(A, h, w) ==
    /\ w \in Walk
    /\ w.kind = "none" => w = Idle
    /\ w.kind # "none" => w.obj \in A
    /\ w.kind \in {"notify", "send"} => w.user \in Range(h[w.obj].users)
    /\ w.kind = "notify" => w.event \in {"headers", "data", "done"}
    /\ w.kind = "send" => w.event \in {"message", "redirect"}
    /\ w.kind = "follow" => w.user = None /\ w.event = "none"
    /\ w.user = Tomb => w.doomed
    /\ \A o \in Objects : Tomb \in Range(h[o].users) => w.user = Tomb /\ w.obj = o

\* What its user r has just been told by the object b, and may ask again
JustTold(r, b, w) ==
    /\ w.event = "headers" => r.state = DATA /\ r.bytes = 0
    /\ w.event = "data" => /\ r.state = DATA
                           /\ b.stream \/ w.orig <= b.len \/ (b.lent /\ ~r.asked)
    /\ w.event = "done" => r.state = COMPLETE

Notifying(h, us, w) == w.kind = "notify" =>
    /\ w.seen >= DATA /\ h[w.obj].state >= DATA
    /\ w.seen = COMPLETE => h[w.obj].state = COMPLETE
    /\ ~w.doomed => JustTold(us[w.user], h[w.obj], w)

\* A redirected object is over, and its users have been told nothing.
Redirected(h, us, o, to) ==
    /\ to \in Urls
    /\ h[o].state = COMPLETE /\ h[o].cache = "void"
    /\ h[o].redirects <= RedirectLimit
    /\ h[o].stream => h[o].forced
    /\ \A u \in Users : u \in Range(h[o].users) => us[u].state < DATA

Following(h, us, w) ==
    w.kind = "follow" \/ w.event = "redirect" => Redirected(h, us, w.obj, w.to)

Walks(A, h, us, w) == Walker(A, h, w) /\ Notifying(h, us, w) /\ Following(h, us, w)

IInv == /\ TwoLists(cached, uncached)
        /\ Base(Range(cached), Range(uncached), objs, users)
        /\ Walks(Alive, objs, users, walk)

\* No record is without its handle.
NoTomb(h) == \A o \in Objects : Tomb \notin Range(h[o].users)

LEMMA IdleWalks ==
    ASSUME NEW A, NEW h, NEW us, NoTomb(h)
    PROVE  Walks(A, h, us, Idle)
  BY LlCacheAssumption DEF Walks, Walker, Notifying, Following, NoTomb, Idle, Walk,
     INIT, COMPLETE

LEMMA IdleHasNoTomb ==
    ASSUME NEW A, NEW h, NEW us, NEW w, Walks(A, h, us, w), w.user # Tomb
    PROVE  NoTomb(h)
  BY DEF Walks, Walker, NoTomb

\* A client is called back.
LEMMA Calling ==
    ASSUME NEW C, NEW N, NEW h, NEW us, Base(C, N, h, us), NoTomb(h),
           NEW list \in {"cached", "uncached"}, NEW o \in C \cup N,
           NEW u \in Users, u \in Range(h[o].users), NEW seen \in INIT..COMPLETE,
           seen >= DATA => h[o].state >= DATA,
           seen = COMPLETE => h[o].state = COMPLETE,
           EventFor(us[u], h[o], seen) # "none",
           Call(list, <<o, u>>, seen, us, h)
    PROVE  /\ Base(C, N, objs', users')
           /\ Walks(C \cup N, objs', users', walk')
  <1> DEFINE b == h[o]
             r == us[u]
             event == EventFor(r, b, seen)
             kept == IF b.stream THEN 0 ELSE b.len
             told == CASE event = "headers" -> [r EXCEPT !.state = DATA]
                       [] event = "data" -> [r EXCEPT !.bytes = kept]
                       [] event = "done" -> [r EXCEPT !.state = COMPLETE]
             filled == IF event = "data" THEN [b EXCEPT !.len = kept] ELSE b
             orig == IF event = "data" /\ ~b.stream THEN r.bytes ELSE 0
             v == <<o, u>>
  <1>0. Typed(C, N, h, us) /\ Sounds(C, N, h) /\ Handed(h) /\ Informed(h, us)
    BY DEF Base
  <1>1. /\ o \in Objects /\ b \in Object /\ r \in User
        /\ h \in [Objects -> Object] /\ us \in [Users -> User]
    BY <1>0 DEF Typed
  <1>2. v[1] = o /\ v[2] = u
    OBVIOUS
  <1>3. /\ walk' = [Idle EXCEPT !.kind = "notify", !.list = list, !.obj = o,
                                !.user = u, !.event = event, !.seen = seen,
                                !.orig = orig]
        /\ users' = [us EXCEPT ![u] = told]
        /\ objs' = IF event = "data" THEN [h EXCEPT ![o].len = kept] ELSE h
    BY <1>2 DEF Call
  <1>4. Told(r, b) /\ Sound(b, o \in C)
    BY <1>0, <1>1 DEF Informed, Sounds
  <1>5. /\ b.len \in 0..MaxLen /\ r.bytes \in 0..MaxLen /\ MaxLen \in Nat
        /\ b.state \in INIT..COMPLETE /\ r.state \in INIT..COMPLETE
        /\ b.stream \in BOOLEAN /\ r.asked \in BOOLEAN /\ b.lent \in BOOLEAN
        /\ b.short \in BOOLEAN
    BY <1>1, LlCacheAssumption DEF Object, User
  <1>6. /\ event \in {"headers", "data", "done"} /\ seen >= DATA
        /\ event = "headers" => r.state < DATA
        /\ event = "data" => r.state = DATA /\ b.len > r.bytes
        /\ event = "done" => r.state = DATA /\ seen = COMPLETE /\ ~(b.len > r.bytes)
    BY <1>5 DEF EventFor, INIT, HEADERS, DATA, COMPLETE
  <1> HIDE DEF event
  <1>7. kept \in 0..MaxLen /\ orig \in 0..MaxLen /\ kept <= b.len
    BY <1>5
  <1>8. told \in User /\ filled \in Object
    <2>1. DATA \in INIT..COMPLETE /\ COMPLETE \in INIT..COMPLETE
      BY DEF INIT, DATA, COMPLETE
    <2>2. /\ [r EXCEPT !.state = DATA] \in User /\ [r EXCEPT !.bytes = kept] \in User
          /\ [r EXCEPT !.state = COMPLETE] \in User
      BY <1>1, <1>7, <2>1 DEF User
    <2>3. [b EXCEPT !.len = kept] \in Object
      BY <1>1, <1>7 DEF Object
    <2> QED BY <1>1, <1>6, <2>2, <2>3
  <1>9. /\ event = "headers" => told = [r EXCEPT !.state = DATA] /\ filled = b
        /\ event = "data" => told = [r EXCEPT !.bytes = kept]
                             /\ filled = [b EXCEPT !.len = kept]
        /\ event = "done" => told = [r EXCEPT !.state = COMPLETE] /\ filled = b
    BY <1>6
  <1>10. /\ filled.users = b.users /\ filled.state = b.state /\ filled.fetch = b.fetch
         /\ filled.url = b.url /\ filled.cache = b.cache /\ filled.candidate = b.candidate
         /\ filled.count = b.count /\ filled.redirects = b.redirects
         /\ (filled.stream <=> b.stream) /\ (filled.forced <=> b.forced)
         /\ (filled.lent <=> b.lent) /\ (filled.short <=> b.short)
         /\ filled.forced = b.forced
         /\ filled.len = IF event = "data" THEN kept ELSE b.len
    BY <1>1, <1>6, <1>9 DEF Object
  <1>11. /\ told.state = IF event = "headers" THEN DATA
                         ELSE IF event = "done" THEN COMPLETE ELSE r.state
         /\ told.bytes = IF event = "data" THEN kept ELSE r.bytes
         /\ told.asked <=> r.asked
    BY <1>1, <1>6, <1>9 DEF User
  <1> HIDE DEF told, filled
  <1>12. \A x \in User : Told(x, b) => Told(x, filled)
    <2> SUFFICES ASSUME NEW x \in User, Told(x, b) PROVE Told(x, filled)
      OBVIOUS
    <2>1. b.stream \/ filled.len = b.len
      BY <1>10
    <2> QED BY <1>10, <2>1 DEF Told
  <1>13. Told(told, filled)
    <2>1. /\ told.state >= DATA => filled.state >= DATA
          /\ told.state < DATA => told.bytes = 0
      BY <1>4, <1>5, <1>6, <1>10, <1>11 DEF Told, INIT, DATA, COMPLETE
    <2>2. filled.stream \/ told.bytes <= filled.len \/ (filled.lent /\ ~told.asked)
      <3>1. CASE event = "data"
        BY <1>7, <1>10, <1>11, <3>1
      <3>2. CASE event # "data"
        BY <1>4, <1>10, <1>11, <3>2 DEF Told
      <3> QED BY <3>1, <3>2
    <2>3. told.asked /\ filled.short => filled.lent
      BY <1>4, <1>10, <1>11 DEF Told
    <2>4. ASSUME told.asked, told.state = COMPLETE
          PROVE  filled.state = COMPLETE /\ (filled.stream \/ told.bytes = filled.len)
      <3>1. event = "done"
        BY <1>6, <1>11, <2>4 DEF DATA, COMPLETE
      <3>2. b.stream \/ r.bytes <= b.len
        BY <1>4, <1>11, <2>4 DEF Told
      <3> QED BY <1>5, <1>6, <1>10, <1>11, <3>1, <3>2
    <2> QED BY <2>1, <2>2, <2>3, <2>4 DEF Told
  <1> DEFINE g == [h EXCEPT ![o] = filled]
             vs == [us EXCEPT ![u] = told]
  <1>14. objs' = g /\ users' = vs
    <2>1. event # "data" => h = g
      BY <1>1, <1>6, <1>9
    <2>2. event = "data" => [h EXCEPT ![o].len = kept] = g
      BY <1>1, <1>9
    <2> QED BY <1>3, <2>1, <2>2
  <1>15. Base(C, N, g, us)
    <2>1. Sound(filled, o \in C) /\ IsInjective(filled.users)
      BY <1>0, <1>1, <1>4, <1>10 DEF Sound, Handed
    <2>2. \A w \in Users : w \in Range(filled.users) =>
              /\ Told(us[w], filled)
              /\ \A p \in Objects : p # o => w \notin Range(h[p].users)
      BY <1>0, <1>1, <1>10, <1>12 DEF Informed, Handed
    <2> QED BY <1>8, <1>10, <2>1, <2>2, Replace
  <1>16. g[o] = filled /\ \A p \in Objects : p # o => g[p] = h[p]
    BY <1>1
  <1> HIDE DEF g
  <1>17. Base(C, N, g, vs)
    <2>1. \A p \in Objects : u \in Range(g[p].users) => Told(told, g[p])
      BY <1>0, <1>1, <1>10, <1>13, <1>16 DEF Handed
    <2> QED BY <1>8, <1>15, <2>1, Tell
  <1>18. vs[u] = told
    BY <1>1
  <1> HIDE DEF vs
  <1> DEFINE w == [Idle EXCEPT !.kind = "notify", !.list = list, !.obj = o,
                               !.user = u, !.event = event, !.seen = seen,
                               !.orig = orig]
  <1>19. /\ w.kind = "notify" /\ w.list = list /\ w.obj = o /\ w.user = u
         /\ w.event = event /\ w.seen = seen /\ w.orig = orig /\ ~w.doomed
         /\ w \in Walk
    BY <1>1, <1>6, <1>7 DEF Idle, Walk
  <1> HIDE DEF w
  <1>20. u # Tomb
    BY LlCacheAssumption
  <1>21. NoTomb(g)
    BY <1>10, <1>16 DEF NoTomb
  <1>22. Walker(C \cup N, g, w)
    BY <1>6, <1>10, <1>16, <1>19, <1>20, <1>21 DEF Walker, NoTomb
  <1>23. Notifying(g, vs, w)
    <2>1. JustTold(told, filled, w)
      <3>1. event = "data" /\ ~b.stream => orig <= kept
        BY <1>5, <1>6
      <3>2. event = "headers" => r.bytes = 0
        BY <1>4, <1>6 DEF Told
      <3> QED BY <1>6, <1>10, <1>11, <1>19, <3>1, <3>2 DEF JustTold
    <2> QED BY <1>6, <1>10, <1>16, <1>18, <1>19, <2>1 DEF Notifying
  <1>24. Following(g, vs, w)
    BY <1>6, <1>19 DEF Following
  <1>25. walk' = w
    BY <1>3 DEF w
  <1> QED BY <1>14, <1>17, <1>22, <1>23, <1>24, <1>25 DEF Walks

-----------------------------------------------------------------------------
(* The order of the visits *)
LEMMA PlaceFacts ==
    ASSUME TwoLists(cached, uncached)
    PROVE  /\ \A o \in Alive : Place(o) \in Nat
           /\ \A o, p \in Alive : Place(o) = Place(p) => o = p
  <1>1. \A x \in Range(cached) : /\ IndexOf(cached, x) \in 1..Len(cached)
                                 /\ cached[IndexOf(cached, x)] = x
    BY IndexFacts DEF TwoLists
  <1>2. \A x \in Range(uncached) : /\ IndexOf(uncached, x) \in 1..Len(uncached)
                                   /\ uncached[IndexOf(uncached, x)] = x
    BY IndexFacts DEF TwoLists
  <1>3. Len(cached) \in Nat /\ Len(uncached) \in Nat
    BY DEF TwoLists
  <1>4. \A o \in Alive : /\ o \in Range(cached) => Place(o) = IndexOf(cached, o)
                         /\ o \notin Range(cached) =>
                              /\ Place(o) = Len(cached) + IndexOf(uncached, o)
                              /\ o \in Range(uncached)
    BY DEF Place, Alive
  <1>5. ASSUME NEW o \in Alive, NEW p \in Alive, Place(o) = Place(p) PROVE o = p
    <2>1. CASE o \in Range(cached) /\ p \in Range(cached)
      BY <1>1, <1>4, <1>5, <2>1
    <2>2. CASE o \notin Range(cached) /\ p \notin Range(cached)
      <3>1. IndexOf(uncached, o) = IndexOf(uncached, p)
        BY <1>2, <1>3, <1>4, <1>5, <2>2
      <3> QED BY <1>2, <1>4, <2>2, <3>1
    <2>3. CASE o \in Range(cached) /\ p \notin Range(cached)
      BY <1>1, <1>2, <1>3, <1>4, <1>5, <2>3
    <2>4. CASE o \notin Range(cached) /\ p \in Range(cached)
      BY <1>1, <1>2, <1>3, <1>4, <1>5, <2>4
    <2> QED BY <2>1, <2>2, <2>3, <2>4
  <1>6. \A o \in Alive : Place(o) \in Nat
    BY <1>1, <1>2, <1>3, <1>4
  <1> QED BY <1>5, <1>6

LEMMA EarliestIsOne ==
    ASSUME TwoLists(cached, uncached), Base(Range(cached), Range(uncached), objs, users),
           NEW S \in SUBSET Visits, S # {}
    PROVE  /\ Earliest(S) \in S
           /\ \A v \in S \ {Earliest(S)} : Before(Earliest(S), v)
  <1>1. \A v \in S : v[1] \in Alive /\ v[2] \in Users /\ v = <<v[1], v[2]>>
                     /\ v[2] \in Range(objs[v[1]].users)
    BY DEF Visits, HasUser
  <1>2. /\ \A o \in Alive : Place(o) \in Nat
        /\ \A o, p \in Alive : Place(o) = Place(p) => o = p
    BY PlaceFacts
  <1>3. \A o \in Alive : /\ objs[o].users \in Seq(Users \cup {Tomb})
                         /\ IsInjective(objs[o].users)
    BY DEF Base, Typed, Handed, Object, Alive
  <1>4. \A o \in Alive : \A x \in Range(objs[o].users) :
           /\ IndexOf(objs[o].users, x) \in Nat
           /\ objs[o].users[IndexOf(objs[o].users, x)] = x
    <2> TAKE o \in Alive
    <2>1. \A x \in Range(objs[o].users) :
             /\ IndexOf(objs[o].users, x) \in 1..Len(objs[o].users)
             /\ objs[o].users[IndexOf(objs[o].users, x)] = x
      BY <1>3, IndexFacts
    <2> QED BY <1>3, <2>1
  <1> DEFINE P == {Place(v[1]) : v \in S}
  <1>5. PICK p \in P : \A q \in P : p <= q
    <2>1. P \in SUBSET Nat /\ P # {}
      BY <1>1, <1>2
    <2> HIDE DEF P
    <2> QED BY <2>1, Least
  <1>6. PICK v0 \in S : Place(v0[1]) = p
    OBVIOUS
  <1>7. PICK o : o = v0[1]
    OBVIOUS
  <1>8. /\ o \in Alive /\ \A w \in S : Place(o) <= Place(w[1])
        /\ \A w \in S : w[1] # o => Place(o) < Place(w[1])
    BY <1>1, <1>2, <1>5, <1>6, <1>7
  <1> DEFINE T == {w \in S : w[1] = o}
             Q == {IndexOf(objs[o].users, w[2]) : w \in T}
  <1>9. PICK i \in Q : \A j \in Q : i <= j
    <2>1. Q \in SUBSET Nat
      BY <1>1, <1>4, <1>8
    <2>2. Q # {}
      BY <1>6, <1>7
    <2> HIDE DEF Q
    <2> QED BY <2>1, <2>2, Least
  <1>10. PICK v \in T : IndexOf(objs[o].users, v[2]) = i
    OBVIOUS
  <1>11. ASSUME NEW w \in S, w # v PROVE Before(v, w)
    <2>1. v \in S /\ v[1] = o
      BY <1>10
    <2>2. CASE w[1] # o
      BY <1>8, <2>1, <2>2 DEF Before
    <2>3. CASE w[1] = o
      <3>1. w[2] # v[2]
        BY <1>1, <1>11, <2>1, <2>3
      <3>2. IndexOf(objs[o].users, w[2]) \in Nat /\ i \in Nat
        BY <1>1, <1>4, <1>10, <2>1, <2>3
      <3>3. i <= IndexOf(objs[o].users, w[2])
        BY <1>9, <2>3
      <3>4. IndexOf(objs[o].users, w[2]) # i
        BY <1>1, <1>4, <1>10, <2>1, <2>3, <3>1
      <3> QED BY <1>10, <2>1, <2>3, <3>2, <3>3, <3>4 DEF Before
    <2> QED BY <2>2, <2>3
  <1>12. \E x \in S : \A w \in S \ {x} : Before(x, w)
    BY <1>10, <1>11
  <1> HIDE DEF P, T, Q
  <1> QED BY <1>12 DEF Earliest

\* The walk goes on to the next visit, or ends.
LEMMA Proceeding ==
    ASSUME TwoLists(cached, uncached), Base(Range(cached), Range(uncached), objs, users),
           NEW h, NEW us, Base(Range(cached), Range(uncached), h, us), NoTomb(h),
           \A p \in Objects : h[p].state = objs[p].state /\ h[p].len = objs[p].len,
           NEW ahead \in SUBSET Visits,
           \A v \in ahead : v[2] \in Range(h[v[1]].users),
           Proceed(ahead, us, h)
    PROVE  /\ Base(Range(cached), Range(uncached), objs', users')
           /\ Walks(Alive, objs', users', walk')
  <1> DEFINE again == {v \in Due(us) : /\ Moved /\ v[1] \in Range(uncached)
                                       /\ v[2] \in Range(h[v[1]].users)}
             S == ahead \cap Due(us)
  <1>0. Alive \subseteq Objects
    BY DEF Base, Typed, Alive
  <1>1. ASSUME NEW v \in Due(us), v[2] \in Range(h[v[1]].users),
               NEW list \in {"cached", "uncached"}, Call(list, v, objs[v[1]].state, us, h)
        PROVE  /\ Base(Range(cached), Range(uncached), objs', users')
               /\ Walks(Alive, objs', users', walk')
    <2>1. PICK o \in Alive, u \in Users : v = <<o, u>>
      BY DEF Due, Visits
    <2>2. /\ v[1] = o /\ v[2] = u /\ o \in Objects
          /\ EventFor(us[u], objs[o], objs[o].state) # "none"
      BY <1>0, <2>1 DEF Due
    <2>3. objs[o].state = h[o].state /\ objs[o].len = h[o].len
      BY <2>2
    <2>4. EventFor(us[u], h[o], h[o].state) # "none"
      BY <2>2, <2>3 DEF EventFor
    <2>5. h[o].state \in INIT..COMPLETE
      BY <2>2 DEF Base, Typed, Object
    <2>6. h[o].state = COMPLETE => h[o].state >= DATA
      BY DEF COMPLETE, DATA
    <2>7. u \in Range(h[o].users) /\ Call(list, <<o, u>>, h[o].state, us, h)
      BY <1>1, <2>1, <2>2, <2>3
    <2>8. o \in Range(cached) \cup Range(uncached)
      BY <2>1 DEF Alive
    <2>9. /\ Base(Range(cached), Range(uncached), objs', users')
          /\ Walks(Range(cached) \cup Range(uncached), objs', users', walk')
      BY <2>4, <2>5, <2>6, <2>7, <2>8, Calling
    <2> QED BY <2>9 DEF Alive
  <1>2. CASE S # {}
    <2>1. PICK v : v = Earliest(S)
      OBVIOUS
    <2>2. v \in S
      BY <1>2, <2>1, EarliestIsOne
    <2>3. Call(IF Moved \/ v[1] \in Range(cached) THEN "cached" ELSE "uncached",
               v, objs[v[1]].state, us, h)
      BY <1>2, <2>1 DEF Proceed
    <2>4. (IF Moved \/ v[1] \in Range(cached) THEN "cached" ELSE "uncached")
             \in {"cached", "uncached"}
      OBVIOUS
    <2> QED BY <1>1, <2>2, <2>3, <2>4
  <1>3. CASE S = {} /\ again # {}
    <2>1. PICK v : v = Earliest(again)
      OBVIOUS
    <2>2. v \in again
      <3>1. again \in SUBSET Visits
        BY DEF Due
      <3> QED BY <1>3, <2>1, <3>1, EarliestIsOne
    <2>3. Call("uncached", v, objs[v[1]].state, us, h)
      BY <1>3, <2>1 DEF Proceed
    <2> QED BY <1>1, <2>2, <2>3
  <1>4. CASE S = {} /\ again = {}
    <2>1. walk' = Idle /\ users' = us /\ objs' = h
      BY <1>4 DEF Proceed
    <2> QED BY <2>1, IdleWalks
  <1> QED BY <1>2, <1>3, <1>4

\* A user, or the record it left behind, is taken away.
LEMMA Remove ==
    ASSUME NEW C, NEW N, NEW h, NEW us, Base(C, N, h, us), NEW o \in C \cup N, NEW x
    PROVE  LET g == RemoveUser(h, o, x)
           IN  /\ Base(C, N, g, us)
               /\ UsersApart(g[o], h[o])
               /\ Range(g[o].users) = Range(h[o].users) \ {x}
               /\ \A p \in Objects : p # o => g[p] = h[p]
  <1> DEFINE ws == Without(h[o].users, x)
             r == [h[o] EXCEPT !.users = ws]
             g == RemoveUser(h, o, x)
  <1>0. Typed(C, N, h, us) /\ Sounds(C, N, h) /\ Handed(h) /\ Informed(h, us)
    BY DEF Base
  <1>1. o \in Objects /\ h \in [Objects -> Object] /\ h[o] \in Object
    BY <1>0 DEF Typed
  <1>2. h[o].users \in Seq(Users \cup {Tomb}) /\ IsInjective(h[o].users)
    BY <1>0, <1>1 DEF Object, Handed
  <1>3. /\ ws \in Seq(Users \cup {Tomb}) /\ IsInjective(ws)
        /\ Range(ws) = Range(h[o].users) \ {x} /\ Len(ws) <= Len(h[o].users)
    BY <1>2, WithoutFacts
  <1>4. g = [h EXCEPT ![o] = r]
    BY <1>1 DEF RemoveUser
  <1> HIDE DEF ws
  <1>5. r \in Object /\ r.users = ws
    BY <1>1, <1>3 DEF Object
  <1>6. /\ r.state = h[o].state /\ r.fetch = h[o].fetch /\ r.url = h[o].url
        /\ r.cache = h[o].cache /\ r.len = h[o].len
        /\ r.candidate = h[o].candidate /\ r.count = h[o].count
        /\ r.forced = h[o].forced /\ r.stream = h[o].stream
        /\ r.lent = h[o].lent /\ r.short = h[o].short
    BY <1>1 DEF Object
  <1>7. /\ g[o] = r /\ \A p \in Objects : p # o => g[p] = h[p]
    BY <1>1, <1>4
  <1>8. UsersApart(g[o], h[o])
    BY <1>5, <1>7 DEF UsersApart
  <1> HIDE DEF r
  <1>9. Sound(r, o \in C)
    <2>1. Sound(h[o], o \in C)
      BY <1>0, <1>1 DEF Sounds
    <2>2. Len(ws) \in Nat /\ Len(h[o].users) \in Nat
      BY <1>2, <1>3
    <2> QED BY <1>3, <1>5, <1>6, <2>1, <2>2 DEF Sound
  <1>10. \A w \in Users : w \in Range(r.users) =>
            /\ Told(us[w], r)
            /\ \A p \in Objects : p # o => w \notin Range(h[p].users)
    BY <1>0, <1>1, <1>3, <1>5, <1>6 DEF Informed, Handed, Told
  <1>11. Base(C, N, g, us)
    <2> HIDE DEF g
    <2> QED BY <1>3, <1>4, <1>5, <1>6, <1>9, <1>10, Replace
  <1> HIDE DEF g
  <1> QED BY <1>3, <1>5, <1>7, <1>8, <1>11 DEF g

LEMMA Dropping ==
    ASSUME IInv, walk.kind \in {"notify", "send"}
    PROVE  LET h == RemoveUser(objs, walk.obj, walk.user)
           IN  /\ Base(Range(cached), Range(uncached), h, Dropped)
               /\ NoTomb(h)
               /\ \A p \in Objects : UsersApart(h[p], objs[p])
               /\ \A p \in Objects : Range(h[p].users) = Range(objs[p].users) \ {walk.user}
               /\ \A u \in Users \ {walk.user} : Dropped[u] = users[u]
  <1> DEFINE o == walk.obj
             x == walk.user
             h == RemoveUser(objs, o, x)
             C == Range(cached)
             N == Range(uncached)
  <1>0. Base(C, N, objs, users) /\ Walker(Alive, objs, walk)
    BY DEF IInv, Walks
  <1>1. /\ o \in C \cup N /\ o \in Objects /\ x \in Users \cup {Tomb}
        /\ x \in Range(objs[o].users)
        /\ \A p \in Objects : Tomb \in Range(objs[p].users) => x = Tomb /\ o = p
        /\ objs \in [Objects -> Object] /\ users \in [Users -> User]
        /\ Handed(objs)
    <2>1. x \in Range(objs[o].users) /\ o \in Alive /\ x \in Users \cup {None, Tomb}
      BY <1>0 DEF Walker, Walk
    <2>2. objs \in [Objects -> Object] /\ Alive \subseteq Objects
      BY <1>0 DEF Base, Typed, Alive
    <2>3. objs[o].users \in Seq(Users \cup {Tomb})
      BY <2>1, <2>2 DEF Object
    <2>4. None \notin Users \cup {Tomb}
      BY LlCacheAssumption
    <2>5. x # None
      BY <2>1, <2>3, <2>4 DEF Range
    <2> QED BY <1>0, <2>1, <2>2, <2>5 DEF Alive, Walker, Base, Typed
  <1>2. /\ Base(C, N, h, users)
        /\ UsersApart(h[o], objs[o])
        /\ Range(h[o].users) = Range(objs[o].users) \ {x}
        /\ \A p \in Objects : p # o => h[p] = objs[p]
    <2>1. Base(C, N, objs, users) /\ o \in C \cup N
      BY <1>0, <1>1
    <2> HIDE DEF o, x, C, N
    <2>2. LET g == RemoveUser(objs, o, x)
          IN  /\ Base(C, N, g, users)
              /\ UsersApart(g[o], objs[o])
              /\ Range(g[o].users) = Range(objs[o].users) \ {x}
              /\ \A p \in Objects : p # o => g[p] = objs[p]
      BY ONLY <2>1, Remove
    <2> QED BY <2>2, Zenon
  <1> HIDE DEF h
  <1>3. \A p \in Objects : p # o => x \notin Range(objs[p].users)
    BY <1>1 DEF Handed
  <1>4. \A p \in Objects : Range(h[p].users) = Range(objs[p].users) \ {x}
    BY <1>2, <1>3
  <1>5. \A p \in Objects : UsersApart(h[p], objs[p])
    <2>1. \A p \in Objects : objs[p] \in Object
      BY <1>1
    <2>2. \A p \in Objects : UsersApart(objs[p], objs[p])
      BY <2>1 DEF Object, UsersApart
    <2> QED BY <1>2, <2>2
  <1>6. NoTomb(h)
    BY <1>1, <1>4 DEF NoTomb
  <1>7. \A u \in Users \ {x} : Dropped[u] = users[u]
    BY <1>1 DEF Dropped
  <1>8. Base(C, N, h, Dropped)
    <2>1. CASE x \in Users
      <3>1. Dropped = [users EXCEPT ![x] = NoUser]
        BY <2>1 DEF Dropped
      <3>2. NoUser \in User
        BY LlCacheAssumption DEF NoUser, User, INIT, COMPLETE
      <3>3. \A p \in Objects : x \in Range(h[p].users) => Told(NoUser, h[p])
        BY <1>4
      <3> HIDE DEF C, N, x
      <3> QED BY <1>2, <2>1, <3>1, <3>2, <3>3, Tell
    <2>2. CASE x \notin Users
      BY <1>2, <2>2 DEF Dropped
    <2> QED BY <2>1, <2>2
  <1> QED BY <1>4, <1>5, <1>6, <1>7, <1>8 DEF h

-----------------------------------------------------------------------------
(* The steps of a walk *)

\* The lists stay as they are.
LEMMA ListsStay ==
    ASSUME TwoLists(cached, uncached), UNCHANGED <<cached, uncached>>,
           Base(Range(cached), Range(uncached), objs', users'),
           Walks(Alive, objs', users', walk')
    PROVE  IInv'
  <1>1. Alive' = Alive
    BY DEF Alive
  <1> QED BY <1>1 DEF IInv

LEMMA Resting ==
    ASSUME IInv, walk.kind = "none"
    PROVE  walk = Idle /\ NoTomb(objs)
  <1>1. walk = Idle
    BY DEF IInv, Walks, Walker
  <1>2. walk.user # Tomb
    BY <1>1, LlCacheAssumption DEF Idle
  <1> QED BY <1>1, <1>2, IdleHasNoTomb DEF IInv

LEMMA CatchUpStep ==
    ASSUME IInv, CatchUp
    PROVE  IInv'
  <1>1. NoTomb(objs)
    BY Resting DEF CatchUp
  <1>2. /\ TwoLists(cached, uncached)
        /\ Base(Range(cached), Range(uncached), objs, users)
    BY DEF IInv
  <1>3. Proceed(Visits, users, objs) /\ UNCHANGED <<cached, uncached>>
    BY DEF CatchUp
  <1>4. \A v \in Visits : v[2] \in Range(objs[v[1]].users)
    BY DEF Visits, HasUser
  <1>5. /\ Base(Range(cached), Range(uncached), objs', users')
        /\ Walks(Alive, objs', users', walk')
    BY <1>1, <1>2, <1>3, <1>4, Proceeding
  <1> QED BY <1>2, <1>3, <1>5, ListsStay

\* Where the walk is
LEMMA AtUser ==
    ASSUME IInv, walk.kind \in {"notify", "send"}
    PROVE  /\ walk.obj \in Alive /\ walk.obj \in Objects
           /\ walk.user \in Users \cup {Tomb}
           /\ walk.user \in Range(objs[walk.obj].users)
           /\ \A o \in Objects : walk.user \in Range(objs[o].users) => o = walk.obj
           /\ ~walk.doomed => walk.user \in Users /\ NoTomb(objs)
  <1>0. /\ Walker(Alive, objs, walk)
        /\ Base(Range(cached), Range(uncached), objs, users)
    BY DEF IInv, Walks
  <1>1. /\ walk.obj \in Alive /\ walk.user \in Range(objs[walk.obj].users)
        /\ walk.user = Tomb => walk.doomed
        /\ \A o \in Objects : Tomb \in Range(objs[o].users) => walk.user = Tomb /\ walk.obj = o
    BY <1>0 DEF Walker
  <1>2. walk.obj \in Objects /\ objs[walk.obj].users \in Seq(Users \cup {Tomb}) /\ Handed(objs)
    BY <1>0, <1>1 DEF Base, Typed, Alive, Object
  <1>3. walk.user \in Users \cup {Tomb}
    BY <1>1, <1>2 DEF Range
  <1>4. \A o \in Objects : walk.user \in Range(objs[o].users) => o = walk.obj
    BY <1>1, <1>2, <1>3 DEF Handed
  <1> QED BY <1>1, <1>2, <1>3, <1>4 DEF NoTomb

\* The visits ahead are to others.
LEMMA AheadIsOthers ==
    ASSUME IInv, walk.kind \in {"notify", "send"}, NEW v \in Visits, Before(Here, v)
    PROVE  v[2] # walk.user
  <1>1. /\ v[1] \in Alive /\ v[2] \in Users /\ v[2] \in Range(objs[v[1]].users)
    BY DEF Visits, HasUser
  <1>2. /\ TwoLists(cached, uncached)
        /\ Base(Range(cached), Range(uncached), objs, users)
    BY DEF IInv
  <1>3. v[1] \in Objects
    BY <1>1, <1>2 DEF Base, Typed, Alive
  <1> SUFFICES ASSUME v[2] = walk.user PROVE FALSE
    OBVIOUS
  <1>4. v[1] = walk.obj
    BY <1>1, <1>3, AtUser
  <1>5. Place(v[1]) \in Nat
    BY <1>1, <1>2, PlaceFacts
  <1>6. objs[v[1]].users \in Seq(Users \cup {Tomb}) /\ IsInjective(objs[v[1]].users)
    BY <1>2, <1>3 DEF Base, Typed, Object, Handed
  <1>7. IndexOf(objs[v[1]].users, v[2]) \in 1..Len(objs[v[1]].users)
    BY <1>1, <1>6, IndexFacts
  <1>8. IndexOf(objs[v[1]].users, v[2]) \in Nat
    BY <1>6, <1>7
  <1>9. \/ Place(v[1]) < Place(v[1])
        \/ IndexOf(objs[v[1]].users, v[2]) < IndexOf(objs[v[1]].users, v[2])
    BY <1>4 DEF Before, Here
  <1> QED BY <1>5, <1>8, <1>9

LEMMA ReturnedStep ==
    ASSUME IInv, NEW answer, Returned(answer)
    PROVE  IInv'
  <1>0. /\ walk.kind = "notify" /\ UNCHANGED <<cached, uncached>>
    BY DEF Returned
  <1>1. /\ TwoLists(cached, uncached)
        /\ Base(Range(cached), Range(uncached), objs, users)
        /\ Walker(Alive, objs, walk) /\ Notifying(objs, users, walk)
    BY DEF IInv, Walks
  <1>2. /\ walk.obj \in Alive /\ walk.obj \in Objects
        /\ walk.user \in Range(objs[walk.obj].users)
        /\ \A o \in Objects : walk.user \in Range(objs[o].users) => o = walk.obj
        /\ ~walk.doomed => walk.user \in Users /\ NoTomb(objs)
    BY <1>0, AtUser
  <1>3. /\ Ahead(answer) \in SUBSET Visits
        /\ \A v \in Ahead(answer) : /\ v[2] \in Range(objs[v[1]].users)
                                    /\ v[1] \in Objects /\ v[2] # walk.user
    <2>1. \A v \in Ahead(answer) : v \in Visits /\ Before(Here, v)
      BY DEF Ahead
    <2>2. \A v \in Visits : v[2] \in Range(objs[v[1]].users) /\ v[1] \in Objects
      BY <1>1 DEF Visits, HasUser, Base, Typed, Alive
    <2> QED BY <1>0, <2>1, <2>2, AheadIsOthers
  <1>4. CASE walk.doomed
    <2> DEFINE h == RemoveUser(objs, walk.obj, walk.user)
    <2>1. Proceed(Ahead(answer), Dropped, h)
      BY <1>4 DEF Returned
    <2>2. /\ Base(Range(cached), Range(uncached), h, Dropped)
          /\ NoTomb(h)
          /\ \A p \in Objects : UsersApart(h[p], objs[p])
          /\ \A p \in Objects : Range(h[p].users) = Range(objs[p].users) \ {walk.user}
      BY <1>0, Dropping
    <2> HIDE DEF h
    <2>3. \A p \in Objects : h[p].state = objs[p].state /\ h[p].len = objs[p].len
      <3>1. \A p \in Objects : objs[p] \in Object
        BY <1>1 DEF Base, Typed
      <3> QED BY <2>2, <3>1 DEF Object, UsersApart
    <2>4. \A v \in Ahead(answer) : v[2] \in Range(h[v[1]].users)
      BY <1>3, <2>2
    <2>5. /\ Base(Range(cached), Range(uncached), objs', users')
          /\ Walks(Alive, objs', users', walk')
      BY <1>1, <1>3, <2>1, <2>2, <2>3, <2>4, Proceeding
    <2> QED BY <1>0, <1>1, <2>5, ListsStay
  <1>5. CASE ~walk.doomed
    <2> DEFINE u == walk.user
               o == walk.obj
               us == IF answer = "need" THEN [users EXCEPT ![u] = Replayed(@)] ELSE users
    <2>1. IF /\ answer = "ok" /\ EventFor(us[u], It, walk.seen) # "none"
          THEN Call(walk.list, Here, walk.seen, us, objs)
          ELSE Proceed(Ahead(answer), us, objs)
      BY <1>5 DEF Returned
    <2>2. u \in Users /\ NoTomb(objs) /\ o \in Objects
      BY <1>2, <1>5
    <2>3. /\ walk.seen >= DATA /\ objs[o].state >= DATA
          /\ walk.seen = COMPLETE => objs[o].state = COMPLETE
          /\ JustTold(users[u], objs[o], walk)
          /\ walk.event \in {"headers", "data", "done"}
          /\ walk.seen \in INIT..COMPLETE /\ walk.orig \in 0..MaxLen
          /\ walk.list \in {"cached", "uncached"}
      BY <1>0, <1>1, <1>5 DEF Notifying, Walker, Walk
    <2>4. Base(Range(cached), Range(uncached), objs, us)
      <3> DEFINE r == Replayed(users[u])
      <3>1. users[u] \in User /\ Told(users[u], objs[o])
        BY <1>1, <1>2, <2>2 DEF Base, Typed, Informed
      <3>2. r \in User
        BY <2>3, <3>1 DEF Replayed, User, INIT, DATA, COMPLETE
      <3>3. Told(r, objs[o])
        <4>a. 0 <= objs[o].len
          BY <1>1, <2>2 DEF Base, Typed, Object
        <4>1. CASE walk.event = "headers"
          <5>1. r.state = INIT /\ r.bytes = 0 /\ (r.asked <=> users[u].asked)
            BY <2>3, <3>1, <4>1 DEF Replayed, User, JustTold
          <5> QED BY <3>1, <4>a, <5>1 DEF Told, INIT, DATA, COMPLETE
        <4>2. CASE walk.event = "data"
          <5>1. r.state = DATA /\ r.bytes = walk.orig /\ (r.asked <=> users[u].asked)
                /\ (objs[o].stream \/ walk.orig <= objs[o].len
                       \/ (objs[o].lent /\ ~users[u].asked))
            BY <2>3, <3>1, <4>2 DEF Replayed, User, JustTold
          <5> QED BY <2>3, <3>1, <5>1 DEF Told, INIT, DATA, COMPLETE
        <4>3. CASE walk.event = "done"
          <5>1. r.state = DATA /\ r.bytes = users[u].bytes /\ (r.asked <=> users[u].asked)
            BY <2>3, <3>1, <4>3 DEF Replayed, User
          <5> QED BY <2>3, <3>1, <5>1 DEF Told, INIT, DATA, COMPLETE
        <4> QED BY <2>3, <4>1, <4>2, <4>3
      <3>4. \A p \in Objects : u \in Range(objs[p].users) => Told(r, objs[p])
        BY <1>2, <3>3
      <3>5. us = IF answer = "need" THEN [users EXCEPT ![u] = r] ELSE users
        BY <2>2, <1>1 DEF Base, Typed
      <3> HIDE DEF r, us, u, o
      <3>6. Base(Range(cached), Range(uncached), objs, [users EXCEPT ![u] = r])
        BY <1>1, <2>2, <3>2, <3>4, Tell
      <3> QED BY <1>1, <3>5, <3>6
    <2>5. CASE answer = "ok" /\ EventFor(us[u], It, walk.seen) # "none"
      <3>1. us = users
        BY <2>5
      <3>2. EventFor(users[u], objs[o], walk.seen) # "none"
        BY <2>5, <3>1 DEF It
      <3>3. Call(walk.list, <<o, u>>, walk.seen, users, objs)
        BY <2>1, <2>5, <3>1 DEF Here
      <3>4. o \in Range(cached) \cup Range(uncached) /\ u \in Range(objs[o].users)
        BY <1>2 DEF Alive
      <3>5. /\ Base(Range(cached), Range(uncached), objs', users')
            /\ Walks(Range(cached) \cup Range(uncached), objs', users', walk')
        <4> HIDE DEF u, o, us
        <4> QED BY <1>1, <2>2, <2>3, <3>2, <3>3, <3>4, Calling
      <3> QED BY <1>0, <1>1, <3>5, ListsStay DEF Alive
    <2>6. CASE ~(answer = "ok" /\ EventFor(us[u], It, walk.seen) # "none")
      <3>1. Proceed(Ahead(answer), us, objs)
        BY <2>1, <2>6
      <3>2. \A v \in Ahead(answer) : v[2] \in Range(objs[v[1]].users)
        BY <1>3
      <3>3. /\ Base(Range(cached), Range(uncached), objs', users')
            /\ Walks(Alive, objs', users', walk')
        <4> HIDE DEF u, o, us
        <4> QED BY <1>1, <1>3, <2>2, <2>4, <3>1, <3>2, Proceeding
      <3> QED BY <1>0, <1>1, <3>3, ListsStay
    <2> QED BY <2>5, <2>6
  <1> QED BY <1>4, <1>5

LEMMA NextFacts ==
    ASSUME NEW S, NEW q \in Seq(S), IsInjective(q)
    PROVE  /\ First(q) = None \/ First(q) \in Range(q)
           /\ \A x \in Range(q) : After(q, x) = None \/ After(q, x) \in Range(q) \ {x}
  <1>1. DOMAIN q = 1..Len(q) /\ Len(q) \in Nat
    OBVIOUS
  <1>2. First(q) = None \/ First(q) \in Range(q)
    <2>1. q # <<>> => 1 \in DOMAIN q
      BY <1>1
    <2> QED BY <2>1 DEF First, Range
  <1>3. ASSUME NEW x \in Range(q), After(q, x) # None
        PROVE  After(q, x) \in Range(q) \ {x}
    <2>1. PICK i : i = IndexOf(q, x)
      OBVIOUS
    <2>2. i \in 1..Len(q) /\ q[i] = x
      BY <2>1, IndexFacts
    <2>3. i < Len(q) /\ After(q, x) = q[i + 1]
      BY <1>3, <2>1 DEF After
    <2>4. i + 1 \in DOMAIN q /\ i \in DOMAIN q /\ i + 1 # i
      BY <1>1, <2>2, <2>3
    <2> QED BY <2>2, <2>3, <2>4 DEF Range, IsInjective
  <1> QED BY <1>2, <1>3

\* An event is sent to the next user, or all of them were told.
LEMMA Sending ==
    ASSUME NEW A \in SUBSET Objects, NEW h, NEW us, NoTomb(h),
           NEW event \in {"message", "redirect"}, NEW o \in A, NEW u,
           u = None \/ (u \in Users /\ u \in Range(h[o].users)),
           NEW to \in Urls \cup {None}, SendAt(event, o, u, to),
           event = "redirect" => Redirected(h, us, o, to)
    PROVE  Walks(A, h, us, walk')
  <1>a. o \in Objects /\ INIT \in INIT..COMPLETE /\ 0 \in 0..MaxLen
    BY LlCacheAssumption DEF INIT, COMPLETE
  <1>1. CASE u # None
    <2> DEFINE w == [Idle EXCEPT !.kind = "send", !.obj = o, !.user = u,
                                 !.event = event, !.to = to]
    <2>1. walk' = w
      BY <1>1 DEF SendAt
    <2>2. /\ w \in Walk /\ w.kind = "send" /\ w.obj = o /\ w.user = u
          /\ w.event = event /\ w.to = to
      BY <1>1, <1>a DEF Idle, Walk
    <2> HIDE DEF w
    <2>3. u # Tomb
      BY <1>1, LlCacheAssumption
    <2>4. Walker(A, h, w)
      BY <1>1, <2>2, <2>3 DEF Walker, NoTomb
    <2>5. Notifying(h, us, w) /\ Following(h, us, w)
      BY <2>2 DEF Notifying, Following
    <2> QED BY <2>1, <2>4, <2>5 DEF Walks
  <1>2. CASE u = None /\ event = "redirect"
    <2> DEFINE w == [Idle EXCEPT !.kind = "follow", !.obj = o, !.to = to]
    <2>1. walk' = w
      BY <1>2 DEF SendAt
    <2>2. /\ w \in Walk /\ w.kind = "follow" /\ w.obj = o /\ w.user = None
          /\ w.event = "none" /\ w.to = to
      BY <1>a DEF Idle, Walk
    <2> HIDE DEF w
    <2>3. None # Tomb
      BY LlCacheAssumption
    <2>4. Walker(A, h, w)
      BY <2>2, <2>3 DEF Walker, NoTomb
    <2>5. Notifying(h, us, w) /\ Following(h, us, w)
      BY <1>2, <2>2 DEF Notifying, Following
    <2> QED BY <2>1, <2>4, <2>5 DEF Walks
  <1>3. CASE u = None /\ event # "redirect"
    <2>1. walk' = Idle
      BY <1>3 DEF SendAt
    <2> QED BY <2>1, IdleWalks
  <1> QED BY <1>1, <1>2, <1>3

LEMMA SendNextStep ==
    ASSUME IInv, SendNext
    PROVE  IInv'
  <1> DEFINE o == walk.obj
             x == walk.user
             n == After(It.users, x)
  <1>0. /\ walk.kind = "send" /\ UNCHANGED <<cached, uncached>>
        /\ SendAt(walk.event, o, n, walk.to)
    BY DEF SendNext
  <1>1. /\ TwoLists(cached, uncached)
        /\ Base(Range(cached), Range(uncached), objs, users)
        /\ Walker(Alive, objs, walk) /\ Following(objs, users, walk)
    BY DEF IInv, Walks
  <1>2. /\ o \in Alive /\ o \in Objects /\ x \in Users \cup {Tomb}
        /\ x \in Range(objs[o].users)
        /\ ~walk.doomed => x \in Users /\ NoTomb(objs)
        /\ Alive \subseteq Objects
    BY <1>0, <1>1, AtUser DEF Base, Typed, Alive
  <1>3. /\ walk.event \in {"message", "redirect"} /\ walk.to \in Urls \cup {None}
        /\ Tomb \in Range(objs[o].users) => x = Tomb
    BY <1>0, <1>1, <1>2 DEF Walker, Walk
  <1>4. objs[o].users \in Seq(Users \cup {Tomb}) /\ IsInjective(objs[o].users)
    BY <1>1, <1>2 DEF Base, Typed, Handed, Object
  <1>5. n = None \/ (n \in Users /\ n \in Range(objs[o].users) \ {x})
    <2>1. n = None \/ n \in Range(objs[o].users) \ {x}
      BY <1>2, <1>4, NextFacts DEF It
    <2>2. \A y \in Range(objs[o].users) : y \in Users \cup {Tomb}
      BY <1>4 DEF Range
    <2> QED BY <1>3, <2>1, <2>2
  <1>6. /\ Base(Range(cached), Range(uncached), objs', users')
        /\ NoTomb(objs')
        /\ \A p \in Objects : UsersApart(objs'[p], objs[p])
        /\ Range(objs'[o].users) \subseteq Range(objs[o].users)
        /\ \A y \in Range(objs[o].users) \ {x} : y \in Range(objs'[o].users)
        /\ \A y \in Users : y \in Range(objs'[o].users) => users'[y] = users[y]
    <2>1. CASE walk.doomed
      <3>1. objs' = RemoveUser(objs, o, x) /\ users' = Dropped
        BY <2>1 DEF SendNext
      <3> QED BY <1>0, <1>2, <3>1, Dropping
    <2>2. CASE ~walk.doomed
      <3>1. objs' = objs /\ users' = users
        BY <2>2 DEF SendNext
      <3>2. \A p \in Objects : UsersApart(objs[p], objs[p])
        <4>1. \A p \in Objects : objs[p] \in Object
          BY <1>1 DEF Base, Typed
        <4> QED BY <4>1 DEF Object, UsersApart
      <3> QED BY <1>1, <1>2, <2>2, <3>1, <3>2
    <2> QED BY <2>1, <2>2
  <1>7. walk.event = "redirect" => Redirected(objs', users', o, walk.to)
    <2> SUFFICES ASSUME walk.event = "redirect"
                 PROVE  Redirected(objs', users', o, walk.to)
      OBVIOUS
    <2>1. Redirected(objs, users, o, walk.to)
      BY <1>1 DEF Following
    <2>2. objs[o] \in Object /\ UsersApart(objs'[o], objs[o])
      BY <1>1, <1>2, <1>6 DEF Base, Typed
    <2>3. /\ objs'[o].state = objs[o].state /\ objs'[o].cache = objs[o].cache
          /\ objs'[o].redirects = objs[o].redirects
          /\ (objs'[o].stream <=> objs[o].stream) /\ (objs'[o].forced <=> objs[o].forced)
      BY <2>2 DEF UsersApart, Object
    <2> QED BY <1>6, <2>1, <2>3 DEF Redirected
  <1> HIDE DEF n, o
  <1>8. Walks(Alive, objs', users', walk')
    <2>1. n = None \/ (n \in Users /\ n \in Range(objs'[o].users))
      BY <1>5, <1>6
    <2> QED BY <1>0, <1>2, <1>3, <1>6, <1>7, <2>1, Sending
  <1> QED BY <1>0, <1>1, <1>6, <1>8, ListsStay

\* What is retrieved is nobody's, or good for everybody.
LEMMA Retrieved ==
    ASSUME TwoLists(cached, uncached), Base(Range(cached), Range(uncached), objs, users),
           NEW url \in Urls, NEW forced \in BOOLEAN, NEW stream \in BOOLEAN,
           stream => forced, NEW redirects \in 0..(RedirectLimit + 1),
           NEW r \in Retrievals(url, forced, stream, redirects)
    PROVE  /\ TwoLists(r.cached, r.uncached)
           /\ Base(Range(r.cached), Range(r.uncached), r.objs, users)
           /\ Alive \subseteq Range(r.cached) \cup Range(r.uncached)
           /\ r.found \in Range(r.cached) \cup Range(r.uncached)
           /\ \A p \in Alive : Alike(r.objs[p], objs[p])
           /\ \A p \in Objects \ Alive : r.objs[p].users = <<>>
           /\ r.found \in Alive => IsFresh(objs[r.found])
           /\ r.objs[r.found].stream => /\ stream
                                        /\ r.objs[r.found].users = <<>>
           /\ r.objs[r.found].short => r.objs[r.found].lent
  <1>0. /\ TwoLists(r.cached, r.uncached)
        /\ Base(Range(r.cached), Range(r.uncached), r.objs, users)
        /\ Old(r) \/ New(r, forced, stream)
    BY Retrieval
  <1>1. /\ objs \in [Objects -> Object] /\ Sounds(Range(cached), Range(uncached), objs)
        /\ Alive = Range(cached) \cup Range(uncached) /\ Alive \subseteq Objects
    BY DEF Base, Typed, Alive
  <1>2. \A p \in Objects \ Alive : objs[p].users = <<>>
    BY <1>1 DEF Sounds, NoObject
  <1>3. CASE Old(r)
    <2>1. /\ r.cached = cached /\ r.uncached = uncached /\ r.objs = objs
          /\ r.found \in Range(cached) /\ IsFresh(objs[r.found])
      BY <1>3 DEF Old
    <2>2. \A p \in Alive : Alike(r.objs[p], objs[p])
      BY <2>1 DEF Alike
    <2>3. Sound(objs[r.found], TRUE)
      BY <1>1, <2>1 DEF Sounds
    <2>4. ~objs[r.found].stream
      BY <2>3 DEF Sound
    <2>5. objs[r.found].short => objs[r.found].lent
      BY <2>1, <2>3 DEF Sound, IsFresh, HasLifetime
    <2> QED BY <1>0, <1>1, <1>2, <2>1, <2>2, <2>4, <2>5
  <1>4. CASE New(r, forced, stream)
    <2>1. /\ r.found \in Objects /\ r.found \notin Alive
          /\ Range(r.cached) \cup Range(r.uncached) = Alive \cup {r.found}
          /\ \A p \in Alive : Alike(r.objs[p], objs[p])
          /\ \A p \in Objects \ (Alive \cup {r.found}) : r.objs[p] = objs[p]
      BY <1>4 DEF New, NewObjects
    <2>2. PICK b \in Object : /\ Alike(r.objs[r.found], b)
                              /\ b.users = <<>> /\ b.state = INIT /\ ~b.short /\ ~b.lent
                              /\ (b.forced <=> forced) /\ (b.stream <=> stream)
      BY <1>4 DEF New
    <2>3. /\ r.objs[r.found].users = <<>> /\ ~r.objs[r.found].short
          /\ (r.objs[r.found].stream <=> stream)
      BY <2>2 DEF Alike
    <2>4. \A p \in Objects \ Alive : r.objs[p].users = <<>>
      BY <1>2, <2>1, <2>3
    <2> QED BY <1>0, <2>1, <2>3, <2>4
  <1> QED BY <1>0, <1>3, <1>4

LEMMA FollowStep ==
    ASSUME IInv, Follow
    PROVE  IInv'
  <1> DEFINE o == walk.obj
  <1>0. /\ walk.kind = "follow"
        /\ TwoLists(cached, uncached)
        /\ Base(Range(cached), Range(uncached), objs, users)
        /\ Walker(Alive, objs, walk) /\ Following(objs, users, walk)
    BY DEF IInv, Walks, Follow
  <1>1. PICK r \in Retrievals(walk.to, It.forced, It.stream, It.redirects + 1) :
           /\ cached' = r.cached /\ uncached' = r.uncached
           /\ objs' = MovedUsers(r.objs, o, r.found)
    BY DEF Follow
  <1>2. walk' = Idle /\ users' = users
    BY DEF Follow
  <1>3. NoTomb(objs)
    <2>1. walk.user # Tomb
      BY <1>0, LlCacheAssumption DEF Walker
    <2> QED BY <2>1, IdleHasNoTomb DEF IInv
  <1>4. /\ o \in Alive /\ o \in Objects /\ objs[o] \in Object /\ Alive \subseteq Objects
        /\ Sound(objs[o], o \in Range(cached)) /\ Redirected(objs, users, o, walk.to)
        /\ users \in [Users -> User]
    BY <1>0 DEF Walker, Base, Typed, Sounds, Alive, Following
  <1> DEFINE f == r.found
             h == r.objs
             C == Range(r.cached)
             N == Range(r.uncached)
  <1>5. /\ TwoLists(r.cached, r.uncached) /\ Base(C, N, h, users)
        /\ Alive \subseteq C \cup N /\ f \in C \cup N
        /\ \A p \in Alive : Alike(h[p], objs[p])
        /\ \A p \in Objects \ Alive : h[p].users = <<>>
        /\ f \in Alive => IsFresh(objs[f])
        /\ h[f].stream => It.stream /\ h[f].users = <<>>
        /\ h[f].short => h[f].lent
    <2> DEFINE url == walk.to
               forced == It.forced
               stream == It.stream
               redirects == It.redirects + 1
    <2>1. /\ url \in Urls /\ forced \in BOOLEAN /\ stream \in BOOLEAN
          /\ stream => forced
      BY <1>4 DEF Redirected, It, Object
    <2>2. redirects \in 0..(RedirectLimit + 1)
      BY <1>4, LlCacheAssumption DEF Redirected, It, Object
    <2>3. r \in Retrievals(url, forced, stream, redirects)
      OBVIOUS
    <2> HIDE DEF url, forced, stream, redirects
    <2> QED BY <1>0, <2>1, <2>2, <2>3, Retrieved DEF stream
  <1>6. o # f
    <2>1. ~IsFresh(objs[o])
      BY <1>4 DEF Redirected, IsFresh, HasLifetime
    <2> QED BY <1>4, <1>5, <2>1
  <1>7. f \in Objects /\ h \in [Objects -> Object]
    BY <1>5 DEF Base, Typed
  <1>8. h[o].users = objs[o].users
    BY <1>4, <1>5 DEF Alike
  <1>9. ASSUME NEW u \in Users, u \in Range(h[o].users) PROVE Told(users[u], h[f])
    <2>1. users[u].state < DATA /\ users[u] \in User
      BY <1>4, <1>8, <1>9 DEF Redirected
    <2>2. users[u].bytes = 0
      <3>1. Told(users[u], objs[o])
        BY <1>0, <1>4, <1>8, <1>9 DEF Base, Informed
      <3> QED BY <2>1, <3>1 DEF Told
    <2>3. 0 <= h[f].len
      BY <1>7 DEF Object
    <2> QED BY <1>5, <2>1, <2>2, <2>3 DEF Told, User, INIT, DATA, COMPLETE
  <1>10. h[f].stream /\ ~h[f].lent => Len(h[o].users) + Len(h[f].users) <= 1
    <2> SUFFICES ASSUME h[f].stream PROVE Len(h[o].users) + Len(h[f].users) <= 1
      OBVIOUS
    <2>1. objs[o].stream /\ h[f].users = <<>> /\ Len(<<>>) = 0
      BY <1>5 DEF It
    <2>2. objs[o].forced
      BY <1>4, <2>1 DEF Redirected
    <2>3. Len(objs[o].users) <= 1
      BY <1>4, <2>1, <2>2 DEF Sound
    <2>4. objs[o].users \in Seq(Users \cup {Tomb})
      BY <1>4 DEF Object
    <2>5. Len(objs[o].users) \in Nat
      BY <2>4
    <2> QED BY <1>8, <2>1, <2>3, <2>5
  <1>11. Tomb \notin Range(h[o].users) /\ o \in C \cup N
    BY <1>3, <1>4, <1>5, <1>8 DEF NoTomb
  <1> DEFINE g == MovedUsers(h, o, f)
  <1>12. /\ Base(C, N, g, users) /\ g[o].users = <<>>
         /\ Range(g[f].users) = Range(h[o].users) \cup Range(h[f].users)
         /\ Elsewhere(g, h, {o, f})
    <2>1. /\ Base(C, N, h, users) /\ o \in C \cup N /\ f \in C \cup N
          /\ Tomb \notin Range(h[o].users)
      BY <1>5, <1>11
    <2>2. \A u \in Users : u \in Range(h[o].users) => Told(users[u], h[f])
      BY <1>9
    <2> HIDE DEF h, f, C, N, o
    <2>3. HandedOver(C, N, h, users, o, f, MovedUsers(h, o, f))
      BY ONLY <1>6, <1>10, <2>1, <2>2, HandOver
    <2> QED BY <2>3 DEF HandedOver
  <1>13. NoTomb(h)
    <2>1. Range(<<>>) = {}
      BY DEF Range
    <2> QED BY <1>3, <1>4, <1>5, <2>1 DEF NoTomb, Alike
  <1>14. NoTomb(g)
    <2>1. Range(<<>>) = {}
      BY DEF Range
    <2> HIDE DEF g, h, f, o
    <2>2. \A p \in Objects \ {o, f} : g[p].users = h[p].users
      BY <1>12 DEF Elsewhere
    <2> QED BY <1>7, <1>12, <1>13, <1>11, <2>1, <2>2 DEF NoTomb
  <1>15. /\ TwoLists(cached', uncached')
         /\ Base(Range(cached'), Range(uncached'), objs', users')
         /\ Walks(Alive', objs', users', walk')
    <2>1. objs' = g
      BY <1>1
    <2> HIDE DEF g
    <2> QED BY <1>1, <1>2, <1>5, <1>12, <1>14, <2>1, IdleWalks
  <1> QED BY <1>15 DEF IInv

LEMMA DoNotFollowStep ==
    ASSUME IInv, DoNotFollow
    PROVE  IInv'
  <1>1. /\ TwoLists(cached, uncached)
        /\ Base(Range(cached), Range(uncached), objs, users)
        /\ Walker(Alive, objs, walk)
    BY DEF IInv, Walks
  <1>2. walk.user # Tomb
    BY <1>1, LlCacheAssumption DEF Walker, DoNotFollow
  <1>3. NoTomb(objs)
    BY <1>2, IdleHasNoTomb DEF IInv
  <1>4. walk' = Idle /\ UNCHANGED <<cached, uncached, objs, users>>
    BY DEF DoNotFollow
  <1> QED BY <1>1, <1>3, <1>4, IdleWalks, ListsStay

-----------------------------------------------------------------------------
(* The messages of a fetch *)
Good(h, us) == Base(Range(cached), Range(uncached), h, us) /\ NoTomb(h)

\* An object that is being fetched makes progress, or is over.
Progress(r, b) ==
    /\ r.users = b.users /\ r.url = b.url /\ r.len >= b.len
    /\ (r.forced <=> b.forced) /\ (r.stream <=> b.stream)
    /\ (r.short <=> b.short) /\ (r.lent <=> b.lent)
    /\ b.state >= DATA => r.state >= DATA
    /\ r.fetch <=> r.state # COMPLETE

LEMMA Fetched ==
    ASSUME IInv, NEW o \in Alive, FromFetcher(o),
           NEW h, Base(Range(cached), Range(uncached), h, users),
           \A p \in Objects : Alike(h[p], objs[p]),
           NEW r \in Object, Progress(r, objs[o]),
           r.candidate = h[o].candidate, r.count = h[o].count
    PROVE  Good([h EXCEPT ![o] = r], users)
  <1> DEFINE C == Range(cached)
             N == Range(uncached)
             b == objs[o]
             g == [h EXCEPT ![o] = r]
  <1>0. /\ o \in Objects /\ o \in C \cup N /\ b \in Object /\ b.fetch
        /\ Base(C, N, objs, users) /\ Sound(b, o \in C) /\ NoTomb(objs)
        /\ users \in [Users -> User] /\ h \in [Objects -> Object] /\ h[o] \in Object
    BY Resting DEF IInv, Base, Typed, Sounds, Alive, FromFetcher
  <1>1. Alike(h[o], b)
    BY <1>0
  <1>2. b.state # COMPLETE
    BY <1>0 DEF Sound
  <1>3. Sound(r, o \in C)
    BY <1>0, <1>2 DEF Sound, Progress
  <1>4. IsInjective(r.users) /\ r.users = b.users
    BY <1>0 DEF Progress, Base, Handed
  <1>5. r.forced = h[o].forced
    <2>1. r.forced \in BOOLEAN /\ h[o].forced \in BOOLEAN
      BY <1>0 DEF Object
    <2> QED BY <1>1, <2>1 DEF Alike, Progress
  <1>6. ASSUME NEW u \in Users, u \in Range(b.users) PROVE Told(users[u], r)
    <2> DEFINE x == users[u]
    <2>1. x \in User /\ Told(x, b)
      BY <1>0, <1>6 DEF Base, Informed
    <2>2. /\ x.bytes \in Nat /\ b.len \in Nat /\ r.len \in Nat
      BY <1>0, <2>1 DEF User, Object
    <2> HIDE DEF x
    <2>3. r.stream \/ x.bytes <= r.len \/ (r.lent /\ ~x.asked)
      BY <2>1, <2>2 DEF Told, Progress
    <2>4. x.asked /\ r.short => r.lent
      BY <2>1 DEF Told, Progress
    <2>5. ~(x.asked /\ x.state = COMPLETE)
      BY <1>2, <2>1 DEF Told
    <2>6. Told(x, r)
      BY <2>1, <2>3, <2>4, <2>5 DEF Told, Progress
    <2> QED BY <2>6 DEF x
  <1>7. \A p \in Objects : h[p].users = objs[p].users
    BY DEF Alike
  <1>8. \A u \in Users : u \in Range(r.users) =>
            /\ Told(users[u], r)
            /\ \A p \in Objects : p # o => u \notin Range(h[p].users)
    BY <1>0, <1>4, <1>6, <1>7 DEF Base, Handed
  <1>9. Base(C, N, g, users)
    <2>1. /\ Base(C, N, h, users) /\ o \in C \cup N /\ Sound(r, o \in C)
          /\ IsInjective(r.users) /\ r.candidate = h[o].candidate
          /\ r.count = h[o].count /\ r.forced = h[o].forced
      BY <1>0, <1>3, <1>4, <1>5
    <2> HIDE DEF C, N, b, g
    <2>2. Base(C, N, [h EXCEPT ![o] = r], users)
      BY ONLY r \in Object, <1>8, <2>1, Replace
    <2> QED BY <2>2 DEF g
  <1>10. NoTomb(g)
    <2>1. \A p \in Objects : g[p].users = objs[p].users
      BY <1>0, <1>4, <1>7
    <2> QED BY <1>0, <2>1 DEF NoTomb
  <1> QED BY <1>9, <1>10 DEF Good

LEMMA QuietStep ==
    ASSUME IInv, walk.kind = "none", Good(objs', users), Quietly, Lists
    PROVE  IInv'
  <1>1. walk' = Idle /\ users' = users /\ UNCHANGED <<cached, uncached>>
    BY Resting DEF Quietly, Lists
  <1> QED BY <1>1, IdleWalks, ListsStay DEF Good, IInv

\* What is there of an object when a message comes
LEMMA Fetcher0 ==
    ASSUME IInv, NEW o \in Objects, FromFetcher(o)
    PROVE  /\ o \in Alive /\ walk.kind = "none" /\ objs[o] \in Object /\ objs[o].fetch
           /\ objs[o].state \in INIT..DATA
           /\ objs \in [Objects -> Object]
           /\ Base(Range(cached), Range(uncached), objs, users)
           /\ \A p \in Objects : Alike(objs[p], objs[p])
           /\ o \in Range(cached) \cup Range(uncached)
  <1>1. /\ o \in Alive /\ walk.kind = "none" /\ objs[o] \in Object /\ objs[o].fetch
        /\ Sounds(Range(cached), Range(uncached), objs) /\ objs \in [Objects -> Object]
        /\ Base(Range(cached), Range(uncached), objs, users)
    BY DEF IInv, Base, Typed, FromFetcher
  <1>2. objs[o].state # COMPLETE /\ objs[o].state \in INIT..COMPLETE
    BY <1>1 DEF Sounds, Sound, Alive, Object
  <1>3. objs[o].state \in INIT..DATA
    BY <1>2 DEF INIT, DATA, COMPLETE
  <1>4. \A p \in Objects : Alike(objs[p], objs[p])
    BY DEF Alike
  <1> QED BY <1>1, <1>3, <1>4 DEF Alive

LEMMA Relinquished ==
    ASSUME IInv, NEW o \in Objects, FromFetcher(o), NEW h, h = WithoutCandidate(objs, o)
    PROVE  /\ Base(Range(cached), Range(uncached), h, users)
           /\ \A p \in Objects : Alike(h[p], objs[p])
           /\ h[o].candidate = None
           /\ h \in [Objects -> Object] /\ h[o] \in Object
  <1>1. /\ Base(Range(cached), Range(uncached), objs, users)
        /\ o \in Range(cached) \cup Range(uncached)
    BY Fetcher0
  <1>2. /\ Base(Range(cached), Range(uncached), h, users)
        /\ \A p \in Objects : Alike(h[p], objs[p])
        /\ h[o].candidate = None
    BY <1>1, Relinquish
  <1> QED BY <1>2 DEF Base, Typed

LEMMA FetchHeaderStep ==
    ASSUME IInv, NEW o \in Objects, FetchHeader(o)
    PROVE  IInv'
  <1>0. FromFetcher(o) /\ objs[o].state <= HEADERS /\ Quietly /\ Lists
    BY DEF FetchHeader
  <1>1. PICK cache \in {objs[o].cache, "live", "always"} :
           objs' = [objs EXCEPT ![o] = [objs[o] EXCEPT !.state = HEADERS, !.cache = cache]]
    BY DEF FetchHeader, Became
  <1>2. /\ o \in Alive /\ walk.kind = "none" /\ objs[o] \in Object /\ objs[o].fetch
        /\ objs[o].state \in INIT..DATA
        /\ Base(Range(cached), Range(uncached), objs, users)
        /\ \A p \in Objects : Alike(objs[p], objs[p])
    BY <1>0, Fetcher0
  <1> DEFINE r == [objs[o] EXCEPT !.state = HEADERS, !.cache = cache]
  <1>3. /\ r \in Object /\ r.candidate = objs[o].candidate /\ r.count = objs[o].count
    <2>1. HEADERS \in INIT..COMPLETE
      BY DEF INIT, HEADERS, COMPLETE
    <2>2. cache \in {"void", "live", "stale", "always"}
      BY <1>2 DEF Object
    <2>3. r \in Object
      BY <1>2, <2>1, <2>2 DEF Object
    <2> QED BY <1>2, <2>3 DEF Object
  <1>4. Progress(r, objs[o])
    BY <1>0, <1>2 DEF Progress, Object, HEADERS, DATA, COMPLETE
  <1> HIDE DEF r
  <1>5. Good([objs EXCEPT ![o] = r], users)
    BY <1>0, <1>2, <1>3, <1>4, Fetched
  <1>6. Good(objs', users)
    BY <1>1, <1>5 DEF r
  <1> QED BY <1>0, <1>2, <1>6, QuietStep

LEMMA FetchDataStep ==
    ASSUME IInv, NEW o \in Objects, FetchData(o)
    PROVE  IInv'
  <1> DEFINE h == IF objs[o].state = DATA THEN objs ELSE WithoutCandidate(objs, o)
  <1>0. FromFetcher(o) /\ objs[o].len < MaxLen /\ Quietly /\ Lists
    BY DEF FetchData
  <1>1. PICK k \in {h[o], Invalidated(h[o])} :
           objs' = [h EXCEPT ![o] = [k EXCEPT !.state = DATA, !.len = @ + 1]]
    BY DEF FetchData
  <1>2. /\ o \in Alive /\ walk.kind = "none" /\ objs[o] \in Object /\ objs[o].fetch
        /\ objs[o].state \in INIT..DATA
        /\ Base(Range(cached), Range(uncached), objs, users)
        /\ \A p \in Objects : Alike(objs[p], objs[p])
        /\ objs \in [Objects -> Object]
    BY <1>0, Fetcher0
  <1>3. /\ Base(Range(cached), Range(uncached), h, users)
        /\ \A p \in Objects : Alike(h[p], objs[p])
        /\ h[o] \in Object
    BY <1>0, <1>2, Relinquished
  <1> HIDE DEF h
  <1>4. Alike(h[o], objs[o])
    BY <1>3
  <1>5. h[o].len + 1 \in 0..MaxLen /\ h[o].len = objs[o].len /\ objs[o].len \in Nat
    BY <1>0, <1>2, <1>4, LlCacheAssumption DEF Alike, Object
  <1>6. /\ k \in Object /\ k.len = h[o].len /\ k.candidate = h[o].candidate
        /\ k.count = h[o].count /\ k.fetch = h[o].fetch /\ k.users = h[o].users
        /\ k.url = h[o].url /\ k.forced = h[o].forced /\ k.stream = h[o].stream
        /\ k.short = h[o].short /\ k.lent = h[o].lent
    <2>1. CASE k = h[o]
      BY <1>3, <2>1
    <2>2. CASE k = Invalidated(h[o])
      BY <1>3, <2>2 DEF Invalidated, Object
    <2> QED BY <1>1, <2>1, <2>2
  <1> DEFINE r == [k EXCEPT !.state = DATA, !.len = @ + 1]
  <1>7. /\ r \in Object /\ r.candidate = h[o].candidate /\ r.count = h[o].count
    <2>1. DATA \in INIT..COMPLETE
      BY DEF INIT, DATA, COMPLETE
    <2>2. r = [k EXCEPT !.state = DATA, !.len = h[o].len + 1]
      BY <1>6
    <2>3. r \in Object
      BY <1>5, <1>6, <2>1, <2>2 DEF Object
    <2>4. r.candidate = k.candidate /\ r.count = k.count
      BY <1>6 DEF Object
    <2> QED BY <1>6, <2>3, <2>4
  <1>8. /\ r.users = k.users /\ r.url = k.url /\ r.len = k.len + 1 /\ r.state = DATA
        /\ r.forced = k.forced /\ r.stream = k.stream /\ r.short = k.short
        /\ r.lent = k.lent /\ r.fetch = k.fetch
    BY <1>6 DEF Object
  <1> HIDE DEF r
  <1>9. Progress(r, objs[o])
    BY <1>2, <1>4, <1>5, <1>6, <1>8 DEF Progress, Alike, DATA, COMPLETE
  <1>10. Good([h EXCEPT ![o] = r], users)
    BY <1>0, <1>2, <1>3, <1>7, <1>9, Fetched
  <1>11. Good(objs', users)
    BY <1>1, <1>10 DEF r
  <1> QED BY <1>0, <1>2, <1>11, QuietStep

LEMMA EndedFacts ==
    ASSUME NEW b \in Object
    PROVE  /\ Ended(b) \in Object /\ Progress(Ended(b), b)
           /\ Ended(b).candidate = b.candidate /\ Ended(b).count = b.count
           /\ Stopped(b) \in Object /\ Progress(Stopped(b), b)
           /\ Stopped(b).candidate = b.candidate /\ Stopped(b).count = b.count
           /\ Stopped(b).state = COMPLETE /\ Stopped(b).cache = "void"
           /\ Stopped(b).redirects = 0
  <1>1. COMPLETE \in INIT..COMPLETE /\ COMPLETE >= DATA
    BY DEF INIT, DATA, COMPLETE
  <1>2. 0 \in 0..FetchAttempts /\ 0 \in 0..(RedirectLimit + 1)
    BY LlCacheAssumption
  <1>3. ASSUME NEW r \in Object
        PROVE  /\ Ended(r) \in Object /\ Ended(r).candidate = r.candidate
               /\ Ended(r).count = r.count /\ Ended(r).users = r.users
               /\ Ended(r).url = r.url /\ Ended(r).len = r.len
               /\ (Ended(r).forced <=> r.forced) /\ (Ended(r).stream <=> r.stream)
               /\ (Ended(r).short <=> r.short) /\ (Ended(r).lent <=> r.lent)
               /\ Ended(r).cache = r.cache /\ Ended(r).state = COMPLETE
               /\ Ended(r).redirects = 0 /\ ~Ended(r).fetch
    <2>1. Ended(r) \in Object
      BY <1>1, <1>2 DEF Ended, Object
    <2> QED BY <2>1 DEF Ended, Object
  <1>4. /\ Invalidated(b) \in Object /\ Invalidated(b).candidate = b.candidate
        /\ Invalidated(b).count = b.count /\ Invalidated(b).users = b.users
        /\ Invalidated(b).url = b.url /\ Invalidated(b).len = b.len
        /\ (Invalidated(b).forced <=> b.forced) /\ (Invalidated(b).stream <=> b.stream)
        /\ (Invalidated(b).short <=> b.short) /\ (Invalidated(b).lent <=> b.lent)
        /\ Invalidated(b).cache = "void"
    BY DEF Invalidated, Object
  <1>5. b.len \in Nat
    BY DEF Object
  <1>6. Progress(Ended(b), b) /\ Progress(Stopped(b), b)
    BY <1>1, <1>3, <1>4, <1>5 DEF Progress, Stopped
  <1> QED BY <1>3, <1>4, <1>6 DEF Stopped

LEMMA FetchFinishedStep ==
    ASSUME IInv, NEW o \in Objects, FetchFinished(o)
    PROVE  IInv'
  <1>0. FromFetcher(o) /\ Quietly /\ Lists /\ objs' = [objs EXCEPT ![o] = Ended(objs[o])]
    BY DEF FetchFinished, Became
  <1>1. /\ o \in Alive /\ walk.kind = "none" /\ objs[o] \in Object
        /\ Base(Range(cached), Range(uncached), objs, users)
        /\ \A p \in Objects : Alike(objs[p], objs[p])
    BY <1>0, Fetcher0
  <1>2. PICK r \in Object : r = Ended(objs[o])
    BY <1>1, EndedFacts
  <1>3. Progress(r, objs[o]) /\ r.candidate = objs[o].candidate /\ r.count = objs[o].count
    BY <1>1, <1>2, EndedFacts
  <1>4. Good([objs EXCEPT ![o] = r], users)
    BY <1>0, <1>1, <1>3, Fetched
  <1> QED BY <1>0, <1>1, <1>2, <1>4, QuietStep

\* The fetch of the object is given up.
LEMMA GivenUp ==
    ASSUME IInv, NEW o \in Objects, FromFetcher(o), NEW n \in 0..RedirectLimit,
           objs' = [WithoutCandidate(objs, o) EXCEPT ![o] = [Stopped(@) EXCEPT !.redirects = n]]
    PROVE  /\ Good(objs', users) /\ objs'[o] \in Object
           /\ objs'[o].state = COMPLETE /\ objs'[o].cache = "void"
           /\ objs'[o].redirects = n
           /\ \A p \in Objects : objs'[p].users = objs[p].users
           /\ (objs'[o].stream <=> objs[o].stream) /\ (objs'[o].forced <=> objs[o].forced)
  <1> DEFINE h == WithoutCandidate(objs, o)
             k == Stopped(h[o])
             r == [k EXCEPT !.redirects = n]
  <1>1. /\ Base(Range(cached), Range(uncached), h, users)
        /\ \A p \in Objects : Alike(h[p], objs[p])
        /\ h \in [Objects -> Object] /\ h[o] \in Object
    BY Relinquished
  <1>2. o \in Alive /\ walk.kind = "none" /\ objs[o] \in Object
    BY Fetcher0
  <1>3. objs' = [h EXCEPT ![o] = r]
    BY <1>1
  <1> HIDE DEF h
  <1>4. /\ k \in Object /\ Progress(k, h[o]) /\ k.candidate = h[o].candidate
        /\ k.count = h[o].count /\ k.state = COMPLETE /\ k.cache = "void"
    BY <1>1, EndedFacts
  <1> HIDE DEF k
  <1>5. r \in Object
    <2>1. n \in 0..(RedirectLimit + 1)
      BY LlCacheAssumption
    <2> QED BY <1>4, <2>1 DEF Object
  <1>6. /\ r.candidate = k.candidate /\ r.count = k.count /\ r.state = k.state
        /\ r.cache = k.cache /\ r.redirects = n /\ r.users = k.users /\ r.url = k.url
        /\ r.len = k.len /\ (r.forced <=> k.forced) /\ (r.stream <=> k.stream)
        /\ (r.short <=> k.short) /\ (r.lent <=> k.lent) /\ (r.fetch <=> k.fetch)
    BY <1>4 DEF Object
  <1> HIDE DEF r
  <1>7. Alike(h[o], objs[o])
    BY <1>1
  <1>8. Progress(r, objs[o])
    BY <1>4, <1>6, <1>7 DEF Progress, Alike
  <1>9. Good([h EXCEPT ![o] = r], users)
    <2>1. r.candidate = h[o].candidate /\ r.count = h[o].count
      BY <1>4, <1>6
    <2> QED BY <1>1, <1>2, <1>5, <1>8, <2>1, Fetched
  <1>10. objs'[o] = r /\ \A p \in Objects : p # o => objs'[p] = h[p]
    BY <1>1, <1>3
  <1>11. r.users = objs[o].users /\ \A p \in Objects : h[p].users = objs[p].users
    BY <1>1, <1>8 DEF Progress, Alike
  <1>12. \A p \in Objects : objs'[p].users = objs[p].users
    BY <1>10, <1>11
  <1> QED BY <1>3, <1>4, <1>5, <1>6, <1>8, <1>9, <1>10, <1>12 DEF Progress

\* The users of the object are told.
LEMMA SendStep ==
    ASSUME IInv, NEW o \in Alive, Good(objs', users), objs'[o].users = objs[o].users,
           NEW event \in {"message", "redirect"}, NEW to \in Urls \cup {None},
           Send(event, o, to), users' = users, Lists,
           event = "redirect" => Redirected(objs', users, o, to)
    PROVE  IInv'
  <1>1. Base(Range(cached), Range(uncached), objs', users) /\ NoTomb(objs')
    BY DEF Good
  <1>2. o \in Objects /\ Alive \in SUBSET Objects
    BY <1>1 DEF Base, Typed, Alive
  <1>3. /\ objs'[o].users \in Seq(Users \cup {Tomb}) /\ IsInjective(objs'[o].users)
        /\ Tomb \notin Range(objs'[o].users)
    BY <1>1, <1>2 DEF Base, Typed, Object, Handed, NoTomb
  <1>4. PICK u : u = First(objs[o].users)
    OBVIOUS
  <1>5. u = None \/ u \in Range(objs'[o].users)
    BY <1>3, <1>4, NextFacts
  <1>6. u = None \/ (u \in Users /\ u \in Range(objs'[o].users))
    BY <1>3, <1>5 DEF Range
  <1>7. SendAt(event, o, u, to)
    BY <1>4 DEF Send
  <1>8. Walks(Alive, objs', users, walk')
    BY <1>1, <1>2, <1>6, <1>7, Sending
  <1> QED BY <1>1, <1>8, ListsStay DEF IInv, Lists

LEMMA FailsStep ==
    ASSUME IInv, NEW o \in Objects, FromFetcher(o), Fails(o)
    PROVE  IInv'
  <1>1. /\ o \in Alive /\ objs[o] \in Object
    BY Fetcher0
  <1>2. objs' = [WithoutCandidate(objs, o) EXCEPT ![o] = Stopped(@)]
    BY DEF Fails
  <1>3. [Stopped(WithoutCandidate(objs, o)[o]) EXCEPT !.redirects = 0]
            = Stopped(WithoutCandidate(objs, o)[o])
    BY DEF Stopped, Ended
  <1>4. objs' = [WithoutCandidate(objs, o) EXCEPT ![o] = [Stopped(@) EXCEPT !.redirects = 0]]
    BY <1>2, <1>3
  <1>5. Good(objs', users) /\ objs'[o].users = objs[o].users
    <2>1. 0 \in 0..RedirectLimit
      BY LlCacheAssumption
    <2> QED BY ONLY IInv, FromFetcher(o), <1>1, <1>4, <2>1, o \in Objects, GivenUp
  <1>6. Send("message", o, None) /\ users' = users /\ Lists
    BY DEF Fails
  <1> QED BY <1>1, <1>5, <1>6, SendStep

LEMMA FetchErrorStep ==
    ASSUME IInv, NEW o \in Objects, FetchError(o)
    PROVE  IInv'
  BY FailsStep DEF FetchError

\* With one attempt, a timeout is an error.
LEMMA FetchTimedOutStep ==
    ASSUME FetchAttempts = 1, IInv, NEW o \in Objects, FetchTimedOut(o)
    PROVE  IInv'
  <1>1. FromFetcher(o)
    BY DEF FetchTimedOut
  <1>2. objs[o].retries \in 0..1
    BY <1>1, Fetcher0 DEF Object
  <1>3. ~MayRetry(o)
    BY <1>2 DEF MayRetry
  <1> QED BY <1>1, <1>3, FailsStep DEF FetchTimedOut

LEMMA FetchRefusedStep ==
    ASSUME IInv, NEW o \in Objects, FetchRefused(o)
    PROVE  IInv'
  <1>0. FromFetcher(o) /\ objs[o].state <= HEADERS
    BY DEF FetchRefused
  <1>1. CASE Fails(o)
    BY <1>0, <1>1, FailsStep
  <1>2. CASE /\ objs' = [WithoutCandidate(objs, o) EXCEPT ![o] = Refetched(@)]
             /\ Quietly /\ Lists
    <2> DEFINE h == WithoutCandidate(objs, o)
               r == Refetched(h[o])
    <2>1. /\ Base(Range(cached), Range(uncached), h, users)
          /\ \A p \in Objects : Alike(h[p], objs[p])
          /\ h \in [Objects -> Object] /\ h[o] \in Object
      BY <1>0, Relinquished
    <2>2. o \in Alive /\ walk.kind = "none" /\ objs[o] \in Object
      BY <1>0, Fetcher0
    <2>3. objs' = [h EXCEPT ![o] = r]
      BY <1>2
    <2> HIDE DEF h
    <2>4. Alike(h[o], objs[o])
      BY <2>1
    <2>5. /\ r \in Object /\ r.candidate = h[o].candidate /\ r.count = h[o].count
          /\ r.users = h[o].users /\ r.url = h[o].url /\ r.len = h[o].len
          /\ (r.forced <=> h[o].forced) /\ (r.stream <=> h[o].stream)
          /\ (r.short <=> h[o].short) /\ (r.lent <=> h[o].lent)
          /\ r.state = INIT /\ r.fetch
      <3>1. INIT \in INIT..COMPLETE
        BY DEF INIT, COMPLETE
      <3>2. PICK cond \in BOOLEAN : cond <=> h[o].candidate # None /\ h[o].cache # "void"
        OBVIOUS
      <3>3. r = [h[o] EXCEPT !.cache = "void", !.cond = cond, !.state = INIT, !.fetch = TRUE]
        BY <2>1, <3>2 DEF Refetched, Invalidated, Object
      <3>4. r \in Object
        BY <2>1, <3>1, <3>3 DEF Object
      <3> HIDE DEF r
      <3> QED BY <2>1, <3>3, <3>4 DEF Object
    <2> HIDE DEF r
    <2>6. ~(objs[o].state >= DATA) /\ objs[o].len \in Nat
      BY <1>0, <2>2 DEF HEADERS, DATA, Object
    <2>7. Progress(r, objs[o])
      BY <2>2, <2>4, <2>5, <2>6 DEF Progress, Alike, INIT, DATA, COMPLETE
    <2>8. Good([h EXCEPT ![o] = r], users)
      BY <1>0, <2>1, <2>2, <2>5, <2>7, Fetched
    <2> QED BY <1>2, <2>2, <2>3, <2>8, QuietStep
  <1> QED BY <1>1, <1>2 DEF FetchRefused

LEMMA FetchRedirectStep ==
    ASSUME IInv, NEW o \in Objects, NEW url \in Urls, FetchRedirect(o, url)
    PROVE  IInv'
  <1>0. FromFetcher(o) /\ objs[o].state <= HEADERS
    BY DEF FetchRedirect
  <1>1. CASE objs[o].redirects > RedirectLimit
    BY <1>0, <1>1, FailsStep DEF FetchRedirect
  <1>2. CASE ~(objs[o].redirects > RedirectLimit)
    <2> DEFINE n == objs[o].redirects
    <2>1. /\ o \in Alive /\ objs[o] \in Object
          /\ Base(Range(cached), Range(uncached), objs, users)
          /\ o \in Range(cached) \cup Range(uncached)
      BY <1>0, Fetcher0
    <2>2. n \in 0..RedirectLimit
      BY <1>2, <2>1, LlCacheAssumption DEF Object
    <2>3. /\ objs' = [WithoutCandidate(objs, o) EXCEPT ![o] = [Stopped(@) EXCEPT !.redirects = n]]
          /\ Send("redirect", o, url) /\ users' = users /\ Lists
      BY <1>2 DEF FetchRedirect
    <2> HIDE DEF n
    <2>4. /\ Good(objs', users) /\ objs'[o].state = COMPLETE /\ objs'[o].cache = "void"
          /\ objs'[o].redirects = n /\ objs'[o].users = objs[o].users
          /\ (objs'[o].stream <=> objs[o].stream) /\ (objs'[o].forced <=> objs[o].forced)
      BY <1>0, <2>2, <2>3, GivenUp
    <2>5. objs[o].stream => objs[o].forced
      <3>1. Sound(objs[o], o \in Range(cached))
        BY <2>1 DEF Base, Sounds
      <3>2. objs[o].state < DATA
        BY <1>0, <2>1 DEF HEADERS, DATA, Object
      <3> QED BY <2>1, <3>1, <3>2 DEF Sound, HEADERS, DATA, Object
    <2>6. ASSUME NEW u \in Users, u \in Range(objs[o].users) PROVE users[u].state < DATA
      <3>1. Told(users[u], objs[o]) /\ users[u] \in User
        BY <2>1, <2>6 DEF Base, Informed, Typed
      <3>2. users[u].state \in Int /\ objs[o].state \in Int
        BY <2>1, <3>1 DEF User, Object, INIT, COMPLETE
      <3> QED BY <1>0, <3>1, <3>2 DEF Told, HEADERS, DATA
    <2>7. Redirected(objs', users, o, url)
      <3>1. n <= RedirectLimit
        BY <2>2
      <3> QED BY <2>4, <2>5, <2>6, <3>1 DEF Redirected
    <2> QED BY <2>1, <2>3, <2>4, <2>7, SendStep
  <1> QED BY <1>1, <1>2

\* The candidate turns out to be good.
Lending(r, cache) == [r EXCEPT !.cache = cache, !.lent = TRUE]

LEMMA LendingFacts ==
    ASSUME NEW C, NEW N, NEW h, NEW us, Base(C, N, h, us), NEW c \in C \cup N,
           ~h[c].forced, NEW cache \in {"void", "live", "stale", "always"},
           NEW r, r = Lending(h[c], cache)
    PROVE  /\ Base(C, N, [h EXCEPT ![c] = r], us) /\ r \in Object
           /\ r.users = h[c].users /\ r.len = h[c].len /\ r.lent
  <1>0. /\ c \in Objects /\ h \in [Objects -> Object] /\ h[c] \in Object
        /\ Sound(h[c], c \in C) /\ Handed(h) /\ Informed(h, us)
    BY DEF Base, Typed, Sounds
  <1>1. r \in Object
    BY <1>0 DEF Lending, Object
  <1>2. /\ r.users = h[c].users /\ r.len = h[c].len /\ r.lent /\ r.state = h[c].state
        /\ r.candidate = h[c].candidate /\ r.count = h[c].count /\ r.url = h[c].url
        /\ r.forced = h[c].forced /\ r.stream = h[c].stream /\ r.fetch = h[c].fetch
        /\ r.short = h[c].short
    BY <1>0, <1>1 DEF Lending, Object
  <1>3. Sound(r, c \in C)
    BY <1>0, <1>2 DEF Sound
  <1>4. IsInjective(r.users)
    BY <1>0, <1>2 DEF Handed
  <1>5. \A u \in Users : u \in Range(r.users) =>
            /\ Told(us[u], r)
            /\ \A p \in Objects : p # c => u \notin Range(h[p].users)
    <2> SUFFICES ASSUME NEW u \in Users, u \in Range(r.users)
                 PROVE  /\ Told(us[u], r)
                        /\ \A p \in Objects : p # c => u \notin Range(h[p].users)
      OBVIOUS
    <2>1. Told(us[u], h[c])
      BY <1>0, <1>2 DEF Informed
    <2> QED BY <1>0, <1>2, <2>1 DEF Told, Handed
  <1>6. Base(C, N, [h EXCEPT ![c] = r], us)
    BY ONLY Base(C, N, h, us), c \in C \cup N, <1>1, <1>2, <1>3, <1>4, <1>5, Replace
  <1> QED BY <1>1, <1>2, <1>6

LEMMA FetchNotModifiedStep ==
    ASSUME IInv, NEW o \in Objects, FetchNotModified(o)
    PROVE  IInv'
  <1> DEFINE c == objs[o].candidate
             C == Range(cached)
             N == Range(uncached)
  <1>0. FromFetcher(o) /\ objs[o].state <= HEADERS /\ Quietly /\ Lists
    BY DEF FetchNotModified
  <1>1. /\ o \in Alive /\ walk.kind = "none" /\ objs[o] \in Object /\ objs[o].fetch
        /\ Base(C, N, objs, users) /\ \A p \in Objects : Alike(objs[p], objs[p])
        /\ objs \in [Objects -> Object] /\ o \in C \cup N
        /\ users \in [Users -> User] /\ NoTomb(objs)
    BY <1>0, Fetcher0, Resting DEF Base, Typed
  <1>2. CASE c = None
    <2>1. objs' = [objs EXCEPT ![o] = Stopped(objs[o])]
      BY <1>2 DEF FetchNotModified, Became
    <2>2. PICK r \in Object : r = Stopped(objs[o])
      BY <1>1, EndedFacts
    <2>3. Progress(r, objs[o]) /\ r.candidate = objs[o].candidate /\ r.count = objs[o].count
      BY <1>1, <2>2, EndedFacts
    <2>4. Good([objs EXCEPT ![o] = r], users)
      BY <1>0, <1>1, <2>3, Fetched
    <2> QED BY <1>0, <1>1, <2>1, <2>2, <2>4, QuietStep
  <1>3. CASE c # None
    <2>1. PICK cache \in {"void", "live", "stale", "always"} :
             objs' = [WithoutCandidate(MovedUsers(objs, o, c), o) EXCEPT
                        ![o] = Stopped(@), ![c].cache = cache, ![c].lent = TRUE]
      <3>1. PICK cache \in {objs[c].cache} \cup
                    (IF objs[c].cache = "always" THEN {} ELSE {"live"}) :
               objs' = [WithoutCandidate(MovedUsers(objs, o, c), o) EXCEPT
                        ![o] = Stopped(@), ![c].cache = cache, ![c].lent = TRUE]
        BY <1>3 DEF FetchNotModified
      <3>2. c \in Objects
        BY <1>1, <1>3 DEF Object
      <3>3. objs[c].cache \in {"void", "live", "stale", "always"}
        BY <1>1, <3>2 DEF Object
      <3> QED BY <3>1, <3>3
    <2>2. /\ c \in Objects /\ c \in C \cup N /\ c # o /\ ~objs[c].forced
          /\ objs[c] \in Object
      <3>1. c \in Objects /\ o \in RelyOn(C \cup N, objs, c)
        BY <1>1, <1>3 DEF Object, RelyOn
      <3>2. c \in C \cup N /\ c \notin RelyOn(C \cup N, objs, c) /\ ~objs[c].forced
        BY <1>1, <3>1 DEF Base, Relied
      <3> QED BY <1>1, <3>1, <3>2
    <2> DEFINE h == WithoutCandidate(objs, o)
               r == Stopped(h[o])
               f == [h EXCEPT ![o] = r]
               g == [f EXCEPT ![c] = Lending(f[c], cache)]
               m == MovedUsers(g, o, c)
    <2>3. /\ Base(C, N, h, users) /\ \A p \in Objects : Alike(h[p], objs[p])
          /\ h \in [Objects -> Object] /\ h[o] \in Object
      BY <1>0, Relinquished
    <2>4. /\ r \in Object /\ Progress(r, h[o]) /\ r.candidate = h[o].candidate
          /\ r.count = h[o].count /\ r.users = h[o].users
      BY <2>3, EndedFacts DEF Progress
    <2>5. Progress(r, objs[o])
      <3>1. Alike(h[o], objs[o])
        BY <2>3
      <3> HIDE DEF r, h
      <3> QED BY <2>4, <3>1 DEF Progress, Alike
    <2>6. Base(C, N, f, users)
      <3> HIDE DEF r, h
      <3>1. Good([h EXCEPT ![o] = r], users)
        BY <1>0, <1>1, <2>3, <2>4, <2>5, Fetched
      <3> QED BY <3>1 DEF Good
    <2>7. /\ f[o] = r /\ \A p \in Objects : p # o => f[p] = h[p]
          /\ f \in [Objects -> Object]
      <3> HIDE DEF r, h
      <3> QED BY <2>3, <2>4
    <2>8. ~f[c].forced
      <3> HIDE DEF f, h, r
      <3> QED BY <2>2, <2>3, <2>7 DEF Alike
    <2>9. /\ Base(C, N, g, users) /\ Lending(f[c], cache) \in Object
          /\ Lending(f[c], cache).users = f[c].users
          /\ Lending(f[c], cache).len = f[c].len /\ Lending(f[c], cache).lent
      <3> HIDE DEF C, N, f, c
      <3>1. PICK l : l = Lending(f[c], cache)
        OBVIOUS
      <3>2. /\ Base(C, N, [f EXCEPT ![c] = l], users) /\ l \in Object
            /\ l.users = f[c].users /\ l.len = f[c].len /\ l.lent
        BY ONLY <2>2, <2>6, <2>8, <3>1, cache \in {"void", "live", "stale", "always"},
                LendingFacts
      <3> QED BY <3>1, <3>2
    <2>10. /\ g[c] = Lending(f[c], cache) /\ g[o] = r
           /\ \A p \in Objects : p # o /\ p # c => g[p] = h[p]
           /\ g \in [Objects -> Object]
      <3> HIDE DEF f, h, r
      <3> QED BY <2>2, <2>7, <2>9
    <2>11. \A p \in Objects : g[p].users = objs[p].users
      <3>1. \A p \in Objects : h[p].users = objs[p].users
        BY <2>3 DEF Alike
      <3> HIDE DEF f, h, r, g, c
      <3>2. g[o].users = objs[o].users /\ g[c].users = objs[c].users
        BY <1>1, <2>2, <2>4, <2>7, <2>9, <2>10, <3>1
      <3> QED BY <2>10, <3>1, <3>2
    <2>12. ASSUME NEW u \in Users, u \in Range(g[o].users) PROVE Told(users[u], g[c])
      <3>1. Told(users[u], objs[o]) /\ users[u] \in User
        BY <1>1, <2>11, <2>12 DEF Base, Informed
      <3>2. /\ users[u].state \in Int /\ objs[o].state \in Int
        BY <1>1, <3>1 DEF User, Object, INIT, COMPLETE
      <3>3. users[u].state < DATA
        BY <1>0, <3>1, <3>2 DEF Told, HEADERS, DATA
      <3>4. users[u].bytes = 0 /\ g[c].lent /\ g[c].len \in Nat
        <4>1. g[c] \in Object
          BY <2>2, <2>10
        <4> HIDE DEF g, f
        <4> QED BY <2>9, <2>10, <3>1, <3>3, <4>1 DEF Told, Object
      <3> HIDE DEF g
      <3> QED BY <3>2, <3>3, <3>4 DEF Told, DATA, COMPLETE
    <2>13. ~(g[c].stream /\ ~g[c].lent)
      <3> HIDE DEF g, f
      <3> QED BY <2>9, <2>10
    <2>14. HandedOver(C, N, g, users, o, c, m)
      <3>1. /\ Tomb \notin Range(g[o].users)
            /\ \A u \in Users : u \in Range(g[o].users) => Told(users[u], g[c])
        BY <1>1, <2>11, <2>12 DEF NoTomb
      <3> HIDE DEF g, c
      <3> QED BY <1>1, <2>2, <2>9, <2>13, <3>1, HandOver
    <2>15. objs' = m
      <3> DEFINE ws == [i \in 1..Len(objs[o].users) |->
                           objs[o].users[Len(objs[o].users) + 1 - i]] \o objs[c].users
                 a == MovedUsers(objs, o, c)
                 w == WithoutCandidate(a, o)
      <3>1. a = [objs EXCEPT ![c].users = ws, ![o].users = <<>>]
        BY DEF MovedUsers
      <3>2. m = [g EXCEPT ![c].users = ws, ![o].users = <<>>]
        <4>1. g[o].users = objs[o].users /\ g[c].users = objs[c].users
          BY <1>1, <2>2, <2>11
        <4> HIDE DEF g, c
        <4> QED BY <4>1 DEF MovedUsers
      <3>3. /\ h[o] = [objs[o] EXCEPT !.candidate = None, !.cond = FALSE]
            /\ h[c] = [objs[c] EXCEPT !.count = @ - 1]
            /\ \A p \in Objects : p # o /\ p # c => h[p] = objs[p]
        <4>1. h = [objs EXCEPT ![c].count = @ - 1,
                               ![o] = [@ EXCEPT !.candidate = None, !.cond = FALSE]]
          BY <1>3 DEF WithoutCandidate
        <4> HIDE DEF h, c
        <4> QED BY <1>1, <2>2, <4>1
      <3> HIDE DEF a, ws
      <3>4. /\ a[o] = [objs[o] EXCEPT !.users = <<>>]
            /\ a[c] = [objs[c] EXCEPT !.users = ws]
            /\ \A p \in Objects : p # o /\ p # c => a[p] = objs[p]
            /\ a = [p \in Objects |-> a[p]]
        <4> HIDE DEF c
        <4> QED BY <1>1, <2>2, <3>1
      <3>5. a[o].candidate = c
        <4> HIDE DEF c
        <4> QED BY <1>1, <3>4 DEF Object, c
      <3>6. w = [a EXCEPT ![c].count = @ - 1,
                          ![o] = [@ EXCEPT !.candidate = None, !.cond = FALSE]]
        <4> HIDE DEF c
        <4> QED BY <1>3, <3>5 DEF WithoutCandidate
      <3> HIDE DEF w
      <3>7. /\ w[o] = [a[o] EXCEPT !.candidate = None, !.cond = FALSE]
            /\ w[c] = [a[c] EXCEPT !.count = @ - 1]
            /\ \A p \in Objects : p # o /\ p # c => w[p] = a[p]
            /\ w = [p \in Objects |-> w[p]]
        <4> HIDE DEF c
        <4> QED BY <1>1, <2>2, <3>4, <3>6
      <3>8. objs' = [w EXCEPT ![o] = Stopped(@), ![c].cache = cache, ![c].lent = TRUE]
        BY <2>1 DEF w, a
      <3>9. /\ objs'[o] = Stopped(w[o])
            /\ objs'[c] = Lending(w[c], cache)
            /\ \A p \in Objects : p # o /\ p # c => objs'[p] = w[p]
            /\ objs' = [p \in Objects |-> objs'[p]]
        <4>1. objs'[c] = [[w[c] EXCEPT !.cache = cache] EXCEPT !.lent = TRUE]
          <5> HIDE DEF c
          <5> QED BY <1>1, <2>2, <3>7, <3>8
        <4>2. objs'[c] = Lending(w[c], cache)
          BY <4>1 DEF Lending
        <4> HIDE DEF c
        <4> QED BY <1>1, <2>2, <3>7, <3>8, <4>2
      <3> HIDE DEF m, g, f, h
      <3>10. /\ m[o] = [r EXCEPT !.users = <<>>]
             /\ m[c] = [Lending(h[c], cache) EXCEPT !.users = ws]
             /\ \A p \in Objects : p # o /\ p # c => m[p] = objs[p]
             /\ m = [p \in Objects |-> m[p]]
        <4> HIDE DEF c, r
        <4> QED BY <1>1, <2>2, <2>7, <2>10, <3>2, <3>3
      <3>11. objs'[o] = m[o]
        <4> DEFINE b == objs[o]
        <4>1. /\ objs'[o] = Stopped([[b EXCEPT !.users = <<>>] EXCEPT
                                       !.candidate = None, !.cond = FALSE])
              /\ m[o] = [Stopped([b EXCEPT !.candidate = None, !.cond = FALSE])
                            EXCEPT !.users = <<>>]
          BY <3>3, <3>4, <3>7, <3>9, <3>10
        <4> HIDE DEF b
        <4>2. b \in Object
          BY <1>1 DEF b
        <4> QED BY <4>1, <4>2 DEF Stopped, Ended, Invalidated, Object
      <3>12. objs'[c] = m[c]
        <4> DEFINE b == objs[c]
        <4>1. /\ objs'[c] = Lending([[b EXCEPT !.users = ws] EXCEPT !.count = @ - 1], cache)
              /\ m[c] = [Lending([b EXCEPT !.count = @ - 1], cache) EXCEPT !.users = ws]
          BY <3>3, <3>4, <3>7, <3>9, <3>10
        <4> HIDE DEF b
        <4>2. b \in Object
          BY <2>2 DEF b
        <4> QED BY <4>1, <4>2 DEF Lending, Object
      <3>13. \A p \in Objects : objs'[p] = m[p]
        <4> HIDE DEF c
        <4> QED BY <3>4, <3>7, <3>9, <3>10, <3>11, <3>12
      <3> QED BY <3>9, <3>10, <3>13
    <2>16. NoTomb(m)
      <3>1. Range(<<>>) = {}
        BY DEF Range
      <3> HIDE DEF m, g, c
      <3>2. \A p \in Objects \ {o, c} : m[p].users = g[p].users
        BY <2>14 DEF HandedOver, Elsewhere
      <3> QED BY <1>1, <2>2, <2>11, <2>14, <3>1, <3>2 DEF HandedOver, NoTomb
    <2>17. Good(objs', users)
      <3> HIDE DEF m
      <3> QED BY <2>14, <2>15, <2>16 DEF HandedOver, Good
    <2> QED BY <1>0, <1>1, <2>17, QuietStep
  <1> QED BY <1>2, <1>3

-----------------------------------------------------------------------------
(* Cleaning, and time *)
LEMMA CleanStep ==
    ASSUME IInv, Clean
    PROVE  IInv'
  <1>0. /\ TwoLists(cached, uncached) /\ Base(Range(cached), Range(uncached), objs, users)
        /\ walk = Idle /\ NoTomb(objs) /\ walk' = walk /\ users' = users
    BY Resting DEF IInv, Clean
  <1>1. PICK X :
           /\ \E n \in 0..Len(cached) :
                 X = {o \in Alive : Unused(o) /\ (o \in Range(cached)
                                                    => ~HasLifetime(objs[o]))}
                     \cup {o \in {cached[i] : i \in 1..n} : Unused(o)}
           /\ cached' = Purged(cached, X) /\ uncached' = Purged(uncached, X)
           /\ objs' = [o \in Objects |-> IF o \in X THEN NoObject ELSE objs[o]]
    BY DEF Clean
  <1>2. X \subseteq Alive /\ \A o \in X : Unused(o)
    <2>1. \A n \in 0..Len(cached) : \A i \in 1..n : cached[i] \in Alive
      BY <1>0 DEF TwoLists, Range, Alive
    <2> QED BY <1>1, <2>1
  <1>3. /\ cached' \in Seq(Objects) /\ IsInjective(cached')
        /\ Range(cached') = Range(cached) \ X
    BY <1>0, <1>1, PurgedFacts DEF TwoLists
  <1>4. /\ uncached' \in Seq(Objects) /\ IsInjective(uncached')
        /\ Range(uncached') = Range(uncached) \ X
    BY <1>0, <1>1, PurgedFacts DEF TwoLists
  <1>5. TwoLists(cached', uncached')
    BY <1>0, <1>3, <1>4 DEF TwoLists
  <1>6. \A o \in X : objs[o].users = <<>> /\ objs[o].count = 0
    BY <1>2 DEF Unused
  <1>7. Base(Range(cached'), Range(uncached'), objs', users')
    <2> DEFINE g == [o \in Objects |-> IF o \in X THEN NoObject ELSE objs[o]]
    <2>1. Base(Range(cached) \ X, Range(uncached) \ X, g, users)
      BY <1>0, <1>2, <1>6, Purge DEF Alive
    <2>2. objs' = g
      BY <1>1
    <2> HIDE DEF g
    <2> QED BY <1>0, <1>3, <1>4, <2>1, <2>2
  <1>8. NoTomb(objs')
    <2> SUFFICES ASSUME NEW o \in Objects PROVE Tomb \notin Range(objs'[o].users)
      BY DEF NoTomb
    <2>1. Range(<<>>) = {} /\ NoObject.users = <<>>
      BY DEF Range, NoObject
    <2>2. objs'[o] = IF o \in X THEN NoObject ELSE objs[o]
      BY <1>1
    <2> QED BY <1>0, <2>1, <2>2 DEF NoTomb
  <1>9. Walks(Alive', objs', users', walk')
    BY <1>0, <1>8, IdleWalks
  <1> QED BY <1>5, <1>7, <1>9 DEF IInv

\* An object in a walk is what it was, or over.
Continues(r, b) ==
    /\ r.state = b.state \/ r.state = COMPLETE
    /\ b.cache = "void" => r.cache = "void"
    /\ r.redirects <= b.redirects
    /\ r.len = b.len /\ (b.stream => r.stream) /\ (r.forced <=> b.forced)
    /\ (r.lent <=> b.lent)

\* An object is not as fresh as it was.
Staled(r, b) == r.users = b.users /\ Continues(r, b) /\ (r.stream <=> b.stream)

LEMMA Staling ==
    ASSUME NEW C, NEW N, NEW h, NEW us, Base(C, N, h, us), NEW o \in C \cup N,
           h[o].cache = "live", NEW r, r = [h[o] EXCEPT !.cache = "stale"]
    PROVE  /\ Base(C, N, [h EXCEPT ![o] = r], us)
           /\ Staled(r, h[o])
  <1>0. /\ o \in Objects /\ h \in [Objects -> Object] /\ h[o] \in Object
        /\ Sound(h[o], o \in C) /\ Handed(h) /\ Informed(h, us)
    BY DEF Base, Typed, Sounds
  <1>1. r \in Object
    BY <1>0 DEF Object
  <1>2. /\ r.users = h[o].users /\ r.len = h[o].len /\ r.state = h[o].state
        /\ r.candidate = h[o].candidate /\ r.count = h[o].count /\ r.url = h[o].url
        /\ r.forced = h[o].forced /\ r.stream = h[o].stream /\ r.fetch = h[o].fetch
        /\ r.short = h[o].short /\ r.lent = h[o].lent /\ r.redirects = h[o].redirects
    BY <1>0 DEF Object
  <1>3. Sound(r, o \in C)
    BY <1>0, <1>2 DEF Sound
  <1>4. IsInjective(r.users)
    BY <1>0, <1>2 DEF Handed
  <1>5. \A u \in Users : u \in Range(r.users) =>
            /\ Told(us[u], r)
            /\ \A p \in Objects : p # o => u \notin Range(h[p].users)
    <2> SUFFICES ASSUME NEW u \in Users, u \in Range(r.users)
                 PROVE  /\ Told(us[u], r)
                        /\ \A p \in Objects : p # o => u \notin Range(h[p].users)
      OBVIOUS
    <2>1. Told(us[u], h[o])
      BY <1>0, <1>2 DEF Informed
    <2> QED BY <1>0, <1>2, <2>1 DEF Told, Handed
  <1>6. Base(C, N, [h EXCEPT ![o] = r], us)
    BY ONLY Base(C, N, h, us), o \in C \cup N, <1>1, <1>2, <1>3, <1>4, <1>5, Replace
  <1>7. Staled(r, h[o])
    <2>1. r.redirects \in Int /\ h[o].redirects \in Int
      BY <1>0, <1>1 DEF Object
    <2> QED BY <1>2, <2>1 DEF Staled, Continues
  <1> QED BY <1>6, <1>7

LEMMA ExpireStep ==
    ASSUME IInv, NEW o \in Objects, Expire(o)
    PROVE  IInv'
  <1>0. /\ TwoLists(cached, uncached) /\ Base(Range(cached), Range(uncached), objs, users)
        /\ walk = Idle /\ NoTomb(objs) /\ walk' = Idle /\ users' = users
        /\ o \in Range(cached) \cup Range(uncached) /\ objs[o].cache = "live"
        /\ objs \in [Objects -> Object]
        /\ UNCHANGED <<cached, uncached>>
    BY Resting DEF IInv, Expire, HasLifetime, Alive, Lists, Base, Typed
  <1>1. PICK r : r = [objs[o] EXCEPT !.cache = "stale"]
    OBVIOUS
  <1>2. /\ Base(Range(cached), Range(uncached), [objs EXCEPT ![o] = r], users)
        /\ r.users = objs[o].users
    <2> DEFINE C == Range(cached)
               N == Range(uncached)
    <2>1. Base(C, N, objs, users) /\ o \in C \cup N
      BY <1>0
    <2> HIDE DEF C, N
    <2>2. Base(C, N, [objs EXCEPT ![o] = r], users) /\ Staled(r, objs[o])
      BY ONLY <1>0, <1>1, <2>1, Staling
    <2> QED BY <2>2 DEF C, N, Staled
  <1>3. objs' = [objs EXCEPT ![o] = r]
    BY <1>1 DEF Expire, Became
  <1>4. NoTomb(objs')
    BY <1>0, <1>2, <1>3 DEF NoTomb
  <1>5. Walks(Alive, objs', users', walk')
    BY <1>0, <1>4, IdleWalks
  <1> QED BY <1>0, <1>2, <1>3, <1>5, ListsStay

-----------------------------------------------------------------------------
(* The clients: the walk is where it was, or its user is doomed.           *)

Heard(r, q) == r.state = q.state /\ r.bytes = q.bytes /\ (r.asked => q.asked)

\* The walk v is the walk w, but that its user may be doomed.
SameWalk(v, w) ==
    /\ v \in Walk /\ v.kind = w.kind /\ v.list = w.list /\ v.obj = w.obj
    /\ v.event = w.event /\ v.seen = w.seen /\ v.orig = w.orig /\ v.to = w.to
    /\ w.kind = "none" => v = w
    /\ w.doomed => v.doomed
    /\ v.user = w.user \/ (v.user = Tomb /\ v.doomed)

LEMMA GoesOn ==
    ASSUME NEW A, NEW h, NEW us, NEW w, Walks(A, h, us, w), w.kind # "follow",
           h \in [Objects -> Object], A \subseteq Objects,
           NEW B, NEW g, NEW vs, NEW v, SameWalk(v, w), A \subseteq B,
           g \in [Objects -> Object],
           w.kind # "none" => v.user \in Range(g[w.obj].users),
           \A o \in Objects : Tomb \in Range(g[o].users) => v.user = Tomb /\ v.obj = o,
           w.kind # "none" => Continues(g[w.obj], h[w.obj]),
           w.kind = "send" => (g[w.obj].stream <=> h[w.obj].stream),
           w.kind = "notify" /\ ~v.doomed => Heard(vs[w.user], us[w.user]),
           w.event = "redirect" => \A u \in Users : u \in Range(g[w.obj].users) =>
                                                       vs[u].state < DATA
    PROVE  Walks(B, g, vs, v)
  <1>0. Walker(A, h, w) /\ Notifying(h, us, w) /\ Following(h, us, w)
    BY DEF Walks
  <1>1. w.kind \in {"none", "notify", "send"}
    BY <1>0 DEF Walker, Walk
  <1>2. Walker(B, g, v)
    <2>1. v.user = Tomb => v.doomed
      BY <1>0 DEF Walker, SameWalk
    <2> QED BY <1>0, <1>1, <2>1 DEF Walker, SameWalk
  <1>3. Notifying(g, vs, v)
    <2> SUFFICES ASSUME w.kind = "notify"
                 PROVE  /\ v.seen >= DATA /\ g[v.obj].state >= DATA
                        /\ v.seen = COMPLETE => g[v.obj].state = COMPLETE
                        /\ ~v.doomed => JustTold(vs[v.user], g[v.obj], v)
      BY DEF Notifying, SameWalk
    <2>1. /\ w.seen >= DATA /\ h[w.obj].state >= DATA
          /\ w.seen = COMPLETE => h[w.obj].state = COMPLETE
          /\ ~w.doomed => JustTold(us[w.user], h[w.obj], w)
      BY <1>0 DEF Notifying
    <2>2. Continues(g[w.obj], h[w.obj]) /\ v.obj = w.obj /\ v.seen = w.seen
      BY DEF SameWalk
    <2>3. COMPLETE >= DATA
      BY DEF COMPLETE, DATA
    <2>4. ~v.doomed => JustTold(vs[v.user], g[v.obj], v)
      <3> SUFFICES ASSUME ~v.doomed PROVE JustTold(vs[w.user], g[w.obj], v)
        BY <2>2 DEF SameWalk
      <3>1. JustTold(us[w.user], h[w.obj], w) /\ Heard(vs[w.user], us[w.user])
        BY <2>1 DEF SameWalk
      <3> QED BY <2>2, <3>1 DEF JustTold, Heard, Continues, SameWalk
    <2> QED BY <2>1, <2>2, <2>3, <2>4 DEF Continues
  <1>4. Following(g, vs, v)
    <2> SUFFICES ASSUME w.event = "redirect" PROVE Redirected(g, vs, w.obj, w.to)
      BY DEF Following, SameWalk
    <2>1. Redirected(h, us, w.obj, w.to) /\ w.kind = "send"
      BY <1>0, <1>1 DEF Following, Walker, Idle
    <2>2. Continues(g[w.obj], h[w.obj]) /\ (g[w.obj].stream <=> h[w.obj].stream)
      BY <2>1
    <2>3. w.obj \in Objects
      BY <1>0, <2>1 DEF Walker
    <2>4. g[w.obj].redirects <= RedirectLimit
      <3>1. /\ g[w.obj].redirects \in Int /\ h[w.obj].redirects \in Int
            /\ g[w.obj].redirects <= h[w.obj].redirects
            /\ h[w.obj].redirects <= RedirectLimit
        BY <2>1, <2>2, <2>3 DEF Continues, Redirected, Object
      <3> QED BY <3>1, LlCacheAssumption
    <2> QED BY <2>1, <2>2, <2>4 DEF Continues, Redirected
  <1> QED BY <1>2, <1>3, <1>4 DEF Walks

LEMMA NoUserFacts ==
    NoUser \in User /\ NoUser.state = INIT /\ NoUser.bytes = 0 /\ ~NoUser.asked
  BY LlCacheAssumption DEF NoUser, User, INIT, COMPLETE

\* A user joins an object.
Joined(g, h, o, u) ==
    /\ UsersApart(g[o], h[o])
    /\ Range(g[o].users) = Range(h[o].users) \cup {u}
    /\ \A p \in Objects : p # o => g[p] = h[p]

LEMMA Joining ==
    ASSUME NEW C, NEW N, NEW h, NEW us, Base(C, N, h, us), NEW o \in C \cup N,
           NEW u \in Users, \A p \in Objects : u \notin Range(h[p].users),
           NEW q \in User, Told(q, h[o]),
           h[o].stream /\ ~h[o].lent => h[o].users = <<>>
    PROVE  LET g == AddUser(h, o, u)
           IN  Base(C, N, g, [us EXCEPT ![u] = q]) /\ Joined(g, h, o, u)
  <1> DEFINE ws == AtHead(u, h[o].users)
             r == [h[o] EXCEPT !.users = ws]
             g == AddUser(h, o, u)
             vs == [us EXCEPT ![u] = q]
  <1>0. /\ o \in Objects /\ h \in [Objects -> Object] /\ h[o] \in Object
        /\ Sound(h[o], o \in C) /\ Handed(h) /\ us \in [Users -> User]
    BY DEF Base, Typed, Sounds
  <1>1. /\ h[o].users \in Seq(Users \cup {Tomb}) /\ IsInjective(h[o].users)
        /\ u \in Users \cup {Tomb} /\ u \notin Range(h[o].users)
    BY <1>0 DEF Object, Handed
  <1>2. /\ ws \in Seq(Users \cup {Tomb}) /\ IsInjective(ws)
        /\ Range(ws) = Range(h[o].users) \cup {u}
        /\ h[o].users = <<>> => Len(ws) <= 1
    BY <1>1, PrependFacts
  <1>3. Base(C, N, h, vs) /\ vs \in [Users -> User]
    <2>1. Base(C, N, h, vs)
      BY Tell
    <2> QED BY <2>1 DEF Base, Typed
  <1>4. g = [h EXCEPT ![o] = r]
    BY <1>0 DEF AddUser
  <1>5. vs[u] = q
    BY <1>0
  <1> HIDE DEF ws, vs, g
  <1>6. /\ r \in Object /\ r.users = ws /\ r.candidate = h[o].candidate
        /\ r.count = h[o].count /\ r.forced = h[o].forced /\ r.url = h[o].url
        /\ r.state = h[o].state /\ r.fetch = h[o].fetch /\ r.len = h[o].len
        /\ r.cache = h[o].cache /\ r.stream = h[o].stream /\ r.short = h[o].short
        /\ r.lent = h[o].lent /\ UsersApart(r, h[o])
    <2>1. r \in Object
      BY <1>0, <1>2 DEF Object
    <2> QED BY <1>0, <2>1 DEF Object, UsersApart
  <1> HIDE DEF r
  <1>7. Sound(r, o \in C)
    BY <1>0, <1>2, <1>6 DEF Sound
  <1>8. \A v \in Users : v \in Range(r.users) =>
            /\ Told(vs[v], r)
            /\ \A p \in Objects : p # o => v \notin Range(h[p].users)
    <2> SUFFICES ASSUME NEW v \in Users, v \in Range(r.users)
                 PROVE  /\ Told(vs[v], r)
                        /\ \A p \in Objects : p # o => v \notin Range(h[p].users)
      OBVIOUS
    <2>1. Told(vs[v], h[o])
      BY <1>0, <1>2, <1>3, <1>5, <1>6 DEF Base, Informed
    <2>2. \A p \in Objects : p # o => v \notin Range(h[p].users)
      BY <1>0, <1>2, <1>6 DEF Handed
    <2> QED BY <1>6, <2>1, <2>2 DEF Told
  <1>9. Base(C, N, [h EXCEPT ![o] = r], vs)
    BY ONLY <1>2, <1>3, <1>6, <1>7, <1>8, o \in C \cup N, Replace
  <1>10. g[o] = r /\ \A p \in Objects : p # o => g[p] = h[p]
    BY <1>0, <1>4
  <1> QED BY <1>2, <1>4, <1>6, <1>9, <1>10 DEF g, vs, Joined

\* Where a handle is
LEMMA ObjectFacts ==
    ASSUME Base(Range(cached), Range(uncached), objs, users), NEW u \in Users
    PROVE  /\ Listed(u) => /\ ObjectOf(u) \in Alive /\ ObjectOf(u) \in Objects
                           /\ u \in Range(objs[ObjectOf(u)].users)
                           /\ \A p \in Objects : u \in Range(objs[p].users) =>
                                                    p = ObjectOf(u)
           /\ ~Listed(u) => \A p \in Objects : u \notin Range(objs[p].users)
  <1>0. /\ Sounds(Range(cached), Range(uncached), objs) /\ Handed(objs)
        /\ Alive = Range(cached) \cup Range(uncached) /\ Alive \subseteq Objects
    BY DEF Base, Typed, Alive
  <1>1. CASE Listed(u)
    <2>1. ObjectOf(u) \in Alive /\ HasUser(ObjectOf(u), u)
      BY <1>1 DEF Listed, ObjectOf
    <2> QED BY <1>0, <1>1, <2>1 DEF HasUser, Handed
  <1>2. CASE ~Listed(u)
    <2>1. ASSUME NEW p \in Objects, u \in Range(objs[p].users) PROVE FALSE
      <3>1. p \in Alive
        <4>1. Range(<<>>) = {} /\ NoObject.users = <<>>
          BY DEF Range, NoObject
        <4> QED BY <1>0, <2>1, <4>1 DEF Sounds
      <3> QED BY <1>2, <2>1, <3>1 DEF Listed, HasUser
    <2> QED BY <1>2, <2>1
  <1> QED BY <1>1, <1>2

LEMMA ClientFacts ==
    ASSUME IInv, MayCall
    PROVE  /\ TwoLists(cached, uncached)
           /\ Base(Range(cached), Range(uncached), objs, users)
           /\ Walks(Alive, objs, users, walk)
           /\ objs \in [Objects -> Object] /\ users \in [Users -> User]
           /\ Alive = Range(cached) \cup Range(uncached) /\ Alive \subseteq Objects
           /\ walk.kind # "follow" /\ SameWalk(walk, walk)
           /\ walk.kind = "none" => walk = Idle /\ NoTomb(objs)
           /\ walk.kind # "none" => /\ walk.obj \in Alive
                                    /\ walk.user \in Range(objs[walk.obj].users)
           /\ walk.event = "redirect" => Redirected(objs, users, walk.obj, walk.to)
           /\ \A o \in Objects : /\ Continues(objs[o], objs[o])
                                 /\ Tomb \in Range(objs[o].users) =>
                                       walk.user = Tomb /\ walk.obj = o
  <1>1. /\ TwoLists(cached, uncached)
        /\ Base(Range(cached), Range(uncached), objs, users)
        /\ Walks(Alive, objs, users, walk)
        /\ objs \in [Objects -> Object] /\ users \in [Users -> User]
        /\ Alive = Range(cached) \cup Range(uncached) /\ Alive \subseteq Objects
    BY DEF IInv, Base, Typed, Alive
  <1>2. Walker(Alive, objs, walk) /\ Following(objs, users, walk)
    BY <1>1 DEF Walks
  <1>3. /\ walk.kind \in {"none", "notify", "send"} /\ SameWalk(walk, walk)
        /\ walk.kind = "none" => walk = Idle
    BY <1>2 DEF Walker, Walk, MayCall, SameWalk
  <1>4. walk.kind = "none" => NoTomb(objs)
    BY Resting
  <1>5. \A o \in Objects : Continues(objs[o], objs[o])
    BY <1>1 DEF Continues, Object
  <1> QED BY <1>1, <1>2, <1>3, <1>4, <1>5 DEF Walker, Following

\* The lists stay, and the walk, and nobody comes to the object of a walk.
LEMMA WalkStays ==
    ASSUME IInv, MayCall, Base(Range(cached), Range(uncached), objs', users'),
           walk' = walk, UNCHANGED <<cached, uncached>>,
           \A p \in Objects : Continues(objs'[p], objs[p]),
           \A p \in Objects : objs'[p].users = objs[p].users,
           walk.kind = "send" => (objs'[walk.obj].stream <=> objs[walk.obj].stream),
           \A u \in Users : Heard(users'[u], users[u])
    PROVE  IInv'
  <1>1. objs' \in [Objects -> Object]
    BY DEF Base, Typed
  <1>2. walk.kind = "notify" /\ ~walk.doomed => walk.user \in Users
    BY AtUser
  <1>3. walk.event = "redirect" => \A u \in Users : u \in Range(objs'[walk.obj].users) =>
                                                       users'[u].state < DATA
    <2> SUFFICES ASSUME walk.event = "redirect", NEW u \in Users,
                        u \in Range(objs'[walk.obj].users)
                 PROVE  users'[u].state < DATA
      OBVIOUS
    <2>1. walk.obj \in Objects
      BY ClientFacts DEF Idle
    <2> QED BY <2>1, ClientFacts DEF Redirected, Heard
  <1>4. Walks(Alive, objs', users', walk)
    <2>1. walk.kind # "none" => /\ walk.obj \in Objects
                                /\ walk.user \in Range(objs'[walk.obj].users)
      BY ClientFacts
    <2>2. \A o \in Objects : Tomb \in Range(objs'[o].users) => walk.user = Tomb /\ walk.obj = o
      BY ClientFacts
    <2> QED BY <1>1, <1>2, <1>3, <2>1, <2>2, ClientFacts, GoesOn
  <1> QED BY <1>4, ListsStay, ClientFacts

LEMMA InvalidateCacheStep ==
    ASSUME IInv, NEW u \in Users, InvalidateCache(u)
    PROVE  IInv'
  <1> DEFINE o == ObjectOf(u)
             C == Range(cached)
             N == Range(uncached)
  <1>0. /\ MayCall /\ Listed(u) /\ objs[o].cache = "live"
        /\ objs' = [objs EXCEPT ![o].cache = "stale"]
        /\ UNCHANGED <<cached, uncached, users, walk>>
    BY DEF InvalidateCache, Held
  <1>1. /\ Base(C, N, objs, users) /\ o \in C \cup N /\ o \in Objects
        /\ objs \in [Objects -> Object] /\ users \in [Users -> User]
        /\ \A p \in Objects : Continues(objs[p], objs[p])
    BY <1>0, ObjectFacts, ClientFacts
  <1>2. PICK r : r = [objs[o] EXCEPT !.cache = "stale"]
    OBVIOUS
  <1>3. Base(C, N, [objs EXCEPT ![o] = r], users) /\ Staled(r, objs[o])
    <2> HIDE DEF C, N, o
    <2> QED BY ONLY <1>0, <1>1, <1>2, Staling
  <1>4. objs' = [objs EXCEPT ![o] = r]
    BY <1>0, <1>2
  <1> HIDE DEF o
  <1>5. objs'[o] = r /\ \A p \in Objects : p # o => objs'[p] = objs[p]
    BY <1>1, <1>4
  <1>6. Base(C, N, objs', users')
    BY <1>0, <1>3, <1>4
  <1>7. \A p \in Objects : /\ Continues(objs'[p], objs[p])
                           /\ objs'[p].users = objs[p].users
                           /\ (objs'[p].stream <=> objs[p].stream)
    BY <1>1, <1>3, <1>5 DEF Staled
  <1>8. \A x \in Users : Heard(users'[x], users[x])
    BY <1>0 DEF Heard
  <1>9. walk.kind = "send" => walk.obj \in Objects
    BY <1>0, ClientFacts
  <1> QED BY <1>0, <1>6, <1>7, <1>8, <1>9, WalkStays

\* A client waits no longer.
LEMMA Waives ==
    ASSUME NEW C, NEW N, NEW h, NEW us, Base(C, N, h, us), NEW u \in Users,
           NEW vs, vs = [us EXCEPT ![u].asked = FALSE]
    PROVE  /\ Base(C, N, h, vs) /\ ~vs[u].asked
           /\ \A x \in Users : Heard(vs[x], us[x])
  <1> DEFINE r == [us[u] EXCEPT !.asked = FALSE]
  <1>0. us \in [Users -> User] /\ us[u] \in User /\ Informed(h, us)
    BY DEF Base, Typed
  <1>1. r \in User /\ ~r.asked /\ r.state = us[u].state /\ r.bytes = us[u].bytes
    BY <1>0 DEF User
  <1>2. vs = [us EXCEPT ![u] = r]
    BY <1>0
  <1> HIDE DEF r
  <1>3. \A o \in Objects : u \in Range(h[o].users) => Told(r, h[o])
    BY <1>0, <1>1 DEF Informed, Told
  <1>4. Base(C, N, h, vs)
    <2>1. Base(C, N, h, [us EXCEPT ![u] = r])
      BY ONLY Base(C, N, h, us), u \in Users, <1>1, <1>3, Tell
    <2> QED BY <1>2, <2>1
  <1>5. vs[u] = r /\ \A x \in Users : x # u => vs[x] = us[x]
    BY <1>0, <1>2
  <1> QED BY <1>1, <1>4, <1>5 DEF Heard

LEMMA ReleaseStep ==
    ASSUME IInv, NEW u \in Users, Release(u)
    PROVE  IInv'
  <1> DEFINE C == Range(cached)
             N == Range(uncached)
  <1>0. MayCall /\ Held(u) /\ Listed(u) /\ UNCHANGED <<cached, uncached>>
    BY DEF Release, Held
  <1>1. /\ TwoLists(cached, uncached) /\ Base(C, N, objs, users)
        /\ Walks(Alive, objs, users, walk)
        /\ objs \in [Objects -> Object] /\ users \in [Users -> User]
        /\ Alive = C \cup N /\ Alive \subseteq Objects
    BY <1>0, ClientFacts
  <1>2. CASE walk.user = u
    <2>1. /\ walk' = [walk EXCEPT !.doomed = TRUE] /\ objs' = objs
          /\ users' = [users EXCEPT ![u].asked = FALSE]
      BY <1>2 DEF Release
    <2>2. /\ Base(C, N, objs', users')
          /\ \A x \in Users : Heard(users'[x], users[x])
      <3> HIDE DEF C, N
      <3> QED BY <1>1, <2>1, Waives
    <2>3. SameWalk(walk', walk) /\ walk'.user = walk.user /\ walk'.obj = walk.obj
      <3>1. walk \in Walk
        BY <1>1 DEF Walks, Walker
      <3>2. walk.kind # "none"
        BY <1>0, <1>2, ClientFacts, LlCacheAssumption DEF Idle
      <3> QED BY <2>1, <3>1, <3>2 DEF SameWalk, Walk
    <2>4. walk'.doomed
      <3>1. walk \in Walk
        BY <1>1 DEF Walks, Walker
      <3> QED BY <2>1, <3>1 DEF Walk
    <2>5. walk.event = "redirect" => \A x \in Users : x \in Range(objs'[walk.obj].users) =>
                                                         users'[x].state < DATA
      BY <1>0, <2>1, <2>2, ClientFacts DEF Redirected, Heard
    <2>6. /\ walk.kind # "none" => /\ walk'.user \in Range(objs'[walk.obj].users)
                                   /\ Continues(objs'[walk.obj], objs[walk.obj])
          /\ \A o \in Objects : Tomb \in Range(objs'[o].users) =>
                                    walk'.user = Tomb /\ walk'.obj = o
      BY <1>0, <1>1, <2>1, <2>3, ClientFacts
    <2>7. Walks(Alive, objs', users', walk')
      <3>1. objs' \in [Objects -> Object] /\ walk.kind # "follow"
        BY <1>0, <1>1, <2>1, ClientFacts
      <3>2. walk.kind = "send" => (objs'[walk.obj].stream <=> objs[walk.obj].stream)
        BY <2>1
      <3>3. SameWalk(walk', walk)
        BY <2>3
      <3> HIDE DEF C, N
      <3> QED BY ONLY <1>1, <2>4, <2>5, <2>6, <3>1, <3>2, <3>3, GoesOn
    <2> QED BY <1>0, <1>1, <2>2, <2>7, ListsStay
  <1>3. CASE walk.user # u
    <2> DEFINE o == ObjectOf(u)
               g == RemoveUser(objs, o, u)
    <2>1. /\ walk' = walk /\ objs' = g /\ users' = [users EXCEPT ![u] = NoUser]
      BY <1>3 DEF Release
    <2>2. /\ o \in C \cup N /\ o \in Objects /\ u \in Range(objs[o].users)
          /\ \A p \in Objects : u \in Range(objs[p].users) => p = o
      BY <1>0, <1>1, ObjectFacts
    <2> HIDE DEF o
    <2>3. /\ Base(C, N, g, users) /\ UsersApart(g[o], objs[o])
          /\ Range(g[o].users) = Range(objs[o].users) \ {u}
          /\ \A p \in Objects : p # o => g[p] = objs[p]
      <3> HIDE DEF C, N
      <3>1. Base(C, N, objs, users)
        BY <1>1
      <3> QED BY ONLY <2>2, <3>1, Remove
    <2> HIDE DEF g
    <2>4. \A p \in Objects : u \notin Range(g[p].users)
      BY <2>2, <2>3
    <2>5. NoUser \in User
      BY LlCacheAssumption DEF NoUser, User, INIT, COMPLETE
    <2>6. Base(C, N, g, [users EXCEPT ![u] = NoUser])
      BY <2>3, <2>4, <2>5, Tell
    <2>7. \A p \in Objects : Continues(g[p], objs[p]) /\ (g[p].stream <=> objs[p].stream)
      <3>1. Continues(g[o], objs[o]) /\ (g[o].stream <=> objs[o].stream)
        BY <1>1, <2>2, <2>3 DEF UsersApart, Object, Continues
      <3> QED BY <1>0, <2>3, <3>1, ClientFacts
    <2>8. \A p \in Objects : Range(g[p].users) = Range(objs[p].users) \ {u}
      BY <2>2, <2>3
    <2>9. users'[u] = NoUser /\ \A x \in Users : x # u => users'[x] = users[x]
      BY <1>1, <2>1
    <2>10. walk.kind = "notify" /\ ~walk.doomed =>
               Heard(users'[walk.user], users[walk.user])
      BY <1>3, <2>9, AtUser DEF Heard
    <2>11. walk.event = "redirect" => \A x \in Users : x \in Range(g[walk.obj].users) =>
                                                          users'[x].state < DATA
      <3> SUFFICES ASSUME walk.event = "redirect", NEW x \in Users,
                          x \in Range(g[walk.obj].users)
                   PROVE  users'[x].state < DATA
        OBVIOUS
      <3>1. walk.obj \in Objects
        BY <1>0, <1>1, ClientFacts DEF Idle
      <3> QED BY <1>0, <2>4, <2>8, <2>9, <3>1, ClientFacts DEF Redirected
    <2>12. Walks(Alive, g, users', walk)
      <3>1. walk.kind # "none" => /\ walk.obj \in Objects
                                  /\ walk.user \in Range(g[walk.obj].users)
        BY <1>0, <1>1, <1>3, <2>8, ClientFacts
      <3>2. \A p \in Objects : Tomb \in Range(g[p].users) => walk.user = Tomb /\ walk.obj = p
        BY <1>0, <2>8, ClientFacts
      <3>3. g \in [Objects -> Object]
        BY <2>3 DEF Base, Typed
      <3> QED BY <1>0, <1>1, <2>7, <2>10, <2>11, <3>1, <3>2, <3>3, ClientFacts, GoesOn
    <2> QED BY <1>0, <1>1, <2>1, <2>6, <2>12, ListsStay
  <1> QED BY <1>2, <1>3

\* A user that joined: it is at no walk yet.
LEMMA JoinedWalks ==
    ASSUME IInv, MayCall, NEW u \in Users, \A p \in Objects : u \notin Range(objs[p].users),
           NEW A, Alive \subseteq A, NEW h \in [Objects -> Object],
           \A p \in Alive : Alike(h[p], objs[p]),
           \A p \in Objects \ Alive : h[p].users = <<>>,
           NEW o \in Objects, NEW g \in [Objects -> Object], Joined(g, h, o, u),
           NEW vs, \A x \in Users : x # u => vs[x] = users[x],
           walk.event = "redirect" /\ walk.obj = o => vs[u].state < DATA
    PROVE  Walks(A, g, vs, walk)
  <1>0. /\ Walks(Alive, objs, users, walk) /\ objs \in [Objects -> Object]
        /\ Alive \subseteq Objects /\ walk.kind # "follow" /\ SameWalk(walk, walk)
    BY ClientFacts
  <1>1. /\ \A p \in Objects : p # o => Range(g[p].users) = Range(h[p].users)
        /\ Range(g[o].users) = Range(h[o].users) \cup {u}
    BY DEF Joined
  <1>2. /\ \A p \in Alive : Range(h[p].users) = Range(objs[p].users)
        /\ \A p \in Objects \ Alive : Range(h[p].users) = {}
    BY DEF Alike, Range
  <1>a. ASSUME NEW p \in Objects, NEW x, x \in Range(g[p].users)
        PROVE  x \in Range(objs[p].users) \/ (p = o /\ x = u)
    BY <1>1, <1>2, <1>a
  <1>b. ASSUME NEW p \in Alive, NEW x, x \in Range(objs[p].users)
        PROVE  x \in Range(g[p].users)
    BY <1>0, <1>1, <1>2, <1>b
  <1>3. \A p \in Alive : Continues(g[p], objs[p]) /\ (g[p].stream <=> objs[p].stream)
    <2> SUFFICES ASSUME NEW p \in Alive
                 PROVE  Continues(g[p], objs[p]) /\ (g[p].stream <=> objs[p].stream)
      OBVIOUS
    <2>1. Alike(h[p], objs[p]) /\ h[p] \in Object /\ objs[p] \in Object
      BY <1>0
    <2>2. /\ g[p].state = h[p].state /\ g[p].cache = h[p].cache
          /\ g[p].redirects = h[p].redirects /\ g[p].len = h[p].len
          /\ g[p].stream = h[p].stream /\ g[p].forced = h[p].forced
          /\ g[p].lent = h[p].lent
      <3>1. CASE p = o
        BY <2>1, <3>1 DEF Joined, UsersApart, Object
      <3>2. CASE p # o
        BY <1>0, <3>2 DEF Joined
      <3> QED BY <3>1, <3>2
    <2>3. h[p].redirects <= objs[p].redirects
      BY <2>1 DEF Alike, Object
    <2> QED BY <2>1, <2>2, <2>3 DEF Alike, Continues
  <1>4. walk.kind # "none" => /\ walk.obj \in Alive /\ walk.obj \in Objects
                              /\ walk.user \in Range(g[walk.obj].users)
                              /\ Continues(g[walk.obj], objs[walk.obj])
                              /\ (g[walk.obj].stream <=> objs[walk.obj].stream)
    <2>1. walk.kind # "none" => /\ walk.obj \in Alive
                                /\ walk.user \in Range(objs[walk.obj].users)
      BY ClientFacts
    <2> QED BY <1>0, <1>3, <1>b, <2>1
  <1>5. u # Tomb
    BY LlCacheAssumption
  <1>6. \A p \in Objects : Tomb \in Range(g[p].users) => walk.user = Tomb /\ walk.obj = p
    <2>1. \A p \in Objects : Tomb \in Range(objs[p].users) => walk.user = Tomb /\ walk.obj = p
      BY ClientFacts
    <2> QED BY <1>5, <1>a, <2>1
  <1>7. walk.kind = "notify" /\ ~walk.doomed => Heard(vs[walk.user], users[walk.user])
    <2> SUFFICES ASSUME walk.kind = "notify", ~walk.doomed
                 PROVE  Heard(vs[walk.user], users[walk.user])
      OBVIOUS
    <2>1. walk.user \in Users /\ walk.user # u
      BY AtUser
    <2> QED BY <2>1 DEF Heard
  <1>8. walk.event = "redirect" => \A x \in Users : x \in Range(g[walk.obj].users) =>
                                                       vs[x].state < DATA
    <2> SUFFICES ASSUME walk.event = "redirect", NEW x \in Users,
                        x \in Range(g[walk.obj].users)
                 PROVE  vs[x].state < DATA
      OBVIOUS
    <2>1. walk.obj \in Alive /\ walk.obj \in Objects /\ Redirected(objs, users, walk.obj, walk.to)
      BY <1>0, ClientFacts DEF Idle
    <2>2. x \in Range(objs[walk.obj].users) \/ (walk.obj = o /\ x = u)
      BY <1>a, <2>1
    <2>3. CASE x = u
      <3>1. walk.obj = o
        BY <2>1, <2>2, <2>3
      <3> QED BY <2>3, <3>1
    <2>4. CASE x # u
      BY <2>1, <2>2, <2>4 DEF Redirected
    <2> QED BY <2>3, <2>4
  <1> QED BY <1>0, <1>4, <1>6, <1>7, <1>8, GoesOn

LEMMA CloneStep ==
    ASSUME IInv, NEW u \in Users, NEW v \in Users, Clone(u, v)
    PROVE  IInv'
  <1> DEFINE o == ObjectOf(u)
             C == Range(cached)
             N == Range(uncached)
             q == [NoUser EXCEPT !.state = users[u].state]
             g == AddUser(objs, o, v)
  <1>0. /\ MayCall /\ Listed(u) /\ ~Listed(v) /\ users[u].state >= DATA /\ ~objs[o].stream
        /\ objs' = g /\ users' = [users EXCEPT ![v] = q]
        /\ UNCHANGED <<cached, uncached, walk>>
    BY DEF Clone, Held
  <1>1. /\ TwoLists(cached, uncached) /\ Base(C, N, objs, users)
        /\ objs \in [Objects -> Object] /\ users \in [Users -> User]
        /\ Alive = C \cup N /\ Alive \subseteq Objects
    BY <1>0, ClientFacts
  <1>2. /\ o \in C \cup N /\ o \in Objects /\ u \in Range(objs[o].users)
        /\ \A p \in Objects : v \notin Range(objs[p].users)
    BY <1>0, <1>1, ObjectFacts
  <1> HIDE DEF o
  <1>3. /\ q \in User /\ q.state = users[u].state /\ q.bytes = 0 /\ ~q.asked
    <2>1. users[u].state \in INIT..COMPLETE
      BY <1>1 DEF User
    <2>2. q \in User
      BY <2>1, NoUserFacts DEF User
    <2> QED BY <2>2, NoUserFacts DEF User
  <1> HIDE DEF q
  <1>4. Told(q, objs[o])
    <2>1. Told(users[u], objs[o]) /\ users[u] \in User /\ objs[o].len \in Nat
      BY <1>1, <1>2 DEF Base, Informed, Object
    <2> QED BY <1>0, <1>3, <2>1 DEF Told
  <1>5. Base(C, N, g, [users EXCEPT ![v] = q]) /\ Joined(g, objs, o, v)
    <2>1. objs[o].stream /\ ~objs[o].lent => objs[o].users = <<>>
      BY <1>0
    <2>2. Base(C, N, objs, users)
      BY <1>1
    <2> HIDE DEF C, N
    <2> QED BY ONLY <1>2, <1>3, <1>4, <2>1, <2>2, v \in Users, Joining
  <1> HIDE DEF g
  <1>6. users'[v] = q /\ \A x \in Users : x # v => users'[x] = users[x]
    BY <1>0, <1>1
  <1>7. ~(walk.event = "redirect" /\ walk.obj = o)
    <2> SUFFICES ASSUME walk.event = "redirect", walk.obj = o PROVE FALSE
      OBVIOUS
    <2>1. users[u].state < DATA /\ users[u].state \in Int
      BY <1>0, <1>1, <1>2, ClientFacts DEF Redirected, User, INIT, COMPLETE
    <2> QED BY <1>0, <2>1 DEF DATA
  <1>8. Walks(Alive, g, users', walk)
    <2>1. /\ \A p \in Objects \ Alive : objs[p].users = <<>>
          /\ \A p \in Alive : Alike(objs[p], objs[p])
      BY <1>1 DEF Base, Sounds, NoObject, Alike
    <2>2. g \in [Objects -> Object]
      BY <1>5 DEF Base, Typed
    <2>3. Joined(g, objs, o, v)
      BY <1>5
    <2>4. objs \in [Objects -> Object] /\ Alive \subseteq Alive
      BY <1>1
    <2> QED BY ONLY IInv, v \in Users, <1>0, <1>2, <1>6, <1>7, <2>1, <2>2, <2>3, <2>4,
                    JoinedWalks
  <1> QED BY <1>0, <1>1, <1>5, <1>8, ListsStay

LEMMA RetrieveStep ==
    ASSUME IInv, NEW u \in Users, NEW url \in Urls, NEW forced \in BOOLEAN,
           NEW stream \in BOOLEAN, Retrieve(u, url, forced, stream)
    PROVE  IInv'
  <1>0. /\ MayCall /\ ~Listed(u) /\ (stream => forced) /\ walk' = walk
        /\ users' = [users EXCEPT ![u] = [NoUser EXCEPT !.asked = TRUE]]
    BY DEF Retrieve
  <1>1. PICK r \in Retrievals(url, forced, stream, 0) :
           /\ cached' = r.cached /\ uncached' = r.uncached
           /\ objs' = AddUser(r.objs, r.found, u)
    BY DEF Retrieve
  <1>2. /\ TwoLists(cached, uncached) /\ Base(Range(cached), Range(uncached), objs, users)
        /\ users \in [Users -> User] /\ Alive \subseteq Objects
        /\ \A p \in Objects : u \notin Range(objs[p].users)
    BY <1>0, ClientFacts, ObjectFacts
  <1> DEFINE f == r.found
             h == r.objs
             C == Range(r.cached)
             N == Range(r.uncached)
             q == [NoUser EXCEPT !.asked = TRUE]
             g == AddUser(h, f, u)
  <1>3. /\ TwoLists(r.cached, r.uncached) /\ Base(C, N, h, users)
        /\ Alive \subseteq C \cup N /\ f \in C \cup N
        /\ \A p \in Alive : Alike(h[p], objs[p])
        /\ \A p \in Objects \ Alive : h[p].users = <<>>
        /\ h[f].stream => h[f].users = <<>>
        /\ h[f].short => h[f].lent
    <2>1. 0 \in 0..(RedirectLimit + 1)
      BY LlCacheAssumption
    <2> QED BY <1>0, <1>2, <2>1, Retrieved
  <1>4. f \in Objects /\ h \in [Objects -> Object]
    BY <1>3 DEF Base, Typed
  <1>5. \A p \in Objects : u \notin Range(h[p].users)
    <2>1. Range(<<>>) = {}
      BY DEF Range
    <2> QED BY <1>2, <1>3, <2>1 DEF Alike
  <1>6. q \in User /\ q.state = INIT /\ q.bytes = 0 /\ q.asked
    <2>1. q \in User
      BY NoUserFacts DEF User
    <2> QED BY <2>1, NoUserFacts DEF User
  <1> HIDE DEF q, g, h, f, C, N
  <1>7. Told(q, h[f])
    <2>1. h[f].len \in Nat
      BY <1>4 DEF Object
    <2> QED BY <1>3, <1>6, <2>1 DEF Told, INIT, DATA, COMPLETE
  <1>8. Base(C, N, g, [users EXCEPT ![u] = q]) /\ Joined(g, h, f, u)
    <2>1. /\ Base(C, N, h, users) /\ f \in C \cup N
          /\ h[f].stream /\ ~h[f].lent => h[f].users = <<>>
      BY <1>3
    <2> QED BY ONLY <1>5, <1>6, <1>7, <2>1, u \in Users, Joining DEF g
  <1>9. objs' = g /\ users' = [users EXCEPT ![u] = q] /\ cached' = r.cached
        /\ uncached' = r.uncached
    BY <1>0, <1>1 DEF g, h, f, q
  <1>10. users'[u].state < DATA /\ \A x \in Users : x # u => users'[x] = users[x]
    BY <1>2, <1>6, <1>9 DEF INIT, DATA
  <1>11. Walks(C \cup N, g, users', walk)
    <2>1. g \in [Objects -> Object]
      BY <1>8 DEF Base, Typed
    <2>2. /\ Alive \subseteq C \cup N
          /\ \A p \in Alive : Alike(h[p], objs[p])
          /\ \A p \in Objects \ Alive : h[p].users = <<>>
      BY <1>3
    <2>3. Joined(g, h, f, u)
      BY <1>8
    <2> QED BY ONLY IInv, u \in Users, <1>0, <1>2, <1>4, <1>10, <2>1, <2>2, <2>3, JoinedWalks
  <1>12. Alive' = C \cup N
    BY <1>9 DEF Alive, C, N
  <1> QED BY <1>0, <1>3, <1>8, <1>9, <1>11, <1>12 DEF IInv, C, N

\* The object of one handle becomes a stream, or is over.
LEMMA Alone1 ==
    ASSUME NEW C, NEW N, NEW h, NEW us, Base(C, N, h, us), NEW o \in C \cup N,
           NEW u \in Users, h[o].users = <<u>>, NEW r \in Object,
           Sound(r, o \in C), r.users = h[o].users, r.candidate = h[o].candidate,
           r.count = h[o].count, r.forced <=> h[o].forced, Told(us[u], r)
    PROVE  Base(C, N, [h EXCEPT ![o] = r], us)
  <1>0. o \in Objects /\ h[o] \in Object /\ Handed(h)
    BY DEF Base, Typed
  <1>1. r.forced = h[o].forced
    BY <1>0 DEF Object
  <1>2. IsInjective(r.users) /\ Range(r.users) = {u}
    <2>1. Range(<<u>>) = {u}
      BY DEF Range
    <2> QED BY <1>0, <2>1 DEF Handed
  <1>3. \A v \in Users : v \in Range(r.users) =>
            /\ Told(us[v], r)
            /\ \A p \in Objects : p # o => v \notin Range(h[p].users)
    BY <1>0, <1>2 DEF Handed
  <1> QED BY <1>1, <1>2, <1>3, Replace

LEMMA AbortAloneStep ==
    ASSUME IInv, NEW u \in Users, MayCall, Held(u), Alone(u), AbortAlone(u, ObjectOf(u)),
           users' = [users EXCEPT ![u].asked = FALSE], UNCHANGED cached
    PROVE  IInv'
  <1> DEFINE o == ObjectOf(u)
             C == Range(cached)
             N == Range(uncached)
             b == objs[o]
             k == Stopped(b)
             r == IF b.fetch THEN [k EXCEPT !.short = TRUE] ELSE Invalidated(b)
  <1>0. /\ objs' = [objs EXCEPT ![o] = r] /\ b.users = <<u>>
        /\ UNCHANGED <<cached, uncached, walk>> /\ Listed(u)
    BY DEF AbortAlone, Alone, Held
  <1>1. /\ Base(C, N, objs, users) /\ objs \in [Objects -> Object]
        /\ o \in C \cup N /\ o \in Objects /\ b \in Object
        /\ \A p \in Objects : Continues(objs[p], objs[p])
    BY <1>0, ObjectFacts, ClientFacts
  <1> HIDE DEF o
  <1>2. /\ Base(C, N, objs, users') /\ ~users'[u].asked
        /\ \A x \in Users : Heard(users'[x], users[x])
    <2>1. Base(C, N, objs, users)
      BY <1>1
    <2> HIDE DEF C, N
    <2> QED BY <2>1, Waives
  <1>3. Sound(b, o \in C) /\ Told(users'[u], b) /\ users'[u] \in User
    <2>1. Range(<<u>>) = {u}
      BY DEF Range
    <2> QED BY <1>0, <1>1, <1>2, <2>1 DEF Base, Sounds, Informed, Typed
  <1> HIDE DEF b
  <1>4. /\ r \in Object /\ r.users = b.users /\ r.candidate = b.candidate
        /\ r.count = b.count /\ (r.forced <=> b.forced) /\ (r.stream <=> b.stream)
        /\ (r.lent <=> b.lent) /\ r.len = b.len /\ r.url = b.url /\ r.cache = "void"
        /\ r.redirects <= b.redirects
        /\ r.state = COMPLETE /\ ~r.fetch
    <2>1. CASE b.fetch
      <3>1. /\ k \in Object /\ Progress(k, b) /\ k.candidate = b.candidate
            /\ k.count = b.count /\ k.state = COMPLETE /\ k.cache = "void"
            /\ k.redirects = 0 /\ k.len = b.len
        <4>1. Stopped(b).len = b.len
          BY <1>1 DEF Stopped, Ended, Invalidated, Object
        <4> QED BY <1>1, <4>1, EndedFacts
      <3> HIDE DEF k
      <3>2. r = [k EXCEPT !.short = TRUE]
        BY <2>1
      <3>3. r \in Object
        BY <3>1, <3>2 DEF Object
      <3>4. /\ r.users = k.users /\ r.candidate = k.candidate /\ r.count = k.count
            /\ r.forced = k.forced /\ r.stream = k.stream /\ r.lent = k.lent
            /\ r.len = k.len /\ r.url = k.url /\ r.cache = k.cache
            /\ r.redirects = k.redirects /\ r.state = k.state /\ r.fetch = k.fetch
        BY <3>1, <3>2 DEF Object
      <3>5. 0 <= b.redirects
        BY <1>1, LlCacheAssumption DEF Object
      <3> HIDE DEF r
      <3> QED BY <3>1, <3>3, <3>4, <3>5 DEF Progress
    <2>2. CASE ~b.fetch
      <3>1. r = [b EXCEPT !.cache = "void"]
        BY <2>2 DEF Invalidated
      <3>2. r \in Object
        BY <1>1, <3>1 DEF Object
      <3>3. /\ r.users = b.users /\ r.candidate = b.candidate /\ r.count = b.count
            /\ r.forced = b.forced /\ r.stream = b.stream /\ r.lent = b.lent
            /\ r.len = b.len /\ r.url = b.url /\ r.cache = "void"
            /\ r.redirects = b.redirects /\ r.state = b.state /\ r.fetch = b.fetch
        BY <1>1, <3>1 DEF Object
      <3>4. b.redirects \in Int /\ b.state = COMPLETE
        BY <1>1, <1>3, <2>2 DEF Object, Sound
      <3> HIDE DEF r
      <3> QED BY <2>2, <3>2, <3>3, <3>4
    <2> QED BY <2>1, <2>2
  <1> HIDE DEF r
  <1>5. COMPLETE >= DATA
    BY DEF COMPLETE, DATA
  <1>6. Sound(r, o \in C)
    BY <1>3, <1>4, <1>5 DEF Sound
  <1>7. Told(users'[u], r)
    BY <1>2, <1>3, <1>4, <1>5 DEF Told
  <1>8. Base(C, N, objs', users')
    <2>1. Base(C, N, [objs EXCEPT ![o] = r], users')
      <3> HIDE DEF C, N
      <3> QED BY ONLY u \in Users, <1>0, <1>1, <1>2, <1>4, <1>6, <1>7, Alone1 DEF b
    <2> QED BY <1>0, <2>1
  <1>9. objs'[o] = r /\ \A p \in Objects : p # o => objs'[p] = objs[p]
    BY <1>0, <1>1
  <1>10. \A p \in Objects : /\ Continues(objs'[p], objs[p])
                            /\ objs'[p].users = objs[p].users
                            /\ (objs'[p].stream <=> objs[p].stream)
    <2>1. Continues(r, objs[o])
      BY <1>4 DEF Continues, b
    <2> QED BY <1>1, <1>4, <1>9, <2>1 DEF b
  <1>11. walk.kind = "send" => walk.obj \in Objects
    BY ClientFacts
  <1> QED BY <1>0, <1>2, <1>8, <1>10, <1>11, WalkStays

LEMMA ForceStreamStep ==
    ASSUME IInv, NEW u \in Users, ForceStream(u)
    PROVE  IInv'
  <1> DEFINE o == walk.obj
             C == Range(cached)
             N == Range(uncached)
             b == objs[o]
             r == [b EXCEPT !.stream = TRUE]
             D == Range(cached')
             M == Range(uncached')
  <1>0. /\ walk.kind = "notify" /\ walk.user = u /\ Alone(u) /\ Listed(u) /\ MayCall
        /\ objs' = [objs EXCEPT ![o] = r] /\ users' = users /\ walk' = walk
    <2>1. walk.kind = "notify" => walk.event # "none"
      BY DEF IInv, Walks, Walker
    <2> QED BY <2>1 DEF ForceStream, Held, MayCall
  <1>1. /\ TwoLists(cached, uncached) /\ Base(C, N, objs, users)
        /\ Walks(Alive, objs, users, walk) /\ Alive = C \cup N /\ Alive \subseteq Objects
        /\ objs \in [Objects -> Object] /\ o \in C \cup N /\ o \in Objects /\ b \in Object
        /\ u \in Range(b.users)
        /\ \A p \in Objects : Continues(objs[p], objs[p])
    BY <1>0, ClientFacts
  <1>2. b.users = <<u>>
    <2>1. ObjectOf(u) = o
      BY <1>0, <1>1, ObjectFacts
    <2> QED BY <1>0, <2>1 DEF Alone
  <1>3. b.state >= DATA
    BY <1>0, <1>1 DEF Walks, Notifying
  <1>4. /\ TwoLists(cached', uncached') /\ D \cup M = C \cup N /\ o \notin D
        /\ Base(D, M, objs, users)
    <2>1. CASE o \in C
      <3>1. cached' = Without(cached, o) /\ uncached' = AtHead(o, uncached)
        BY <2>1 DEF ForceStream
      <3>2. /\ cached \in Seq(Objects) /\ IsInjective(cached)
            /\ uncached \in Seq(Objects) /\ IsInjective(uncached)
            /\ o \notin N /\ C \cap N = {}
        BY <1>1, <2>1 DEF TwoLists
      <3>3. /\ Without(cached, o) \in Seq(Objects) /\ IsInjective(Without(cached, o))
            /\ Range(Without(cached, o)) = C \ {o}
        BY <3>2, WithoutFacts
      <3>4. /\ AtHead(o, uncached) \in Seq(Objects) /\ IsInjective(AtHead(o, uncached))
            /\ Range(AtHead(o, uncached)) = N \cup {o}
        BY <1>1, <3>2, PrependFacts
      <3>5. D = C \ {o} /\ M = N \cup {o}
        BY <3>1, <3>3, <3>4
      <3>6. TwoLists(cached', uncached')
        BY <3>1, <3>2, <3>3, <3>4 DEF TwoLists
      <3>7. Base(C \ {o}, N \cup {o}, objs, users)
        <4> HIDE DEF C, N
        <4> QED BY <1>1, <2>1, MoveOut
      <3> QED BY <1>1, <3>5, <3>6, <3>7
    <2>2. CASE o \notin C
      BY <1>1, <2>2 DEF ForceStream
    <2> QED BY <2>1, <2>2
  <1> HIDE DEF b
  <1>5. /\ r \in Object /\ r.users = b.users /\ r.candidate = b.candidate
        /\ r.count = b.count /\ r.forced = b.forced /\ r.stream /\ r.lent = b.lent
        /\ r.len = b.len /\ r.url = b.url /\ r.cache = b.cache
        /\ r.redirects = b.redirects /\ r.state = b.state /\ r.fetch = b.fetch
        /\ r.short = b.short
    <2>1. r \in Object
      BY <1>1 DEF Object
    <2> QED BY <1>1, <2>1 DEF Object
  <1> HIDE DEF r
  <1>6. Sound(r, o \in D)
    <2>1. Sound(b, o \in D)
      BY <1>1, <1>4 DEF Base, Sounds, b
    <2>2. Len(r.users) <= 1
      BY <1>2, <1>5
    <2> QED BY <1>3, <1>4, <1>5, <2>1, <2>2 DEF Sound
  <1>7. Told(users[u], r)
    <2>1. Told(users[u], b)
      BY <1>1 DEF Base, Informed, b
    <2> QED BY <1>5, <2>1 DEF Told
  <1>8. Base(D, M, [objs EXCEPT ![o] = r], users)
    <2>1. o \in D \cup M
      BY <1>1, <1>4
    <2>2. Base(D, M, objs, users)
      BY <1>4
    <2> HIDE DEF D, M, o
    <2> QED BY ONLY u \in Users, <1>2, <1>5, <1>6, <1>7, <2>1, <2>2, Alone1 DEF b
  <1>9. objs'[o] = r /\ \A p \in Objects : p # o => objs'[p] = objs[p]
    BY <1>0, <1>1
  <1>10. \A p \in Objects : objs'[p].users = objs[p].users
    BY <1>1, <1>5, <1>9 DEF b
  <1>11. Continues(objs'[o], objs[o])
    <2>1. Continues(b, b)
      BY <1>1 DEF b
    <2> QED BY <1>5, <1>9, <2>1 DEF Continues, b
  <1>12. Walks(Alive, objs', users, walk)
    <2>1. objs' \in [Objects -> Object]
      BY <1>0, <1>1, <1>5
    <2>2. /\ walk.kind # "none" => walk.user \in Range(objs'[walk.obj].users)
          /\ \A p \in Objects : Tomb \in Range(objs'[p].users) =>
                                    walk.user = Tomb /\ walk.obj = p
      BY <1>0, <1>1, <1>10, ClientFacts
    <2>3. walk.event # "redirect" /\ walk.kind # "send" /\ walk.kind # "follow"
      BY <1>0, <1>1 DEF Walks, Walker
    <2>4. Heard(users[walk.user], users[walk.user]) /\ SameWalk(walk, walk)
      BY <1>0, ClientFacts DEF Heard
    <2>5. Alive \subseteq Alive /\ walk.kind # "none" => Continues(objs'[walk.obj], objs[walk.obj])
      BY <1>11
    <2> QED BY ONLY <1>1, <2>1, <2>2, <2>3, <2>4, <2>5, GoesOn
  <1>13. Alive' = Alive
    BY <1>1, <1>4 DEF Alive
  <1> QED BY <1>0, <1>4, <1>8, <1>12, <1>13 DEF IInv

\* A handle leaves its object; in a walk, its record stays.
Left(h, o, u, x) ==
    /\ UsersApart(h[o], objs[o])
    /\ Range(h[o].users) = (Range(objs[o].users) \ {u}) \cup x
    /\ \A p \in Objects : p # o => h[p] = objs[p]

LEMMA Leaving ==
    ASSUME IInv, MayCall, NEW u \in Users, NEW o \in Objects, o \in Alive,
           u \in Range(objs[o].users), NEW us,
           Base(Range(cached), Range(uncached), objs, us)
    PROVE  LET h == IF walk.user = u
                    THEN [objs EXCEPT ![o].users =
                            [i \in DOMAIN @ |-> IF @[i] = u THEN Tomb ELSE @[i]]]
                    ELSE RemoveUser(objs, o, u)
           IN  /\ Base(Range(cached), Range(uncached), h, us)
               /\ Left(h, o, u, IF walk.user = u THEN {Tomb} ELSE {})
  <1> DEFINE C == Range(cached)
             N == Range(uncached)
             q == objs[o].users
             ws == [i \in DOMAIN q |-> IF q[i] = u THEN Tomb ELSE q[i]]
             r == [objs[o] EXCEPT !.users = ws]
             g == [objs EXCEPT ![o].users =
                            [i \in DOMAIN @ |-> IF @[i] = u THEN Tomb ELSE @[i]]]
  <1>1. /\ o \in C \cup N /\ Base(C, N, objs, us) /\ objs \in [Objects -> Object]
        /\ Handed(objs) /\ Sound(objs[o], o \in C) /\ Informed(objs, us)
    BY DEF Alive, Base, Typed, Sounds
  <1>2. CASE walk.user # u
    <2> DEFINE e == RemoveUser(objs, o, u)
    <2>1. /\ Base(C, N, e, us) /\ UsersApart(e[o], objs[o])
          /\ Range(e[o].users) = Range(objs[o].users) \ {u}
          /\ \A p \in Objects : p # o => e[p] = objs[p]
      <3>1. Base(C, N, objs, us) /\ o \in C \cup N
        BY <1>1
      <3> HIDE DEF C, N
      <3> QED BY ONLY <3>1, Remove
    <2> HIDE DEF e
    <2>2. Base(C, N, e, us) /\ Left(e, o, u, {})
      BY <2>1 DEF Left
    <2> QED BY <1>2, <2>2 DEF e
  <1>3. CASE walk.user = u
    <2>1. Tomb \notin Range(q) /\ u # Tomb
      BY <1>3, ClientFacts, LlCacheAssumption
    <2>2. q \in Seq(Users \cup {Tomb}) /\ IsInjective(q) /\ u \in Range(q)
      BY <1>1 DEF Object, Handed
    <2>3. g = [objs EXCEPT ![o] = r]
      BY <1>1
    <2> HIDE DEF q, g
    <2>4. /\ ws \in Seq(Users \cup {Tomb}) /\ IsInjective(ws) /\ Len(ws) = Len(q)
          /\ Range(ws) = (Range(q) \ {u}) \cup {Tomb}
      <3>1. Tomb \in Users \cup {Tomb}
        OBVIOUS
      <3> QED BY <2>1, <2>2, <3>1, ExchangeFacts
    <2> HIDE DEF ws
    <2>5. /\ r \in Object /\ r.users = ws /\ r.candidate = objs[o].candidate
          /\ r.count = objs[o].count /\ r.forced = objs[o].forced /\ r.url = objs[o].url
          /\ r.state = objs[o].state /\ r.fetch = objs[o].fetch /\ r.len = objs[o].len
          /\ r.cache = objs[o].cache /\ r.stream = objs[o].stream
          /\ r.short = objs[o].short /\ r.lent = objs[o].lent /\ UsersApart(r, objs[o])
      <3>1. objs[o] \in Object
        BY <1>1
      <3>2. r \in Object
        BY ONLY <2>4, <3>1 DEF Object, r
      <3> QED BY <3>1, <3>2 DEF Object, UsersApart
    <2> HIDE DEF r
    <2>6. Sound(r, o \in C)
      BY <1>1, <2>4, <2>5 DEF Sound, q
    <2>7. \A v \in Users : v \in Range(r.users) =>
              /\ Told(us[v], r)
              /\ \A p \in Objects : p # o => v \notin Range(objs[p].users)
      <3> SUFFICES ASSUME NEW v \in Users, v \in Range(r.users)
                   PROVE  /\ Told(us[v], r)
                          /\ \A p \in Objects : p # o => v \notin Range(objs[p].users)
        OBVIOUS
      <3>1. v # Tomb
        BY LlCacheAssumption
      <3>2. v \in Range(objs[o].users)
        BY <2>4, <2>5, <3>1 DEF q
      <3>3. Told(us[v], objs[o])
        BY <1>1, <3>2 DEF Informed
      <3> QED BY <1>1, <2>5, <3>2, <3>3 DEF Told, Handed
    <2>8. Base(C, N, [objs EXCEPT ![o] = r], us)
      <3> HIDE DEF C, N
      <3> QED BY ONLY <1>1, <2>4, <2>5, <2>6, <2>7, Replace
    <2>9. g[o] = r /\ \A p \in Objects : p # o => g[p] = objs[p]
      BY <1>1, <2>3
    <2>10. Base(C, N, g, us) /\ Left(g, o, u, {Tomb})
      BY <2>3, <2>4, <2>5, <2>8, <2>9 DEF Left, q
    <2> QED BY <1>3, <2>10 DEF g
  <1> QED BY <1>2, <1>3

\* The snapshot of an object that has other users is its user's.
LEMMA SnapshotFacts ==
    ASSUME NEW b \in Object, NEW kept, Sound(b, kept), NEW u \in Users,
           NEW q \in User, ~q.asked, Told(q, b), b.stream => b.lent,
           NEW s, s = Snapshot(b), NEW r, r = [s EXCEPT !.users = <<u>>]
    PROVE  /\ s \in Object /\ Sound(s, TRUE) /\ s.users = <<>> /\ s.candidate = None
           /\ ~s.forced
           /\ r \in Object /\ Sound(r, FALSE) /\ r.users = <<u>>
           /\ r.candidate = s.candidate /\ r.count = s.count /\ r.forced = s.forced
           /\ Told(q, r)
  <1>1. /\ s \in Object /\ s.url = b.url /\ s.users = <<>> /\ s.state = COMPLETE
        /\ ~s.fetch /\ s.len = b.len /\ s.candidate = None /\ s.cache = "void"
        /\ ~s.forced /\ ~s.stream /\ s.short /\ (s.lent <=> b.lent)
    <2>1. /\ COMPLETE \in INIT..COMPLETE /\ INIT \in INIT..COMPLETE
          /\ 0 \in 0..FetchAttempts /\ 0 \in 0..(RedirectLimit + 1) /\ 0 \in 0..MaxLen
          /\ <<>> \in Seq(Users \cup {Tomb})
      BY LlCacheAssumption DEF INIT, COMPLETE
    <2>2. NoObject \in Object
      BY <2>1 DEF NoObject, Object
    <2>3. b.url \in Urls \cup {None} /\ b.len \in 0..MaxLen /\ b.lent \in BOOLEAN
      BY DEF Object
    <2>4. s = [NoObject EXCEPT !.url = b.url, !.len = b.len, !.state = COMPLETE,
                               !.short = TRUE, !.lent = b.lent]
      BY DEF Snapshot
    <2>5. s \in Object
      BY <2>1, <2>2, <2>3, <2>4 DEF Object
    <2>6. /\ NoObject.users = <<>> /\ ~NoObject.fetch /\ NoObject.candidate = None
          /\ NoObject.cache = "void" /\ ~NoObject.forced /\ ~NoObject.stream
      BY DEF NoObject
    <2>7. /\ s.users = NoObject.users /\ s.fetch = NoObject.fetch
          /\ s.candidate = NoObject.candidate /\ s.cache = NoObject.cache
          /\ s.forced = NoObject.forced /\ s.stream = NoObject.stream
          /\ s.url = b.url /\ s.state = COMPLETE /\ s.len = b.len /\ s.short
          /\ s.lent = b.lent
      BY <2>2, <2>4 DEF Object
    <2> QED BY <2>5, <2>6, <2>7
  <1>2. /\ r \in Object /\ r.users = <<u>> /\ r.candidate = s.candidate
        /\ r.count = s.count /\ r.forced = s.forced /\ r.url = s.url /\ r.state = s.state
        /\ r.fetch = s.fetch /\ r.len = s.len /\ r.cache = s.cache /\ r.stream = s.stream
        /\ r.short = s.short /\ r.lent = s.lent
    <2>1. <<u>> \in Seq(Users \cup {Tomb})
      OBVIOUS
    <2>2. r \in Object
      BY <1>1, <2>1 DEF Object
    <2> QED BY <1>1, <2>2 DEF Object
  <1>3. /\ Len(<<>>) <= 1 /\ Len(<<u>>) <= 1 /\ b.url \in Urls
        /\ (b.lent => ~b.forced) /\ COMPLETE >= DATA
    BY DEF Sound, COMPLETE, DATA
  <1>4. Sound(s, TRUE) /\ Sound(r, FALSE)
    BY <1>1, <1>2, <1>3 DEF Sound
  <1>5. Told(q, r)
    BY <1>1, <1>2, <1>3 DEF Told
  <1> QED BY <1>1, <1>2, <1>4, <1>5

\* A new object of the list that others do not use
LEMMA Snapshotting ==
    ASSUME NEW C, NEW N, NEW h, NEW us, Base(C, N, h, us), NEW n \in Objects \ (C \cup N),
           NEW s \in Object, Sound(s, TRUE), s.users = <<>>, s.candidate = None, ~s.forced,
           NEW u \in Users, \A p \in Objects : u \notin Range(h[p].users),
           NEW r \in Object, Sound(r, FALSE), r.users = <<u>>,
           r.candidate = s.candidate, r.count = s.count, r.forced = s.forced,
           Told(us[u], r)
    PROVE  Base(C, N \cup {n}, [h EXCEPT ![n] = r], us)
  <1> DEFINE M == N \cup {n}
             f == [h EXCEPT ![n] = s]
  <1>0. h \in [Objects -> Object] /\ n \notin C /\ n \notin N /\ C \subseteq Objects
    BY DEF Base, Typed
  <1>1. Base(C \cup {n}, N, f, us)
    BY Begin
  <1>2. Base(C, M, f, us)
    <2>1. (C \cup {n}) \ {n} = C
      BY <1>0
    <2>2. Base((C \cup {n}) \ {n}, M, f, us)
      <3> HIDE DEF f
      <3> QED BY <1>1, MoveOut
    <2> QED BY <2>1, <2>2
  <1>3. /\ f[n] = s /\ \A p \in Objects : p # n => f[p] = h[p]
        /\ f \in [Objects -> Object]
    BY <1>0
  <1>4. [h EXCEPT ![n] = r] = [f EXCEPT ![n] = r]
    BY <1>0
  <1> HIDE DEF f
  <1>5. IsInjective(r.users) /\ Range(r.users) = {u}
    BY DEF IsInjective, Range
  <1>6. \A v \in Users : v \in Range(r.users) =>
            /\ Told(us[v], r)
            /\ \A p \in Objects : p # n => v \notin Range(f[p].users)
    BY <1>3, <1>5
  <1>7. /\ n \in C \cup M /\ Sound(r, n \in C) /\ r.candidate = f[n].candidate
        /\ r.count = f[n].count /\ r.forced = f[n].forced
    <2>1. (n \in C) = FALSE
      BY <1>0
    <2>2. Sound(r, n \in C)
      BY <2>1
    <2> QED BY <1>3, <2>2
  <1>8. Base(C, M, [f EXCEPT ![n] = r], us)
    <2> HIDE DEF M
    <2> QED BY ONLY r \in Object, <1>2, <1>5, <1>6, <1>7, Replace
  <1> QED BY <1>4, <1>8

LEMMA AbortApartStep ==
    ASSUME IInv, NEW u \in Users, MayCall, Held(u), ~Alone(u),
           AbortApart(u, ObjectOf(u)),
           users' = [users EXCEPT ![u].asked = FALSE], UNCHANGED cached
    PROVE  IInv'
  <1> DEFINE o == ObjectOf(u)
             C == Range(cached)
             N == Range(uncached)
             h == IF walk.user = u
                  THEN [objs EXCEPT ![o].users =
                            [i \in DOMAIN @ |-> IF @[i] = u THEN Tomb ELSE @[i]]]
                  ELSE RemoveUser(objs, o, u)
             s == Snapshot(objs[o])
             r == [s EXCEPT !.users = <<u>>]
             x == IF walk.user = u THEN {Tomb} ELSE {}
  <1>0. PICK n \in NewObjects :
           /\ objs' = [h EXCEPT ![n] = r]
           /\ walk' = IF walk.user = u
                      THEN [walk EXCEPT !.user = Tomb, !.doomed = TRUE] ELSE walk
           /\ uncached' = AtHead(n, uncached)
    BY DEF AbortApart
  <1>1. /\ TwoLists(cached, uncached) /\ Base(C, N, objs, users)
        /\ Walks(Alive, objs, users, walk)
        /\ Alive = C \cup N /\ Alive \subseteq Objects
        /\ objs \in [Objects -> Object]
        /\ \A p \in Objects : Continues(objs[p], objs[p])
    BY ClientFacts
  <1>2. /\ o \in Alive /\ o \in Objects /\ u \in Range(objs[o].users)
        /\ \A p \in Objects : u \in Range(objs[p].users) => p = o
    BY <1>1, ObjectFacts DEF Held
  <1>3. n \in Objects /\ n \notin Alive /\ n \in Objects \ (C \cup N)
    BY <1>1 DEF NewObjects
  <1>4. objs[o].users # <<u>> /\ objs[o] \in Object /\ Sound(objs[o], o \in C)
    BY <1>1, <1>2 DEF Alone, Base, Sounds
  <1> HIDE DEF o
  <1>5. /\ Base(C, N, objs, users') /\ ~users'[u].asked
        /\ \A y \in Users : Heard(users'[y], users[y])
    <2>1. Base(C, N, objs, users)
      BY <1>1
    <2> HIDE DEF C, N
    <2> QED BY <2>1, Waives
  <1>6. users'[u] \in User /\ Told(users'[u], objs[o])
    BY <1>2, <1>5 DEF Base, Typed, Informed
  <1>7. objs[o].stream => objs[o].lent
    <2> SUFFICES ASSUME objs[o].stream, ~objs[o].lent PROVE FALSE
      BY <1>4 DEF Object
    <2>1. PICK q : q = objs[o].users
      OBVIOUS
    <2>2. Len(q) <= 1 /\ q \in Seq(Users \cup {Tomb})
      BY <1>4, <2>1 DEF Sound, Object
    <2>3. PICK i \in DOMAIN q : q[i] = u
      BY <1>2, <2>1 DEF Range
    <2>a. DOMAIN q = 1..Len(q) /\ Len(q) \in Nat
      BY <2>2
    <2>4. i = 1 /\ Len(q) = 1
      BY <2>2, <2>3, <2>a
    <2>5. q = <<u>>
      BY <2>2, <2>3, <2>4
    <2> QED BY <1>4, <2>1, <2>5
  <1>8. Base(C, N, h, users') /\ Left(h, o, u, x)
    BY <1>2, <1>5, Leaving
  <1> HIDE DEF h
  <1>9. /\ s \in Object /\ Sound(s, TRUE) /\ s.users = <<>> /\ s.candidate = None
        /\ ~s.forced
        /\ r \in Object /\ Sound(r, FALSE) /\ r.users = <<u>>
        /\ r.candidate = s.candidate /\ r.count = s.count /\ r.forced = s.forced
        /\ Told(users'[u], r)
    BY <1>4, <1>5, <1>6, <1>7, SnapshotFacts
  <1> HIDE DEF r, s
  <1>10. u # Tomb
    BY LlCacheAssumption
  <1>11. \A p \in Objects : u \notin Range(h[p].users)
    BY <1>2, <1>8, <1>10 DEF Left
  <1>12. Base(C, N \cup {n}, objs', users')
    <2>1. Base(C, N, h, users')
      BY <1>8
    <2>2. Base(C, N \cup {n}, [h EXCEPT ![n] = r], users')
      <3> HIDE DEF C, N
      <3> QED BY ONLY <1>3, <1>9, <1>11, u \in Users, <2>1, Snapshotting
    <2> QED BY <1>0, <2>2
  <1>13. /\ TwoLists(cached', uncached') /\ Range(uncached') = N \cup {n}
         /\ Alive' = Alive \cup {n}
    <2>1. /\ uncached \in Seq(Objects) /\ IsInjective(uncached) /\ n \notin N
      BY <1>1, <1>3 DEF TwoLists
    <2>2. /\ AtHead(n, uncached) \in Seq(Objects) /\ IsInjective(AtHead(n, uncached))
          /\ Range(AtHead(n, uncached)) = N \cup {n}
      BY <1>3, <2>1, PrependFacts
    <2> QED BY <1>0, <1>1, <1>3, <2>2 DEF TwoLists, Alive
  <1>14. /\ h \in [Objects -> Object] /\ objs' \in [Objects -> Object]
         /\ objs'[n] = r /\ \A p \in Objects : p # n => objs'[p] = h[p]
    BY <1>0, <1>3, <1>8, <1>12 DEF Base, Typed
  <1>15. SameWalk(walk', walk) /\ (walk.user = u => walk'.user = Tomb /\ walk'.doomed)
    <2>1. walk \in Walk /\ SameWalk(walk, walk)
      BY <1>1, ClientFacts DEF Walks, Walker
    <2>2. CASE walk.user = u
      <3>1. walk.kind # "none"
        BY <2>2, ClientFacts, LlCacheAssumption DEF Idle
      <3>2. walk' = [walk EXCEPT !.user = Tomb, !.doomed = TRUE]
        BY <1>0, <2>2
      <3> QED BY <2>1, <3>1, <3>2 DEF SameWalk, Walk
    <2>3. CASE walk.user # u
      BY <1>0, <2>1, <2>3
    <2> QED BY <2>2, <2>3
  <1>16. walk.kind # "none" => /\ walk.obj \in Alive /\ walk.obj \in Objects
                               /\ walk.obj # n
                               /\ walk.user \in Range(objs[walk.obj].users)
                               /\ (walk.user = u => walk.obj = o)
    BY <1>1, <1>2, <1>3, ClientFacts
  <1>17. \A p \in Alive : Continues(objs'[p], objs[p]) /\ (objs'[p].stream <=> objs[p].stream)
    <2>1. Continues(h[o], objs[o]) /\ (h[o].stream <=> objs[o].stream)
      <3>1. UsersApart(h[o], objs[o])
        BY <1>8 DEF Left
      <3> QED BY <1>4, <3>1 DEF UsersApart, Object, Continues
    <2>2. \A p \in Alive : p # o => objs'[p] = objs[p]
      BY <1>1, <1>3, <1>8, <1>14 DEF Left
    <2> QED BY <1>1, <1>2, <1>3, <1>14, <2>1, <2>2
  <1>18. \A p \in Objects : \A y : y \in Range(objs'[p].users) =>
             \/ y \in Range(objs[p].users) /\ y # u
             \/ p = n /\ y = u
             \/ p = o /\ y \in x
    <2> SUFFICES ASSUME NEW p \in Objects, NEW y, y \in Range(objs'[p].users)
                 PROVE  \/ y \in Range(objs[p].users) /\ y # u
                        \/ p = n /\ y = u
                        \/ p = o /\ y \in x
      OBVIOUS
    <2>1. CASE p = n
      <3>1. Range(<<u>>) = {u}
        BY DEF Range
      <3> QED BY <1>9, <1>14, <2>1, <3>1
    <2>2. CASE p = o /\ p # n
      <3>1. Range(objs'[p].users) = (Range(objs[o].users) \ {u}) \cup x
        BY <1>8, <1>14, <2>2 DEF Left
      <3> QED BY <2>2, <3>1
    <2>3. CASE p # o /\ p # n
      <3>1. objs'[p] = objs[p]
        BY <1>8, <1>14, <2>3 DEF Left
      <3> QED BY <1>2, <2>3, <3>1
    <2> QED BY <2>1, <2>2, <2>3
  <1>19. walk.kind # "none" => walk'.user \in Range(objs'[walk.obj].users)
    <2> SUFFICES ASSUME walk.kind # "none"
                 PROVE  walk'.user \in Range(objs'[walk.obj].users)
      OBVIOUS
    <2>1. CASE walk.user = u
      <3>1. walk.obj = o /\ objs'[o] = h[o] /\ Tomb \in Range(h[o].users)
        BY <1>8, <1>14, <1>16, <2>1 DEF Left
      <3> QED BY <1>15, <2>1, <3>1
    <2>2. CASE walk.user # u
      <3>1. walk'.user = walk.user /\ objs'[walk.obj] = h[walk.obj]
        BY <1>0, <1>14, <1>16, <2>2
      <3>2. walk.user \in Range(h[walk.obj].users)
        BY <1>8, <1>16, <2>2 DEF Left
      <3> QED BY <3>1, <3>2
    <2> QED BY <2>1, <2>2
  <1>20. \A p \in Objects : Tomb \in Range(objs'[p].users) =>
                                walk'.user = Tomb /\ walk'.obj = p
    <2> SUFFICES ASSUME NEW p \in Objects, Tomb \in Range(objs'[p].users)
                 PROVE  walk'.user = Tomb /\ walk'.obj = p
      OBVIOUS
    <2>0. walk'.obj = walk.obj
      BY <1>15 DEF SameWalk
    <2>1. CASE Tomb \in Range(objs[p].users)
      <3>1. walk.user = Tomb /\ walk.obj = p
        BY <2>1, ClientFacts
      <3> QED BY <1>0, <1>10, <2>0, <3>1
    <2>2. CASE p = o /\ Tomb \in x
      <3>1. walk.user = u /\ walk.kind # "none"
        BY <2>2, ClientFacts, LlCacheAssumption DEF Idle
      <3> QED BY <1>15, <1>16, <2>0, <2>2, <3>1
    <2> QED BY <1>10, <1>18, <2>1, <2>2
  <1>21. walk.kind = "notify" /\ ~walk'.doomed => Heard(users'[walk.user], users[walk.user])
    <2>1. walk.kind = "notify" /\ ~walk.doomed => walk.user \in Users
      BY AtUser
    <2> QED BY <1>5, <1>15, <2>1 DEF SameWalk
  <1>22. walk.event = "redirect" => \A y \in Users : y \in Range(objs'[walk.obj].users) =>
                                                        users'[y].state < DATA
    <2> SUFFICES ASSUME walk.event = "redirect", NEW y \in Users,
                        y \in Range(objs'[walk.obj].users)
                 PROVE  users'[y].state < DATA
      OBVIOUS
    <2>1. /\ walk.kind # "none" /\ Redirected(objs, users, walk.obj, walk.to)
      BY ClientFacts DEF Idle
    <2>2. y # Tomb
      BY LlCacheAssumption
    <2>3. y \in Range(objs[walk.obj].users)
      BY <1>16, <1>18, <2>1, <2>2
    <2> QED BY <1>5, <2>1, <2>3 DEF Redirected, Heard
  <1>23. Walks(Alive \cup {n}, objs', users', walk')
    <2>1. /\ walk.kind # "none" => Continues(objs'[walk.obj], objs[walk.obj])
          /\ walk.kind = "send" => (objs'[walk.obj].stream <=> objs[walk.obj].stream)
          /\ walk.kind # "follow" /\ Alive \subseteq Alive \cup {n}
      BY <1>16, <1>17, ClientFacts
    <2>2. SameWalk(walk', walk)
      BY <1>15
    <2>3. objs' \in [Objects -> Object]
      BY <1>14
    <2> QED BY ONLY <1>1, <1>19, <1>20, <1>21, <1>22, <2>1, <2>2, <2>3, GoesOn
  <1>24. Range(cached') = C
    OBVIOUS
  <1> QED BY <1>12, <1>13, <1>23, <1>24 DEF IInv

LEMMA AbortStep ==
    ASSUME IInv, NEW u \in Users, Abort(u)
    PROVE  IInv'
  <1>1. /\ MayCall /\ Held(u) /\ users' = [users EXCEPT ![u].asked = FALSE]
        /\ UNCHANGED cached
    BY DEF Abort
  <1>2. CASE Alone(u)
    BY <1>1, <1>2, AbortAloneStep DEF Abort
  <1>3. CASE ~Alone(u)
    BY <1>1, <1>3, AbortApartStep DEF Abort
  <1> QED BY <1>2, <1>3

-----------------------------------------------------------------------------
(* The invariants *)
LEMMA InitIInv == Init => IInv
  <1> SUFFICES ASSUME Init PROVE IInv
    OBVIOUS
  <1>1. /\ Range(<<>>) = {} /\ IsInjective(<<>>) /\ <<>> \in Seq(Objects)
        /\ <<>> \in Seq(Users \cup {Tomb})
    BY DEF Range, IsInjective
  <1>2. cached = <<>> /\ uncached = <<>> /\ walk = Idle
    BY DEF Init
  <1>3. TwoLists(cached, uncached)
    BY <1>1, <1>2 DEF TwoLists
  <1>4. NoObject \in Object /\ NoObject.users = <<>>
    <2>1. /\ INIT \in INIT..COMPLETE /\ 0 \in 0..FetchAttempts
          /\ 0 \in 0..(RedirectLimit + 1) /\ 0 \in 0..MaxLen
      BY LlCacheAssumption DEF INIT, COMPLETE
    <2> QED BY <1>1, <2>1 DEF NoObject, Object
  <1>5. \A o \in Objects : objs[o] = NoObject /\ objs[o].users = <<>>
    BY <1>4 DEF Init
  <1>6. objs \in [Objects -> Object] /\ users \in [Users -> User]
    BY <1>4, NoUserFacts DEF Init
  <1>7. Typed({}, {}, objs, users)
    BY <1>6, FS_EmptySet DEF Typed
  <1>8. Sounds({}, {}, objs) /\ Handed(objs) /\ Informed(objs, users)
    BY <1>1, <1>5 DEF Sounds, Handed, Informed
  <1>9. Relied({} \cup {}, objs)
    BY DEF Relied, RelyOn
  <1>10. Base(Range(cached), Range(uncached), objs, users)
    BY <1>1, <1>2, <1>7, <1>8, <1>9 DEF Base
  <1>11. NoTomb(objs)
    BY <1>1, <1>5 DEF NoTomb
  <1>12. Walks(Alive, objs, users, walk)
    BY <1>2, <1>11, IdleWalks
  <1> QED BY <1>3, <1>10, <1>12 DEF IInv

LEMMA NextIInv ==
    ASSUME FetchAttempts = 1, IInv, [Next]_vars
    PROVE  IInv'
  <1>1. ASSUME NEW u \in Users, NEW url \in Urls, NEW forced \in BOOLEAN,
               NEW stream \in BOOLEAN, Retrieve(u, url, forced, stream)
        PROVE  IInv'
    BY <1>1, RetrieveStep
  <1>2. ASSUME NEW u \in Users,
               Release(u) \/ Abort(u) \/ ForceStream(u) \/ InvalidateCache(u)
        PROVE  IInv'
    BY <1>2, ReleaseStep, AbortStep, ForceStreamStep, InvalidateCacheStep
  <1>3. ASSUME NEW u \in Users, NEW v \in Users, Clone(u, v) PROVE IInv'
    BY <1>3, CloneStep
  <1>4. ASSUME NEW o \in Objects,
               \/ FetchHeader(o) \/ FetchData(o) \/ FetchFinished(o) \/ FetchError(o)
               \/ FetchRefused(o) \/ FetchNotModified(o)
        PROVE  IInv'
    BY <1>4, FetchHeaderStep, FetchDataStep, FetchFinishedStep, FetchErrorStep,
       FetchRefusedStep, FetchNotModifiedStep
  <1>5. ASSUME NEW o \in Objects, FetchTimedOut(o) PROVE IInv'
    BY <1>5, FetchTimedOutStep
  <1>6. ASSUME NEW o \in Objects, NEW url \in Urls, FetchRedirect(o, url) PROVE IInv'
    BY <1>6, FetchRedirectStep
  <1>7. ASSUME NEW o \in Objects, Expire(o) PROVE IInv'
    BY <1>7, ExpireStep
  <1>8. ASSUME Cache PROVE IInv'
    <2>1. ASSUME NEW answer, Returned(answer) PROVE IInv'
      BY <2>1, ReturnedStep
    <2> QED BY <1>8, <2>1, CatchUpStep, SendNextStep, FollowStep, DoNotFollowStep,
               CleanStep DEF Cache
  <1>9. ASSUME UNCHANGED vars PROVE IInv'
    <2>1. UNCHANGED <<cached, uncached, objs, users, walk>>
      BY <1>9 DEF vars
    <2> QED BY <2>1 DEF IInv, Alive
  <1>10. ASSUME Client PROVE IInv'
    BY <1>1, <1>2, <1>3, <1>10 DEF Client
  <1>11. ASSUME System PROVE IInv'
    BY <1>4, <1>5, <1>6, <1>7, <1>8, <1>11 DEF System, Fetcher
  <1> QED BY <1>9, <1>10, <1>11 DEF Next

\* A list in which nothing is twice is as long as its set is large.
LEMMA LengthIsSize ==
    ASSUME NEW S, NEW q \in Seq(S), IsInjective(q)
    PROVE  IsFiniteSet(Range(q)) /\ Cardinality(Range(q)) = Len(q)
  <1>1. Len(q) \in Nat /\ DOMAIN q = 1..Len(q)
    OBVIOUS
  <1>2. q \in Bijection(1..Len(q), Range(q))
    <2>1. q \in [1..Len(q) -> Range(q)]
      BY <1>1 DEF Range
    <2>2. \A i, j \in 1..Len(q) : q[i] = q[j] => i = j
      BY <1>1 DEF IsInjective
    <2>3. \A x \in Range(q) : \E i \in 1..Len(q) : q[i] = x
      BY <1>1 DEF Range
    <2> QED BY <2>1, <2>2, <2>3 DEF Bijection, Injection, Surjection
  <1>3. ExistsBijection(1..Len(q), Range(q))
    BY <1>2 DEF ExistsBijection
  <1>4. IsFiniteSet(1..Len(q)) /\ Cardinality(1..Len(q)) = Len(q)
    BY <1>1, FS_Interval
  <1> QED BY <1>3, <1>4, FS_Bijection

LEMMA IInvLlCacheInv == IInv => LlCacheInv
  <1> SUFFICES ASSUME IInv PROVE LlCacheInv
    OBVIOUS
  <1> DEFINE C == Range(cached)
             N == Range(uncached)
  <1>1. /\ TwoLists(cached, uncached) /\ Typed(C, N, objs, users)
        /\ Sounds(C, N, objs) /\ Handed(objs) /\ Relied(Alive, objs)
        /\ Walker(Alive, objs, walk)
        /\ Alive = C \cup N /\ Alive \subseteq Objects
    BY DEF IInv, Base, Walks, Typed, Alive
  <1>2. Len(cached) + Len(uncached) = Cardinality(Alive)
    <2>1. /\ IsFiniteSet(C) /\ Cardinality(C) = Len(cached)
          /\ IsFiniteSet(N) /\ Cardinality(N) = Len(uncached)
      BY <1>1, LengthIsSize DEF TwoLists
    <2>2. C \cap N = {} /\ Len(cached) \in Nat /\ Len(uncached) \in Nat
      BY <1>1 DEF TwoLists
    <2>3. Cardinality(C \cup N) = Cardinality(C) + Cardinality(N) - Cardinality(C \cap N)
      BY <2>1, FS_Union
    <2>4. Cardinality(C \cap N) = 0
      BY <2>2, FS_EmptySet
    <2> HIDE DEF C, N
    <2> QED BY <1>1, <2>1, <2>2, <2>3, <2>4
  <1>3. ASSUME NEW o \in Objects
        PROVE  IF o \in Alive THEN ObjectType(objs[o]) ELSE objs[o] = NoObject
    BY <1>1 DEF Typed, Sounds, Sound, Object, ObjectType
  <1>4. ASSUME NEW o \in Alive
        PROVE  /\ objs[o].fetch <=> objs[o].state # COMPLETE
               /\ objs[o].stream /\ ~objs[o].lent => Len(objs[o].users) <= 1
    BY <1>1 DEF Sounds, Sound
  <1>5. ASSUME NEW u \in Users
        PROVE  /\ users[u].state \in INIT..COMPLETE /\ users[u].bytes \in 0..MaxLen
               /\ Cardinality({v \in Visits : v[2] = u}) <= 1
    <2>1. users[u] \in User
      BY <1>1 DEF Typed
    <2> DEFINE S == {v \in Visits : v[2] = u}
    <2>2. ASSUME NEW v \in S, NEW w \in S PROVE v = w
      <3>1. PICK o \in Alive : v = <<o, u>> /\ u \in Range(objs[o].users)
        BY DEF Visits, HasUser
      <3>2. PICK p \in Alive : w = <<p, u>> /\ u \in Range(objs[p].users)
        BY DEF Visits, HasUser
      <3> QED BY <1>1, <3>1, <3>2 DEF Handed
    <2> HIDE DEF S
    <2>3. Cardinality(S) <= 1
      <3>1. CASE S = {}
        BY <3>1, FS_EmptySet
      <3>2. CASE S # {}
        <4>1. PICK v : S = {v}
          BY <2>2, <3>2
        <4> QED BY <4>1, FS_Singleton
      <3> QED BY <3>1, <3>2
    <2> QED BY <2>1, <2>3 DEF User, S
  <1>6. walk.user # None => walk.obj \in Alive /\ HasUser(walk.obj, walk.user)
    BY <1>1 DEF Walker, Walk, Idle, HasUser
  <1>7. CandidatesLive
    BY <1>1 DEF CandidatesLive, Relied, RelyOn
  <1> QED BY <1>2, <1>3, <1>4, <1>5, <1>6, <1>7 DEF LlCacheInv, StreamAlone

\* What the handle's client was told, by its object
LEMMA ToldFacts ==
    ASSUME IInv, NEW u \in Users, NEW o \in Alive, u \in Range(objs[o].users)
    PROVE  Told(users[u], objs[o])
  BY DEF IInv, Base, Typed, Informed, Alive

LEMMA IInvWholeBody == IInv => WholeBody
  <1> SUFFICES ASSUME IInv, NEW u \in Users, Done(u)
               PROVE  /\ Whole(u, objs[ObjectOf(u)])
                      /\ objs[ObjectOf(u)].short => objs[ObjectOf(u)].lent
    BY DEF WholeBody
  <1>1. ObjectOf(u) \in Alive /\ u \in Range(objs[ObjectOf(u)].users)
    BY ObjectFacts DEF IInv, Done
  <1>2. Told(users[u], objs[ObjectOf(u)])
    BY <1>1, ToldFacts
  <1> QED BY <1>2 DEF Told, Whole, Done

LEMMA IInvNobodyAhead == IInv => NobodyAhead
  <1> SUFFICES ASSUME IInv, NEW v \in Visits, users[v[2]].state >= DATA
               PROVE  /\ objs[v[1]].state >= DATA
                      /\ \/ objs[v[1]].stream \/ objs[v[1]].lent
                         \/ users[v[2]].bytes <= objs[v[1]].len
    BY DEF NobodyAhead
  <1>1. v[1] \in Alive /\ v[2] \in Users /\ v[2] \in Range(objs[v[1]].users)
    BY DEF Visits, HasUser
  <1>2. Told(users[v[2]], objs[v[1]])
    BY <1>1, ToldFacts
  <1> QED BY <1>2 DEF Told

(* Whatever clients do in their callbacks (llcache_handle_abort, release,   *)
(* force_stream, retrieve) and whatever their fetchers send                *)
(* (llcache_fetch_callback), the lists, the handles, the candidates and    *)
(* the walk keep the invariant.  With a second attempt they do not: the    *)
(* retry of llcache_fetch_timeout takes an object back to INIT after its   *)
(* users were told of its data.                                            *)
THEOREM InductiveInvariant ==
    ASSUME FetchAttempts = 1
    PROVE  Spec => []IInv
  <1>1. IInv /\ [Next]_vars => IInv'
    BY NextIInv
  <1> QED BY <1>1, InitIInv, PTL DEF Spec

(* Objects are in one list, once, and a handle at one object, once; a walk *)
(* is at a user that is still there, whatever its client has done in its   *)
(* callback; the object that a fetch may find to be good is kept until     *)
(* then (llcache_clean frees what has no candidates); and data that are    *)
(* thrown away once told are told to one client.                           *)
THEOREM CacheIsSound ==
    ASSUME FetchAttempts = 1
    PROVE  Spec => []LlCacheInv
  BY InductiveInvariant, IInvLlCacheInv, PTL

(* A client that is told that its object is done has got all of it         *)
(* (llcache_object_notify_users), whatever other clients did: their aborts *)
(* take a snapshot or leave with the fetch.                                *)
THEOREM DoneIsWhole ==
    ASSUME FetchAttempts = 1
    PROVE  Spec => []WholeBody
  BY InductiveInvariant, IInvWholeBody, PTL

(* A client that was told the headers is never handed to a response whose  *)
(* headers are to come, by a redirect or by a candidate that is still      *)
(* good, nor left with less data than it was given.                        *)
THEOREM NobodyIsAhead ==
    ASSUME FetchAttempts = 1
    PROVE  Spec => []NobodyAhead
  BY InductiveInvariant, IInvNobodyAhead, PTL

-----------------------------------------------------------------------------
(* Nobody is forgotten.  A client of o who waits and was not told of all   *)
(* there is: the pass is at it, or it is still to come to it.              *)
Lacking(h, us, o, u) ==
    /\ u \in Range(h[o].users) /\ us[u].asked
    /\ EventFor(us[u], h[o], h[o].state) # "none"

ToCome(o, u) == walk.kind = "notify" /\ (walk.user = u \/ Before(Here, <<o, u>>))

\* Nothing came while its client was running: the state was seen.
SeenAsItIs == walk.kind = "notify" /\ ~walk.doomed /\ users[walk.user].asked =>
                  It.state = walk.seen

NoneIsPassed == walk.kind \in {"none", "notify"} =>
    \A o \in Objects, u \in Users : Lacking(objs, users, o, u) => ToCome(o, u)

Remembered == ~pending /\ ~cut => NoneIsPassed /\ SeenAsItIs

\* Who Lacks
LEMMA LackingFacts ==
    ASSUME IInv, NEW u \in Users
    PROVE  Lacks(u) => ObjectOf(u) \in Objects /\ Lacking(objs, users, ObjectOf(u), u)
  <1>1. Base(Range(cached), Range(uncached), objs, users)
    BY DEF IInv
  <1> QED BY <1>1, ObjectFacts DEF Lacks, Lacking

\* A pass is scheduled, or has been cut short, or others are being told.
LEMMA Excused ==
    ASSUME pending' \/ cut' \/ (walk'.kind # "none" /\ walk'.kind # "notify")
    PROVE  Remembered'
  BY DEF Remembered, NoneIsPassed, SeenAsItIs

\* The users of h, which are some of those of objs, in the same order
Fewer(h) == \A o \in Objects :
    /\ h[o].state = objs[o].state /\ h[o].len = objs[o].len
    /\ Range(h[o].users) \subseteq Range(objs[o].users)
    /\ KeepsOrder(objs[o].users, h[o].users, Range(h[o].users))

\* With less data there is not more to tell.
LEMMA LessToTell ==
    ASSUME NEW r, NEW b, NEW c, NEW seen, r.bytes \in Int, b.len \in Int, c.len \in Int,
           c.len <= b.len, EventFor(r, c, seen) # "none"
    PROVE  EventFor(r, b, seen) # "none"
  BY DEF EventFor

\* A call tells user u of o some of what it lacks, and the others nothing.
Tells(h, us, o, u, seen) ==
    /\ walk'.kind = "notify" /\ walk'.obj = o /\ walk'.user = u
    /\ walk'.seen = seen
    /\ users'[u].asked => us[u].asked
    /\ \A p \in Objects : /\ objs'[p].users = h[p].users
                          /\ objs'[p].state = h[p].state
    /\ \A p \in Objects, v \in Users :
          Lacking(objs', users', p, v) => v = u \/ Lacking(h, us, p, v)

LEMMA CalledFacts ==
    ASSUME NEW h, NEW us, h \in [Objects -> Object], us \in [Users -> User],
           NEW list, NEW o \in Objects, NEW u \in Users, NEW seen,
           EventFor(us[u], h[o], seen) # "none",
           Call(list, <<o, u>>, seen, us, h)
    PROVE  Tells(h, us, o, u, seen)
  <1> DEFINE b == h[o]
             r == us[u]
             event == EventFor(r, b, seen)
             kept == IF b.stream THEN 0 ELSE b.len
             told == CASE event = "headers" -> [r EXCEPT !.state = DATA]
                       [] event = "data" -> [r EXCEPT !.bytes = kept]
                       [] event = "done" -> [r EXCEPT !.state = COMPLETE]
             orig == IF event = "data" /\ ~b.stream THEN r.bytes ELSE 0
             v == <<o, u>>
  <1>1. v[1] = o /\ v[2] = u
    OBVIOUS
  <1>2. /\ walk' = [Idle EXCEPT !.kind = "notify", !.list = list, !.obj = o,
                                !.user = u, !.event = event, !.seen = seen,
                                !.orig = orig]
        /\ users' = [us EXCEPT ![u] = told]
        /\ objs' = IF event = "data" THEN [h EXCEPT ![o].len = kept] ELSE h
    BY <1>1 DEF Call
  <1>3. b \in Object /\ r \in User /\ b.len \in Nat /\ kept \in Nat /\ kept <= b.len
    <2>1. b.len \in Nat
      BY LlCacheAssumption DEF Object
    <2> QED BY <2>1
  <1>4. event \in {"headers", "data", "done"}
    BY DEF EventFor
  <1> HIDE DEF event, orig, kept
  <1>5. /\ walk'.kind = "notify" /\ walk'.obj = o /\ walk'.user = u /\ walk'.seen = seen
    BY <1>2 DEF Idle
  <1>6. told.asked => r.asked
    BY <1>3, <1>4 DEF User
  <1> HIDE DEF told
  <1>7. users'[u] = told /\ \A w \in Users : w # u => users'[w] = us[w]
    BY <1>2
  <1>8. /\ \A p \in Objects : p # o => objs'[p] = h[p]
        /\ objs'[o].users = b.users /\ objs'[o].state = b.state
        /\ objs'[o].len \in Nat /\ objs'[o].len <= b.len
    <2>1. CASE event = "data"
      <3>1. objs'[o] = [b EXCEPT !.len = kept] /\ \A p \in Objects : p # o => objs'[p] = h[p]
        BY <1>2, <2>1
      <3> QED BY <1>3, <3>1 DEF Object
    <2>2. CASE event # "data"
      BY <1>2, <1>3, <2>2
    <2> QED BY <2>1, <2>2
  <1>9. ASSUME NEW p \in Objects, NEW w \in Users, Lacking(objs', users', p, w), w # u
        PROVE  Lacking(h, us, p, w)
    <2>1. CASE p # o
      BY <1>7, <1>8, <1>9, <2>1 DEF Lacking
    <2>2. CASE p = o
      <3>1. /\ w \in Range(b.users) /\ us[w].asked
            /\ EventFor(us[w], objs'[o], b.state) # "none"
        BY <1>7, <1>8, <1>9, <2>2 DEF Lacking
      <3>2. us[w].bytes \in Int
        BY LlCacheAssumption DEF User
      <3>3. EventFor(us[w], b, b.state) # "none"
        <4> HIDE DEF b
        <4> QED BY <1>3, <1>8, <3>1, <3>2, LessToTell
      <3> QED BY <2>2, <3>1, <3>3 DEF Lacking
    <2> QED BY <2>1, <2>2
  <1> QED BY <1>5, <1>6, <1>7, <1>8, <1>9 DEF Tells

\* What is ahead of the walk is ahead of it in fewer users.
LEMMA FewerOrder ==
    ASSUME NEW h, Fewer(h), UNCHANGED <<cached, uncached>>,
           \A o \in Objects : objs'[o].users = h[o].users,
           NEW o \in Objects, NEW u, NEW p \in Objects, NEW v, Before(<<o, u>>, <<p, v>>),
           u \in Range(h[o].users), v \in Range(h[p].users)
    PROVE  Before(<<o, u>>, <<p, v>>)'
  <1>1. Place(o)' = Place(o) /\ Place(p)' = Place(p)
    BY DEF Place
  <1>2. o = p /\ IndexOf(objs[o].users, u) < IndexOf(objs[o].users, v) =>
           IndexOf(objs'[o].users, u) < IndexOf(objs'[o].users, v)
    <2> SUFFICES ASSUME o = p, IndexOf(objs[o].users, u) < IndexOf(objs[o].users, v)
                 PROVE  IndexOf(h[o].users, u) < IndexOf(h[o].users, v)
      OBVIOUS
    <2>1. KeepsOrder(objs[o].users, h[o].users, Range(h[o].users))
      BY DEF Fewer
    <2> QED BY <2>1 DEF KeepsOrder
  <1> QED BY <1>1, <1>2 DEF Before

\* If all who lack something are ahead, then they are ahead of the next visit.
LEMMA Onward ==
    ASSUME IInv, UNCHANGED <<cached, uncached>>,
           NEW h, NEW us, h \in [Objects -> Object], us \in [Users -> User], Fewer(h),
           NEW ahead \in SUBSET Visits,
           \A v \in ahead : v[2] \in Range(h[v[1]].users),
           \A o \in Objects, u \in Users : Lacking(h, us, o, u) => <<o, u>> \in ahead,
           Proceed(ahead, us, h)
    PROVE  NoneIsPassed' /\ SeenAsItIs'
  <1> DEFINE again == {v \in Due(us) : /\ Moved /\ v[1] \in Range(uncached)
                                       /\ v[2] \in Range(h[v[1]].users)}
             S == ahead \cap Due(us)
  <1>0. /\ TwoLists(cached, uncached)
        /\ Base(Range(cached), Range(uncached), objs, users)
        /\ Alive \subseteq Objects
    BY DEF IInv, Base, Typed, Alive
  <1>1. ASSUME NEW o \in Objects, NEW u \in Users, Lacking(h, us, o, u)
        PROVE  <<o, u>> \in S
    <2>1. <<o, u>> \in ahead /\ <<o, u>> \in Visits
      BY <1>1
    <2>2. h[o].state = objs[o].state /\ h[o].len = objs[o].len
      BY DEF Fewer
    <2>3. EventFor(us[u], objs[o], objs[o].state) # "none"
      BY <1>1, <2>2 DEF Lacking, EventFor
    <2> QED BY <2>1, <2>3 DEF Due
  <1>2. ASSUME NEW v \in Due(us), v[2] \in Range(h[v[1]].users), NEW list,
               Call(list, v, objs[v[1]].state, us, h),
               \A o \in Objects, u \in Users :
                  Lacking(h, us, o, u) => <<o, u>> = v \/ Before(v, <<o, u>>)
        PROVE  NoneIsPassed' /\ SeenAsItIs'
    <2>1. PICK o \in Alive, u \in Users : v = <<o, u>>
      BY DEF Due, Visits
    <2>2. /\ v[1] = o /\ v[2] = u /\ o \in Objects /\ u \in Range(h[o].users)
          /\ EventFor(us[u], objs[o], objs[o].state) # "none"
      BY <1>0, <1>2, <2>1 DEF Due
    <2>3. objs[o].state = h[o].state /\ objs[o].len = h[o].len
      BY <2>2 DEF Fewer
    <2>4. EventFor(us[u], h[o], h[o].state) # "none"
      BY <2>2, <2>3 DEF EventFor
    <2>5. Call(list, <<o, u>>, h[o].state, us, h)
      BY <1>2, <2>1, <2>2, <2>3
    <2>6. /\ walk'.kind = "notify" /\ walk'.obj = o /\ walk'.user = u
          /\ walk'.seen = h[o].state
          /\ \A p \in Objects : /\ objs'[p].users = h[p].users
                                /\ objs'[p].state = h[p].state
          /\ \A p \in Objects, w \in Users :
                Lacking(objs', users', p, w) => w = u \/ Lacking(h, us, p, w)
      <3>1. Tells(h, us, o, u, h[o].state)
        BY <2>2, <2>4, <2>5, CalledFacts
      <3> QED BY <3>1 DEF Tells
    <2>7. SeenAsItIs'
      BY <2>2, <2>6 DEF SeenAsItIs, It
    <2>8. ASSUME NEW p \in Objects, NEW w \in Users, Lacking(objs', users', p, w), w # u
          PROVE  Before(Here, <<p, w>>)'
      <3>1. Lacking(h, us, p, w)
        BY <2>6, <2>8
      <3>2. Before(<<o, u>>, <<p, w>>)
        BY <1>2, <2>1, <2>8, <3>1
      <3>3. w \in Range(h[p].users)
        BY <3>1 DEF Lacking
      <3>4. Before(<<o, u>>, <<p, w>>)'
        BY <2>2, <2>6, <3>2, <3>3, FewerOrder
      <3>5. Here' = <<o, u>>
        BY <2>6 DEF Here
      <3> QED BY <3>4, <3>5 DEF Before
    <2>9. NoneIsPassed'
      BY <2>6, <2>8 DEF NoneIsPassed, ToCome
    <2> QED BY <2>7, <2>9
  <1>3. CASE S # {}
    <2>1. PICK v : v = Earliest(S)
      OBVIOUS
    <2>2. v \in S /\ \A w \in S \ {v} : Before(v, w)
      BY <1>0, <1>3, <2>1, EarliestIsOne
    <2>3. Call(IF Moved \/ v[1] \in Range(cached) THEN "cached" ELSE "uncached",
               v, objs[v[1]].state, us, h)
      BY <1>3, <2>1 DEF Proceed
    <2>4. \A o \in Objects, u \in Users :
             Lacking(h, us, o, u) => <<o, u>> = v \/ Before(v, <<o, u>>)
      BY <1>1, <2>2
    <2> QED BY <1>2, <2>2, <2>3, <2>4
  <1>4. CASE S = {} /\ again # {}
    <2>1. PICK v : v = Earliest(again)
      OBVIOUS
    <2>2. v \in again
      <3>1. again \in SUBSET Visits
        BY DEF Due
      <3> QED BY <1>0, <1>4, <2>1, <3>1, EarliestIsOne
    <2>3. Call("uncached", v, objs[v[1]].state, us, h)
      BY <1>4, <2>1 DEF Proceed
    <2> QED BY <1>1, <1>2, <1>4, <2>2, <2>3
  <1>5. CASE S = {} /\ again = {}
    <2>1. walk' = Idle /\ users' = us /\ objs' = h
      BY <1>5 DEF Proceed
    <2>2. NoneIsPassed'
      BY <1>1, <1>5, <2>1 DEF NoneIsPassed
    <2> QED BY <2>1, <2>2 DEF SeenAsItIs, Idle
  <1> QED BY <1>3, <1>4, <1>5

LEMMA FewerAlready ==
    ASSUME TRUE
    PROVE  Fewer(objs)
  BY DEF Fewer, KeepsOrder

LEMMA CatchUpRemembers ==
    ASSUME IInv, CatchUp
    PROVE  Remembered'
  <1>1. Proceed(Visits, users, objs) /\ UNCHANGED <<cached, uncached>>
    BY DEF CatchUp
  <1>2. /\ objs \in [Objects -> Object] /\ users \in [Users -> User]
        /\ Sounds(Range(cached), Range(uncached), objs)
    BY DEF IInv, Base, Typed
  <1>3. \A v \in Visits : v[2] \in Range(objs[v[1]].users)
    BY DEF Visits, HasUser
  <1>4. ASSUME NEW o \in Objects, NEW u \in Users, Lacking(objs, users, o, u)
        PROVE  <<o, u>> \in Visits
    <2>1. u \in Range(objs[o].users)
      BY <1>4 DEF Lacking
    <2>2. o \in Alive
      <3>1. Range(<<>>) = {} /\ NoObject.users = <<>>
        BY DEF Range, NoObject
      <3> QED BY <1>2, <2>1, <3>1 DEF Sounds, Alive
    <2> QED BY <2>1, <2>2 DEF Visits, HasUser
  <1>5. NoneIsPassed' /\ SeenAsItIs'
    BY <1>1, <1>2, <1>3, <1>4, FewerAlready, Onward
  <1> QED BY <1>5 DEF Remembered

LEMMA ReturnedRemembers ==
    ASSUME IInv, Remembered, NEW answer \in Answers, Returned(answer)
    PROVE  Remembered'
  <1>0. /\ walk.kind = "notify" /\ UNCHANGED <<cached, uncached>>
        /\ answer \in {"ok", "need", "error"}
    BY LlCacheAssumption DEF Returned
  <1>1. CASE Leaves(answer) \/ (~walk.doomed /\ answer = "need")
    BY <1>1, Excused DEF Returned
  <1>2. CASE ~pending /\ ~cut /\ answer = "ok"
    <2>1. NoneIsPassed /\ SeenAsItIs /\ ~Leaves(answer)
      BY <1>2 DEF Remembered, Leaves
    <2>2. /\ objs \in [Objects -> Object] /\ users \in [Users -> User]
          /\ Base(Range(cached), Range(uncached), objs, users)
      BY DEF IInv, Base, Typed
    <2>3. /\ walk.obj \in Alive /\ walk.obj \in Objects
          /\ walk.user \in Range(objs[walk.obj].users)
          /\ \A o \in Objects : walk.user \in Range(objs[o].users) => o = walk.obj
          /\ ~walk.doomed => walk.user \in Users
      BY <1>0, AtUser
    <2>4. /\ Ahead(answer) \in SUBSET Visits
          /\ \A v \in Ahead(answer) : /\ v[2] \in Range(objs[v[1]].users)
                                      /\ v[1] \in Objects /\ v[2] # walk.user
      <3>1. \A v \in Ahead(answer) : v \in Visits /\ Before(Here, v)
        BY DEF Ahead
      <3>2. \A v \in Visits : v[2] \in Range(objs[v[1]].users) /\ v[1] \in Objects
        BY <2>2 DEF Visits, HasUser, Base, Typed, Alive
      <3> QED BY <1>0, <3>1, <3>2, AheadIsOthers
    <2>5. ASSUME NEW o \in Objects, NEW u \in Users, Lacking(objs, users, o, u),
                 u # walk.user
          PROVE  <<o, u>> \in Ahead(answer)
      <3>1. Before(Here, <<o, u>>)
        BY <1>0, <2>1, <2>5 DEF NoneIsPassed, ToCome
      <3>2. u \in Range(objs[o].users)
        BY <2>5 DEF Lacking
      <3>3. o \in Alive
        <4>1. Range(<<>>) = {} /\ NoObject.users = <<>>
          BY DEF Range, NoObject
        <4> QED BY <2>2, <3>2, <4>1 DEF Base, Sounds, Alive
      <3> QED BY <2>1, <3>1, <3>2, <3>3 DEF Ahead, Visits, HasUser
    <2>6. CASE walk.doomed
      <3> DEFINE h == RemoveUser(objs, walk.obj, walk.user)
      <3>1. Proceed(Ahead(answer), Dropped, h)
        BY <2>6 DEF Returned
      <3>2. /\ Base(Range(cached), Range(uncached), h, Dropped)
            /\ \A p \in Objects : UsersApart(h[p], objs[p])
            /\ \A p \in Objects : Range(h[p].users) = Range(objs[p].users) \ {walk.user}
            /\ \A u \in Users \ {walk.user} : Dropped[u] = users[u]
        BY <1>0, Dropping
      <3>3. \A p \in Objects : h[p].users = objs[p].users \/ h[p].users = Without(objs[p].users, walk.user)
        BY <2>2, <2>3 DEF RemoveUser
      <3> HIDE DEF h
      <3>4. /\ h \in [Objects -> Object] /\ Dropped \in [Users -> User]
            /\ \A p \in Objects : h[p].state = objs[p].state /\ h[p].len = objs[p].len
        <4>1. \A p \in Objects : objs[p] \in Object
          BY <2>2
        <4> QED BY <3>2, <4>1 DEF Base, Typed, Object, UsersApart
      <3>5. Fewer(h)
        <4> SUFFICES ASSUME NEW p \in Objects
                     PROVE  KeepsOrder(objs[p].users, h[p].users, Range(h[p].users))
          BY <3>2, <3>4 DEF Fewer
        <4>1. objs[p].users \in Seq(Users \cup {Tomb}) /\ IsInjective(objs[p].users)
          BY <2>2 DEF Object, Base, Handed
        <4>2. KeepsOrder(objs[p].users, Without(objs[p].users, walk.user),
                         Range(objs[p].users) \ {walk.user})
          BY <4>1, WithoutOrder
        <4> QED BY <3>2, <3>3, <4>2 DEF KeepsOrder
      <3>6. \A v \in Ahead(answer) : v[2] \in Range(h[v[1]].users)
        BY <2>4, <3>2
      <3>7. ASSUME NEW o \in Objects, NEW u \in Users, Lacking(h, Dropped, o, u)
            PROVE  <<o, u>> \in Ahead(answer)
        <4>1. u \in Range(objs[o].users) /\ u # walk.user /\ Dropped[u] = users[u]
          BY <3>2, <3>7 DEF Lacking
        <4>2. Lacking(objs, users, o, u)
          BY <3>4, <3>7, <4>1 DEF Lacking, EventFor
        <4> QED BY <2>5, <4>1, <4>2
      <3>8. NoneIsPassed' /\ SeenAsItIs'
        BY <1>0, <2>4, <3>1, <3>4, <3>5, <3>6, <3>7, Onward
      <3> QED BY <3>8 DEF Remembered
    <2>7. CASE ~walk.doomed /\ EventFor(users[walk.user], It, walk.seen) # "none"
      <3>1. Call(walk.list, <<walk.obj, walk.user>>, walk.seen, users, objs)
        BY <1>2, <2>7 DEF Returned, Here
      <3>2. EventFor(users[walk.user], objs[walk.obj], walk.seen) # "none"
        BY <2>7 DEF It
      <3>3. /\ walk'.kind = "notify" /\ walk'.obj = walk.obj /\ walk'.user = walk.user
            /\ walk'.seen = walk.seen
            /\ users'[walk.user].asked => users[walk.user].asked
            /\ \A p \in Objects : /\ objs'[p].users = objs[p].users
                                  /\ objs'[p].state = objs[p].state
            /\ \A p \in Objects, w \in Users :
                  Lacking(objs', users', p, w) => w = walk.user \/ Lacking(objs, users, p, w)
        <4>1. walk.user \in Users
          BY <2>3, <2>7
        <4>2. Tells(objs, users, walk.obj, walk.user, walk.seen)
          BY <2>2, <2>3, <3>1, <3>2, <4>1, CalledFacts
        <4> QED BY <4>2 DEF Tells
      <3>4. SeenAsItIs'
        BY <1>0, <2>1, <2>3, <2>7, <3>3 DEF SeenAsItIs, It
      <3>5. ASSUME NEW p \in Objects, NEW w \in Users, Lacking(objs', users', p, w),
                   w # walk.user
            PROVE  Before(Here, <<p, w>>)'
        <4>1. Before(<<walk.obj, walk.user>>, <<p, w>>) /\ w \in Range(objs[p].users)
          BY <1>0, <2>1, <3>3, <3>5 DEF NoneIsPassed, ToCome, Here, Lacking
        <4>2. Before(<<walk.obj, walk.user>>, <<p, w>>)'
          <5>1. PICK o, u : o \in Objects /\ o = walk.obj /\ u = walk.user
            BY <2>3
          <5>2. Before(<<o, u>>, <<p, w>>)'
            BY <1>0, <2>3, <3>3, <4>1, <5>1, FewerAlready, FewerOrder
          <5> QED BY <3>3, <5>1, <5>2 DEF Before
        <4> QED BY <4>2 DEF Here
      <3>6. NoneIsPassed'
        BY <3>3, <3>5 DEF NoneIsPassed, ToCome
      <3> QED BY <3>4, <3>6 DEF Remembered
    <2>8. CASE ~walk.doomed /\ EventFor(users[walk.user], It, walk.seen) = "none"
      <3>1. Proceed(Ahead(answer), users, objs)
        BY <1>2, <2>8 DEF Returned
      <3>2. ASSUME NEW o \in Objects, NEW u \in Users, Lacking(objs, users, o, u)
            PROVE  <<o, u>> \in Ahead(answer)
        <4>1. u # walk.user
          <5> SUFFICES ASSUME u = walk.user PROVE FALSE
            OBVIOUS
          <5>1. o = walk.obj /\ users[u].asked
            BY <2>3, <3>2 DEF Lacking
          <5>2. objs[o].state = walk.seen
            BY <1>0, <2>1, <2>8, <5>1 DEF SeenAsItIs, It
          <5> QED BY <2>8, <3>2, <5>1, <5>2 DEF Lacking, It
        <4> QED BY <2>5, <3>2, <4>1
      <3>3. \A v \in Ahead(answer) : v[2] \in Range(objs[v[1]].users)
        BY <2>4
      <3>4. NoneIsPassed' /\ SeenAsItIs'
        BY <1>0, <2>2, <2>4, <3>1, <3>2, <3>3, FewerAlready, Onward
      <3> QED BY <3>4 DEF Remembered
    <2> QED BY <2>6, <2>7, <2>8
  <1>3. CASE pending \/ cut
    BY <1>3, Excused DEF Returned
  <1>4. answer # "ok" => Leaves(answer) \/ (~walk.doomed /\ answer = "need")
    BY <1>0 DEF Leaves
  <1> QED BY <1>1, <1>2, <1>3, <1>4

\* Clients move nothing that the pass has not come to behind it.
InOrder(q, w) == KeepsOrder(q, w, Range(q) \cap Range(w))

LEMMA StaysAhead ==
    ASSUME NEW o, NEW p, NEW u, NEW v, Before(<<o, u>>, <<p, v>>),
           Place(o) < Place(p) => (Place(o) < Place(p))',
           InOrder(objs[o].users, objs'[o].users),
           o = p => /\ {u, v} \subseteq Range(objs[o].users)
                    /\ {u, v} \subseteq Range(objs'[o].users)
    PROVE  Before(<<o, u>>, <<p, v>>)'
  BY DEF Before, InOrder, KeepsOrder

LEMMA StillToCome ==
    ASSUME IInv, UNCHANGED <<cached, uncached>>,
           walk'.kind = walk.kind, walk'.obj = walk.obj, walk'.user = walk.user,
           walk.kind = "notify",
           \A p \in Objects : InOrder(objs[p].users, objs'[p].users),
           walk.user \in Range(objs'[walk.obj].users),
           NEW o \in Objects, NEW u \in Users, ToCome(o, u),
           u \in Range(objs[o].users), u \in Range(objs'[o].users)
    PROVE  ToCome(o, u)'
  <1>1. walk.obj \in Objects /\ walk.user \in Range(objs[walk.obj].users)
    BY AtUser
  <1>2. CASE walk.user = u
    BY <1>2 DEF ToCome
  <1>3. CASE Before(<<walk.obj, walk.user>>, <<o, u>>)
    <2>1. PICK p, x : p = walk.obj /\ x = walk.user
      OBVIOUS
    <2>2. Place(p)' = Place(p) /\ Place(o)' = Place(o)
      BY DEF Place
    <2>3. InOrder(objs[p].users, objs'[p].users)
      BY <1>1, <2>1
    <2>4. Before(<<p, x>>, <<o, u>>)'
      BY <1>1, <1>3, <2>1, <2>2, <2>3, StaysAhead
    <2> QED BY <2>1, <2>4 DEF ToCome, Here, Before
  <1> QED BY <1>2, <1>3 DEF ToCome, Here

\* Nobody is forgotten in a step that leaves the walk where it is.
LEMMA RemembersHere ==
    ASSUME Remembered, pending => pending', cut => cut',
           walk'.kind = walk.kind, walk'.obj = walk.obj, walk'.seen = walk.seen,
           walk.doomed => walk'.doomed,
           \A o \in Objects, u \in Users : Lacking(objs', users', o, u) =>
               /\ Lacking(objs, users, o, u)
               /\ walk.kind = "notify" /\ ~cut' /\ ToCome(o, u) => ToCome(o, u)',
           (walk.kind = "notify" /\ ~walk'.doomed /\ users'[walk'.user].asked) =>
               /\ users[walk.user].asked
               /\ objs'[walk.obj].state = objs[walk.obj].state
    PROVE  Remembered'
  <1> SUFFICES ASSUME ~pending', ~cut' PROVE NoneIsPassed' /\ SeenAsItIs'
    BY DEF Remembered
  <1>1. NoneIsPassed /\ SeenAsItIs
    BY DEF Remembered
  <1>2. NoneIsPassed'
    BY <1>1 DEF NoneIsPassed, ToCome
  <1>3. SeenAsItIs'
    BY <1>1 DEF SeenAsItIs, It
  <1> QED BY <1>2, <1>3

LEMMA InOrderAlready ==
    ASSUME NEW q
    PROVE  InOrder(q, q)
  BY DEF InOrder, KeepsOrder

\* The objects change in nothing that clients lack.
LEMMA Unmoved ==
    ASSUME IInv, Remembered, UNCHANGED <<cached, uncached, users, walk, pending, cut>>,
           \A p \in Objects : /\ objs'[p].users = objs[p].users
                              /\ objs'[p].state = objs[p].state
                              /\ objs'[p].len = objs[p].len
    PROVE  Remembered'
  <1>1. \A p \in Objects : InOrder(objs[p].users, objs'[p].users)
    BY InOrderAlready
  <1>2. walk.kind = "notify" => /\ walk.obj \in Objects
                                /\ walk.user \in Range(objs[walk.obj].users)
    BY AtUser
  <1>3. ASSUME NEW o \in Objects, NEW u \in Users, Lacking(objs', users', o, u)
        PROVE  Lacking(objs, users, o, u)
    BY <1>3 DEF Lacking, EventFor
  <1>4. ASSUME NEW o \in Objects, NEW u \in Users, Lacking(objs', users', o, u),
               walk.kind = "notify", ToCome(o, u)
        PROVE  ToCome(o, u)'
    <2>1. u \in Range(objs[o].users) /\ u \in Range(objs'[o].users)
      BY <1>4 DEF Lacking
    <2> QED BY <1>1, <1>2, <1>4, <2>1, StillToCome
  <1> QED BY <1>2, <1>3, <1>4, RemembersHere

LEMMA InvalidateCacheRemembers ==
    ASSUME IInv, Remembered, NEW u \in Users, InvalidateCache(u)
    PROVE  Remembered'
  <1>0. /\ MayCall /\ Listed(u)
        /\ objs' = [objs EXCEPT ![ObjectOf(u)].cache = "stale"]
        /\ UNCHANGED <<cached, uncached, users, walk, pending, cut>>
    BY DEF InvalidateCache, Held
  <1>1. objs \in [Objects -> Object] /\ ObjectOf(u) \in Objects
    BY <1>0, ObjectFacts, ClientFacts
  <1>2. \A p \in Objects : /\ objs'[p].users = objs[p].users
                           /\ objs'[p].state = objs[p].state
                           /\ objs'[p].len = objs[p].len
    <2>1. \A p \in Objects : objs'[p] = IF p = ObjectOf(u) THEN [objs[p] EXCEPT !.cache = "stale"] ELSE objs[p]
      BY <1>0, <1>1
    <2> QED BY <1>1, <2>1 DEF Object
  <1> QED BY <1>0, <1>2, Unmoved

LEMMA ExpireRemembers ==
    ASSUME IInv, Remembered, NEW o \in Objects, Expire(o)
    PROVE  Remembered'
  <1>0. /\ objs' = [objs EXCEPT ![o] = [objs[o] EXCEPT !.cache = "stale"]]
        /\ UNCHANGED <<cached, uncached, users, walk, pending, cut>>
    BY DEF Expire, Became, Lists
  <1>1. objs \in [Objects -> Object]
    BY DEF IInv, Base, Typed
  <1>2. \A p \in Objects : /\ objs'[p].users = objs[p].users
                           /\ objs'[p].state = objs[p].state
                           /\ objs'[p].len = objs[p].len
    <2>1. \A p \in Objects : objs'[p] = IF p = o THEN [objs[p] EXCEPT !.cache = "stale"]
                                        ELSE objs[p]
      BY <1>0, <1>1
    <2> QED BY <1>1, <2>1 DEF Object
  <1> QED BY <1>0, <1>2, Unmoved

LEMMA CleanRemembers ==
    ASSUME IInv, Remembered, Clean
    PROVE  Remembered'
  <1>0. walk.kind = "none" /\ UNCHANGED <<users, pending, walk, cut>>
    BY DEF Clean
  <1>1. PICK X : objs' = [o \in Objects |-> IF o \in X THEN NoObject ELSE objs[o]]
    BY DEF Clean
  <1>2. ASSUME NEW o \in Objects, NEW u \in Users, Lacking(objs', users', o, u)
        PROVE  Lacking(objs, users, o, u)
    <2>1. objs'[o] = IF o \in X THEN NoObject ELSE objs[o]
      BY <1>1
    <2>2. Range(<<>>) = {} /\ NoObject.users = <<>>
      BY DEF Range, NoObject
    <2> QED BY <1>0, <1>2, <2>1, <2>2 DEF Lacking
  <1> QED BY <1>0, <1>2, RemembersHere

\* A user, but not the walk's, leaves its object.
LEMMA ReleaseRemembers ==
    ASSUME IInv, Remembered, NEW u \in Users, Release(u)
    PROVE  Remembered'
  <1>0. MayCall /\ Held(u) /\ Listed(u) /\ UNCHANGED <<cached, uncached, pending, cut>>
    BY DEF Release, Held
  <1>1. /\ Base(Range(cached), Range(uncached), objs, users)
        /\ objs \in [Objects -> Object] /\ users \in [Users -> User]
        /\ walk \in Walk /\ ObjectOf(u) \in Objects
        /\ walk.kind = "notify" => /\ walk.obj \in Objects
                                   /\ walk.user \in Range(objs[walk.obj].users)
    BY <1>0, ClientFacts, ObjectFacts, AtUser DEF Walks, Walker
  <1>2. CASE walk.user = u
    <2>1. /\ walk' = [walk EXCEPT !.doomed = TRUE] /\ objs' = objs
          /\ users' = [users EXCEPT ![u].asked = FALSE]
      BY <1>2 DEF Release
    <2>2. /\ walk'.kind = walk.kind /\ walk'.obj = walk.obj /\ walk'.seen = walk.seen
          /\ walk'.user = walk.user /\ walk'.doomed
      BY <1>1, <2>1 DEF Walk
    <2>3. ~users'[u].asked /\ \A x \in Users : x # u => users'[x] = users[x]
      BY <1>1, <2>1 DEF User
    <2>4. ASSUME NEW o \in Objects, NEW x \in Users, Lacking(objs', users', o, x)
          PROVE  /\ Lacking(objs, users, o, x)
                 /\ walk.kind = "notify" /\ ToCome(o, x) => ToCome(o, x)'
      <3>1. x # u /\ Lacking(objs, users, o, x) /\ x \in Range(objs[o].users)
        BY <2>1, <2>3, <2>4 DEF Lacking
      <3>2. \A p \in Objects : InOrder(objs[p].users, objs'[p].users)
        BY <2>1, InOrderAlready
      <3> QED BY <1>0, <1>1, <2>1, <2>2, <3>1, <3>2, StillToCome
    <2> QED BY <1>0, <2>2, <2>4, RemembersHere
  <1>3. CASE walk.user # u
    <2>1. /\ objs' = RemoveUser(objs, ObjectOf(u), u) /\ walk' = walk
          /\ users' = [users EXCEPT ![u] = NoUser]
      BY <1>3 DEF Release
    <2>2. ~users'[u].asked /\ \A x \in Users : x # u => users'[x] = users[x]
      BY <1>1, <2>1, NoUserFacts
    <2>3. \A p \in Objects : /\ objs'[p].state = objs[p].state
                             /\ objs'[p].len = objs[p].len
                             /\ objs'[p].users = IF p = ObjectOf(u) THEN Without(objs[p].users, u)
                                                 ELSE objs[p].users
      <3>1. \A p \in Objects : objs'[p] = IF p = ObjectOf(u)
                                          THEN [objs[p] EXCEPT !.users = Without(@, u)]
                                          ELSE objs[p]
        BY <1>1, <2>1 DEF RemoveUser
      <3> QED BY <1>1, <3>1 DEF Object
    <2>4. \A p \in Objects : /\ InOrder(objs[p].users, objs'[p].users)
                             /\ \A x : x # u /\ x \in Range(objs[p].users) =>
                                          x \in Range(objs'[p].users)
                             /\ Range(objs'[p].users) \subseteq Range(objs[p].users)
      <3> TAKE p \in Objects
      <3>1. CASE p = ObjectOf(u)
        <4>1. objs[p].users \in Seq(Users \cup {Tomb}) /\ IsInjective(objs[p].users)
          BY <1>1 DEF Object, Base, Handed
        <4>2. /\ KeepsOrder(objs[p].users, Without(objs[p].users, u), Range(objs[p].users) \ {u})
              /\ Range(Without(objs[p].users, u)) = Range(objs[p].users) \ {u}
          BY <4>1, WithoutOrder, WithoutFacts
        <4> QED BY <2>3, <3>1, <4>2 DEF InOrder, KeepsOrder
      <3>2. CASE p # ObjectOf(u)
        BY <2>3, <3>2, InOrderAlready
      <3> QED BY <3>1, <3>2
    <2>5. ASSUME NEW o \in Objects, NEW x \in Users, Lacking(objs', users', o, x)
          PROVE  /\ Lacking(objs, users, o, x)
                 /\ walk.kind = "notify" /\ ToCome(o, x) => ToCome(o, x)'
      <3>1. x # u /\ x \in Range(objs[o].users) /\ x \in Range(objs'[o].users)
        BY <2>2, <2>4, <2>5 DEF Lacking
      <3>2. Lacking(objs, users, o, x)
        BY <2>2, <2>3, <2>5, <3>1 DEF Lacking, EventFor
      <3>3. walk.kind = "notify" => walk.user \in Range(objs'[walk.obj].users)
        BY <1>1, <1>3, <2>4
      <3> QED BY <1>0, <1>1, <2>1, <2>4, <3>1, <3>2, <3>3, StillToCome
    <2>6. (walk.kind = "notify" /\ ~walk'.doomed /\ users'[walk'.user].asked) =>
               /\ users[walk.user].asked
               /\ objs'[walk.obj].state = objs[walk.obj].state
      <3>1. walk.kind = "notify" /\ ~walk.doomed => walk.user \in Users
        BY AtUser
      <3> QED BY <1>1, <1>3, <2>1, <2>2, <2>3, <3>1
    <2> QED BY <1>0, <2>1, <2>5, <2>6, RemembersHere
  <1> QED BY <1>2, <1>3

LEMMA AbortAloneRemembers ==
    ASSUME IInv, Remembered, NEW u \in Users, MayCall, Held(u), Alone(u),
           AbortAlone(u, ObjectOf(u)), users' = [users EXCEPT ![u].asked = FALSE],
           UNCHANGED <<cached, pending, cut>>
    PROVE  Remembered'
  <1> DEFINE b == objs[ObjectOf(u)]
             k == Stopped(b)
  <1>0. /\ objs' = [objs EXCEPT ![ObjectOf(u)] = IF b.fetch THEN [k EXCEPT !.short = TRUE]
                                                 ELSE Invalidated(b)]
        /\ b.users = <<u>> /\ UNCHANGED <<uncached, walk>> /\ Listed(u)
    BY DEF AbortAlone, Alone, Held
  <1>1. /\ objs \in [Objects -> Object] /\ users \in [Users -> User]
        /\ ObjectOf(u) \in Objects /\ b \in Object /\ Range(b.users) = {u}
        /\ walk.kind = "notify" => /\ walk.obj \in Objects
                                   /\ walk.user \in Range(objs[walk.obj].users)
    <2>1. Range(<<u>>) = {u}
      BY DEF Range
    <2> QED BY <1>0, <2>1, ClientFacts, ObjectFacts, AtUser
  <1>2. ~users'[u].asked /\ \A x \in Users : x # u => users'[x] = users[x]
    BY <1>1 DEF User
  <1>3. /\ objs'[ObjectOf(u)].users = b.users
        /\ \A p \in Objects : p # ObjectOf(u) => objs'[p] = objs[p]
    <2>1. /\ [k EXCEPT !.short = TRUE].users = b.users /\ Invalidated(b).users = b.users
      BY <1>1 DEF Stopped, Ended, Invalidated, Object
    <2> QED BY <1>0, <1>1, <2>1
  <1>4. \A p \in Objects : objs'[p].users = objs[p].users
    BY <1>3
  <1>5. ASSUME NEW o \in Objects, NEW x \in Users, Lacking(objs', users', o, x)
        PROVE  /\ Lacking(objs, users, o, x)
               /\ walk.kind = "notify" /\ ToCome(o, x) => ToCome(o, x)'
    <2>1. x # u /\ x \in Range(objs[o].users) /\ x \in Range(objs'[o].users)
      BY <1>2, <1>4, <1>5 DEF Lacking
    <2>2. o # ObjectOf(u)
      BY <1>1, <2>1
    <2>3. Lacking(objs, users, o, x)
      BY <1>2, <1>3, <1>5, <2>1, <2>2 DEF Lacking
    <2>4. \A p \in Objects : InOrder(objs[p].users, objs'[p].users)
      BY <1>4, InOrderAlready
    <2> QED BY <1>0, <1>1, <1>4, <2>1, <2>3, <2>4, StillToCome
  <1>6. (walk.kind = "notify" /\ ~walk'.doomed /\ users'[walk'.user].asked) =>
               /\ users[walk.user].asked
               /\ objs'[walk.obj].state = objs[walk.obj].state
    <2>1. walk.kind = "notify" /\ ~walk.doomed => walk.user \in Users
      BY AtUser
    <2> HIDE DEF b
    <2> QED BY <1>0, <1>1, <1>2, <1>3, <2>1 DEF b
  <1> QED BY <1>0, <1>5, <1>6, RemembersHere

LEMMA CloneRemembers ==
    ASSUME IInv, Remembered, NEW u \in Users, NEW v \in Users, Clone(u, v)
    PROVE  Remembered'
  <1>0. /\ MayCall /\ Listed(u) /\ ~Listed(v)
        /\ objs' = AddUser(objs, ObjectOf(u), v)
        /\ users' = [users EXCEPT ![v] = [NoUser EXCEPT !.state = users[u].state]]
        /\ UNCHANGED <<cached, uncached, pending, walk, cut>>
    BY DEF Clone, Held
  <1>1. /\ Base(Range(cached), Range(uncached), objs, users)
        /\ objs \in [Objects -> Object] /\ users \in [Users -> User]
        /\ ObjectOf(u) \in Objects
        /\ \A p \in Objects : v \notin Range(objs[p].users)
        /\ walk.kind = "notify" => /\ walk.obj \in Objects
                                   /\ walk.user \in Range(objs[walk.obj].users)
    BY <1>0, ClientFacts, ObjectFacts, AtUser
  <1>2. ~users'[v].asked /\ \A x \in Users : x # v => users'[x] = users[x]
    BY <1>0, <1>1 DEF NoUser
  <1>3. \A p \in Objects : /\ objs'[p].state = objs[p].state
                           /\ objs'[p].len = objs[p].len
                           /\ objs'[p].users = IF p = ObjectOf(u) THEN AtHead(v, objs[p].users)
                                               ELSE objs[p].users
    <2>1. \A p \in Objects : objs'[p] = IF p = ObjectOf(u)
                                        THEN [objs[p] EXCEPT !.users = AtHead(v, @)]
                                        ELSE objs[p]
      BY <1>0, <1>1 DEF AddUser
    <2> QED BY <1>1, <2>1 DEF Object
  <1>4. \A p \in Objects : /\ InOrder(objs[p].users, objs'[p].users)
                           /\ Range(objs[p].users) \subseteq Range(objs'[p].users)
                           /\ \A x : x # v /\ x \in Range(objs'[p].users) =>
                                        x \in Range(objs[p].users)
    <2> TAKE p \in Objects
    <2>1. CASE p = ObjectOf(u)
      <3>1. objs[p].users \in Seq(Users \cup {Tomb}) /\ IsInjective(objs[p].users)
        BY <1>1 DEF Object, Base, Handed
      <3>2. /\ KeepsOrder(objs[p].users, AtHead(v, objs[p].users), Range(objs[p].users))
            /\ Range(AtHead(v, objs[p].users)) = Range(objs[p].users) \cup {v}
        <4>1. v \in Users \cup {Tomb} /\ v \notin Range(objs[p].users)
          BY <1>1
        <4> QED BY <3>1, <4>1, PrependOrder, PrependFacts
      <3> QED BY <1>3, <2>1, <3>2 DEF InOrder, KeepsOrder
    <2>2. CASE p # ObjectOf(u)
      BY <1>3, <2>2, InOrderAlready
    <2> QED BY <2>1, <2>2
  <1>5. ASSUME NEW o \in Objects, NEW x \in Users, Lacking(objs', users', o, x)
        PROVE  /\ Lacking(objs, users, o, x)
               /\ walk.kind = "notify" /\ ToCome(o, x) => ToCome(o, x)'
    <2>1. x # v /\ x \in Range(objs[o].users) /\ x \in Range(objs'[o].users)
      BY <1>2, <1>4, <1>5 DEF Lacking
    <2>2. Lacking(objs, users, o, x)
      BY <1>2, <1>3, <1>5, <2>1 DEF Lacking, EventFor
    <2>3. walk.kind = "notify" => walk.user \in Range(objs'[walk.obj].users)
      BY <1>1, <1>4
    <2> QED BY <1>0, <1>1, <1>4, <2>1, <2>2, <2>3, StillToCome
  <1>6. (walk.kind = "notify" /\ ~walk'.doomed /\ users'[walk'.user].asked) =>
               /\ users[walk.user].asked
               /\ objs'[walk.obj].state = objs[walk.obj].state
    <2>1. walk.kind = "notify" /\ ~walk.doomed => walk.user \in Users
      BY AtUser
    <2> QED BY <1>0, <1>1, <1>2, <1>3, <2>1
  <1> QED BY <1>0, <1>5, <1>6, RemembersHere

\* The walk's object moves behind all the others that are kept, and before
\* those that are not; the pass is not cut only if it was the last one kept.
LEMMA ForceStreamRemembers ==
    ASSUME IInv, Remembered, NEW u \in Users, ForceStream(u)
    PROVE  Remembered'
  <1>a. PICK o : o = walk.obj
    OBVIOUS
  <1>0. /\ walk.kind = "notify" /\ walk.user = u /\ Alone(u) /\ Listed(u)
        /\ objs' = [objs EXCEPT ![o].stream = TRUE]
        /\ UNCHANGED <<users, pending, walk>>
    BY <1>a DEF ForceStream, Held
  <1>1. /\ TwoLists(cached, uncached)
        /\ Base(Range(cached), Range(uncached), objs, users)
        /\ objs \in [Objects -> Object] /\ o \in Alive /\ o \in Objects
        /\ u \in Range(objs[o].users)
    <2>1. TwoLists(cached, uncached) /\ Base(Range(cached), Range(uncached), objs, users)
      BY DEF IInv
    <2> QED BY <1>a, <1>0, <2>1, AtUser DEF Base, Typed
  <1>2. objs[o].users = <<u>> /\ Range(objs[o].users) = {u}
    <2>1. ObjectOf(u) = o
      BY <1>0, <1>1, ObjectFacts
    <2>2. Range(<<u>>) = {u}
      BY DEF Range
    <2> QED BY <1>0, <2>1, <2>2 DEF Alone
  <1>3. \A p \in Objects : /\ objs'[p].users = objs[p].users
                           /\ objs'[p].state = objs[p].state
                           /\ objs'[p].len = objs[p].len
    <2>1. \A p \in Objects : objs'[p] = IF p = o THEN [objs[p] EXCEPT !.stream = TRUE]
                                        ELSE objs[p]
      BY <1>0, <1>1
    <2> QED BY <1>1, <2>1 DEF Object
  <1>4. CASE o \in Range(cached)
    <2>1. /\ cached' = Without(cached, o) /\ uncached' = AtHead(o, uncached)
          /\ cut' = (cut \/ After(cached, o) # None)
      BY <1>a, <1>4 DEF ForceStream
    <2>2. /\ cached \in Seq(Objects) /\ IsInjective(cached)
          /\ uncached \in Seq(Objects) /\ IsInjective(uncached)
          /\ o \notin Range(uncached)
      BY <1>1, <1>4 DEF TwoLists
    <2>3. Range(cached') = Range(cached) \ {o}
      BY <2>1, <2>2, WithoutFacts
    <2>4. /\ IndexOf(uncached', o) = 1
          /\ \A p \in Range(uncached) : IndexOf(uncached', p) = IndexOf(uncached, p) + 1
      BY <1>1, <2>1, <2>2, PrependOrder
    <2>5. /\ \A p \in Range(uncached) : IndexOf(uncached, p) \in 1..Len(uncached)
          /\ \A p \in Range(cached) : /\ IndexOf(cached, p) \in 1..Len(cached)
                                      /\ cached[IndexOf(cached, p)] = p
          /\ Len(cached) \in Nat /\ Len(cached') \in Nat
      <3>1. cached' \in Seq(Objects)
        BY <2>1, <2>2, WithoutFacts
      <3> QED BY <2>2, <3>1, IndexFacts
    <2>6. ASSUME ~cut', NEW p \in Alive, Place(o) < Place(p)
          PROVE  (Place(o) < Place(p))'
      <3>1. IndexOf(cached, o) = Len(cached)
        <4>1. After(cached, o) = None
          BY <2>1, <2>6
        <4>2. IndexOf(cached, o) < Len(cached) => cached[IndexOf(cached, o) + 1] \in Objects
          BY <1>4, <2>2, <2>5
        <4>3. ~(IndexOf(cached, o) < Len(cached))
          BY <4>1, <4>2, LlCacheAssumption DEF After
        <4> QED BY <1>4, <2>5, <4>3
      <3>2. Place(o) = Len(cached)
        BY <1>4, <3>1 DEF Place
      <3>3. p \notin Range(cached) /\ p \in Range(uncached) /\ p # o
        BY <1>4, <2>5, <2>6, <3>2 DEF Place, Alive
      <3>4. Place(o)' = Len(cached') + 1 /\ Place(p)' = Len(cached') + (IndexOf(uncached, p) + 1)
        BY <2>3, <2>4, <3>3 DEF Place
      <3> QED BY <2>5, <3>3, <3>4
    <2>7. ASSUME NEW p \in Objects, NEW x \in Users, Lacking(objs', users', p, x)
          PROVE  /\ Lacking(objs, users, p, x)
                 /\ walk.kind = "notify" /\ ~cut' /\ ToCome(p, x) => ToCome(p, x)'
      <3>1. Lacking(objs, users, p, x) /\ x \in Range(objs[p].users)
        BY <1>0, <1>3, <2>7 DEF Lacking, EventFor
      <3>2. ASSUME ~cut', ToCome(p, x), x # u PROVE ToCome(p, x)'
        <4>1. Before(<<o, u>>, <<p, x>>)
          BY <1>a, <1>0, <3>2 DEF ToCome, Here
        <4>2. p # o /\ p \in Alive
          <5>1. Range(<<>>) = {} /\ NoObject.users = <<>>
            BY DEF Range, NoObject
          <5> QED BY <1>1, <1>2, <3>1, <3>2, <5>1 DEF Base, Sounds, Alive
        <4>3. InOrder(objs[o].users, objs'[o].users)
          BY <1>1, <1>3, InOrderAlready
        <4>4. Before(<<o, u>>, <<p, x>>)'
          BY <2>6, <3>2, <4>1, <4>2, <4>3, StaysAhead
        <4> QED BY <1>a, <1>0, <4>4 DEF ToCome, Here, Before
      <3>3. x = u => ToCome(p, x)'
        BY <1>0 DEF ToCome
      <3> QED BY <3>1, <3>2, <3>3
    <2> QED BY <1>a, <1>0, <1>1, <1>3, <2>1, <2>7, RemembersHere
  <1>5. CASE o \notin Range(cached)
    <2>1. UNCHANGED <<cached, uncached, users, walk, pending, cut>>
      BY <1>a, <1>0, <1>5 DEF ForceStream
    <2> QED BY <1>3, <2>1, Unmoved
  <1> QED BY <1>4, <1>5

\* A snapshot comes before all the objects that are not kept; the record of
\* the handle that leaves for it is in the handle's place.
LEMMA AbortApartRemembers ==
    ASSUME IInv, Remembered, NEW u \in Users, MayCall, Held(u),
           AbortApart(u, ObjectOf(u)), users' = [users EXCEPT ![u].asked = FALSE],
           UNCHANGED <<cached, pending, cut>>
    PROVE  Remembered'
  <1> DEFINE o == ObjectOf(u)
             q == objs[o].users
             z == [i \in DOMAIN q |-> IF q[i] = u THEN Tomb ELSE q[i]]
             g == [objs EXCEPT ![o].users =
                            [i \in DOMAIN @ |-> IF @[i] = u THEN Tomb ELSE @[i]]]
             h == IF walk.user = u THEN g ELSE RemoveUser(objs, o, u)
             r == [Snapshot(objs[o]) EXCEPT !.users = <<u>>]
  <1>0. PICK n \in NewObjects :
           /\ objs' = [h EXCEPT ![n] = r]
           /\ walk' = IF walk.user = u
                      THEN [walk EXCEPT !.user = Tomb, !.doomed = TRUE] ELSE walk
           /\ uncached' = AtHead(n, uncached)
    BY DEF AbortApart
  <1>1. /\ TwoLists(cached, uncached)
        /\ Base(Range(cached), Range(uncached), objs, users)
        /\ Alive \subseteq Objects /\ walk \in Walk
        /\ objs \in [Objects -> Object] /\ users \in [Users -> User]
        /\ \A p \in Objects : Tomb \in Range(objs[p].users) => walk.user = Tomb
    BY ClientFacts DEF Walks, Walker
  <1>2. /\ o \in Alive /\ o \in Objects /\ u \in Range(q)
        /\ \A p \in Objects : u \in Range(objs[p].users) => p = o
        /\ n \in Objects /\ n \notin Alive /\ u # Tomb
        /\ q \in Seq(Users \cup {Tomb}) /\ IsInjective(q) /\ objs[o] \in Object
    <2>1. /\ o \in Alive /\ o \in Objects /\ u \in Range(q)
          /\ \A p \in Objects : u \in Range(objs[p].users) => p = o
      BY <1>1, ObjectFacts DEF Held
    <2> QED BY <1>0, <1>1, <2>1, LlCacheAssumption DEF NewObjects, Base, Handed, Object
  <1>3. walk.kind = "notify" => /\ walk.obj \in Alive /\ walk.obj \in Objects
                                /\ walk.user \in Range(objs[walk.obj].users)
    BY AtUser
  <1>4. ~users'[u].asked /\ \A x \in Users : x # u => users'[x] = users[x]
    BY <1>1 DEF User
  <1>5. \A p \in Objects : p # n =>
           /\ objs'[p].state = objs[p].state /\ objs'[p].len = objs[p].len
           /\ objs'[p].users = IF p # o THEN objs[p].users
                               ELSE IF walk.user = u THEN z ELSE Without(q, u)
    <2> SUFFICES ASSUME NEW p \in Objects, p # n
                 PROVE  /\ objs'[p].state = objs[p].state /\ objs'[p].len = objs[p].len
                        /\ objs'[p].users = IF p # o THEN objs[p].users
                                            ELSE IF walk.user = u THEN z
                                            ELSE Without(q, u)
      BY Zenon
    <2>1. DOMAIN h = Objects
      BY <1>1 DEF RemoveUser
    <2>2. objs'[p] = h[p]
      <3> HIDE DEF h, r
      <3> QED BY <1>0, <1>2, <2>1
    <2>3. CASE p # o
      <3>1. h[p] = objs[p]
        BY <1>1, <2>3 DEF RemoveUser
      <3> QED BY <2>2, <2>3, <3>1
    <2>4. CASE p = o /\ walk.user = u
      <3>1. h[p] = [objs[o] EXCEPT !.users = z]
        BY <1>1, <1>2, <2>4
      <3> HIDE DEF z, h
      <3> QED BY <1>2, <2>2, <2>4, <3>1 DEF Object
    <2>5. CASE p = o /\ walk.user # u
      <3>1. h[p] = [objs[o] EXCEPT !.users = Without(q, u)]
        BY <1>1, <1>2, <2>5 DEF RemoveUser
      <3> HIDE DEF h
      <3> QED BY <1>2, <2>2, <2>5, <3>1 DEF Object
    <2> QED BY <2>3, <2>4, <2>5
  <1>6. objs'[n].users = <<u>>
    <2>1. DOMAIN h = Objects
      BY <1>1 DEF RemoveUser
    <2>2. r.users = <<u>>
      BY DEF Snapshot, NoObject
    <2> HIDE DEF h, r
    <2> QED BY <1>0, <1>2, <2>1, <2>2
  <1> HIDE DEF h, g, r
  <1>7. walk.user # u => \A p \in Objects : p # n =>
           /\ InOrder(objs[p].users, objs'[p].users)
           /\ \A x : x # u => (x \in Range(objs'[p].users) <=> x \in Range(objs[p].users))
    <2> SUFFICES ASSUME walk.user # u, NEW p \in Objects, p # n
                 PROVE  /\ InOrder(objs[p].users, objs'[p].users)
                        /\ \A x : x # u => (x \in Range(objs'[p].users) <=>
                                              x \in Range(objs[p].users))
      BY Zenon
    <2>1. CASE p = o
      <3>1. /\ KeepsOrder(q, Without(q, u), Range(q) \ {u})
            /\ Range(Without(q, u)) = Range(q) \ {u}
        BY <1>2, WithoutOrder, WithoutFacts
      <3> QED BY <1>5, <2>1, <3>1 DEF InOrder, KeepsOrder
    <2>2. CASE p # o
      BY <1>5, <2>2, InOrderAlready
    <2> QED BY <2>1, <2>2
  <1>8. walk.user = u =>
           /\ IndexOf(z, Tomb) = IndexOf(q, u)
           /\ \A x \in Range(q) \ {u} : IndexOf(z, x) = IndexOf(q, x)
           /\ Range(z) = (Range(q) \ {u}) \cup {Tomb}
    <2> SUFFICES ASSUME walk.user = u
                 PROVE  /\ IndexOf(z, Tomb) = IndexOf(q, u)
                        /\ \A x \in Range(q) \ {u} : IndexOf(z, x) = IndexOf(q, x)
                        /\ Range(z) = (Range(q) \ {u}) \cup {Tomb}
      BY Zenon
    <2>1. Tomb \notin Range(q)
      BY <1>1, <1>2
    <2>2. InPlaceOf(Tomb, u, z, q)
      BY <1>2, <2>1, ExchangeOrder
    <2> QED BY <2>2 DEF InPlaceOf
  <1> HIDE DEF z
  <1>9. \A p, s \in Alive : Place(p) < Place(s) => (Place(p) < Place(s))'
    <2>1. /\ cached \in Seq(Objects) /\ IsInjective(cached)
          /\ uncached \in Seq(Objects) /\ IsInjective(uncached)
          /\ n \notin Range(uncached) /\ Range(cached') = Range(cached)
      BY <1>1, <1>2 DEF TwoLists, Alive
    <2>2. \A p \in Range(uncached) : IndexOf(uncached', p) = IndexOf(uncached, p) + 1
      BY <1>0, <1>2, <2>1, PrependOrder
    <2>3. /\ \A p \in Range(uncached) : IndexOf(uncached, p) \in 1..Len(uncached)
          /\ \A p \in Range(cached) : IndexOf(cached, p) \in 1..Len(cached)
          /\ Len(cached) \in Nat /\ Len(uncached) \in Nat
      BY <2>1, IndexFacts
    <2>4. ASSUME NEW p \in Alive
          PROVE  \/ p \in Range(cached) /\ Place(p)' = Place(p) /\ Place(p) \in 1..Len(cached)
                 \/ /\ p \notin Range(cached) /\ Place(p)' = Place(p) + 1
                    /\ Place(p) \in Int /\ Place(p) > Len(cached)
      <3>1. CASE p \in Range(cached)
        BY <2>1, <2>3, <3>1 DEF Place
      <3>2. CASE p \notin Range(cached)
        <4>1. p \in Range(uncached)
          BY <3>2 DEF Alive
        <4>2. /\ Place(p) = Len(cached) + IndexOf(uncached, p)
              /\ Place(p)' = Len(cached) + (IndexOf(uncached, p) + 1)
          BY <2>1, <2>2, <3>2, <4>1 DEF Place
        <4> QED BY <2>3, <3>2, <4>1, <4>2
      <3> QED BY <3>1, <3>2
    <2> QED BY <2>3, <2>4
  <1>10. /\ walk'.kind = walk.kind /\ walk'.obj = walk.obj /\ walk'.seen = walk.seen
         /\ walk.doomed => walk'.doomed
         /\ walk.user = u => walk'.user = Tomb /\ walk'.doomed
         /\ walk.user # u => walk' = walk
    BY <1>0, <1>1 DEF Walk
  <1>11. ASSUME NEW p \in Objects, NEW x \in Users, Lacking(objs', users', p, x)
         PROVE  /\ x # u /\ p # n /\ p \in Alive
                /\ x \in Range(objs[p].users) /\ x \in Range(objs'[p].users)
                /\ Lacking(objs, users, p, x)
    <2>1. x # u /\ x \in Range(objs'[p].users)
      BY <1>4, <1>11 DEF Lacking
    <2>2. p # n
      <3>1. Range(<<u>>) = {u}
        BY DEF Range
      <3> QED BY <1>6, <2>1, <3>1
    <2>3. x # Tomb
      BY LlCacheAssumption
    <2>4. x \in Range(objs[p].users)
      BY <1>5, <1>7, <1>8, <2>1, <2>2, <2>3
    <2>5. p \in Alive
      <3>1. Range(<<>>) = {} /\ NoObject.users = <<>>
        BY DEF Range, NoObject
      <3> QED BY <1>1, <2>4, <3>1 DEF Base, Sounds, Alive
    <2>6. Lacking(objs, users, p, x)
      BY <1>4, <1>5, <1>11, <2>1, <2>2, <2>4 DEF Lacking, EventFor
    <2> QED BY <2>1, <2>2, <2>4, <2>5, <2>6
  <1>12. ASSUME NEW p \in Objects, NEW x \in Users, Lacking(objs', users', p, x),
                walk.kind = "notify", ToCome(p, x)
         PROVE  ToCome(p, x)'
    <2>0. /\ x # u /\ p # n /\ p \in Alive
          /\ x \in Range(objs[p].users) /\ x \in Range(objs'[p].users)
      BY <1>11, <1>12
    <2>1. CASE x = walk.user
      BY <1>10, <1>12, <2>0, <2>1 DEF ToCome
    <2>2. CASE Before(<<walk.obj, walk.user>>, <<p, x>>)
      <3>1. PICK m, y : m = walk.obj /\ y = walk.user
        OBVIOUS
      <3>2. /\ m \in Alive /\ m \in Objects /\ m # n /\ y \in Range(objs[m].users)
            /\ Place(m) < Place(p) => (Place(m) < Place(p))'
        BY <1>2, <1>3, <1>9, <1>12, <2>0, <3>1
      <3>3. CASE y # u
        <4>1. InOrder(objs[m].users, objs'[m].users) /\ y \in Range(objs'[m].users)
          BY <1>7, <3>1, <3>2, <3>3
        <4>2. Before(<<m, y>>, <<p, x>>)'
          BY <2>0, <2>2, <3>1, <3>2, <4>1, StaysAhead
        <4> QED BY <1>10, <1>12, <3>1, <3>3, <4>2 DEF ToCome, Here, Before
      <3>4. CASE y = u
        <4>1. m = o
          BY <1>2, <3>2, <3>4
        <4>2. m = p /\ IndexOf(q, u) < IndexOf(q, x) =>
                 IndexOf(objs'[m].users, Tomb) < IndexOf(objs'[m].users, x)
          BY <1>5, <1>8, <2>0, <3>1, <3>2, <3>4, <4>1
        <4>3. Before(<<m, Tomb>>, <<p, x>>)'
          BY <2>2, <3>1, <3>2, <3>4, <4>1, <4>2 DEF Before
        <4> QED BY <1>10, <1>12, <3>1, <3>4, <4>3 DEF ToCome, Here, Before
      <3> QED BY <3>3, <3>4
    <2> QED BY <1>12, <2>1, <2>2 DEF ToCome, Here
  <1>13. (walk.kind = "notify" /\ ~walk'.doomed /\ users'[walk'.user].asked) =>
               /\ users[walk.user].asked
               /\ objs'[walk.obj].state = objs[walk.obj].state
    <2>1. walk.kind = "notify" /\ ~walk.doomed => walk.user \in Users
      BY AtUser
    <2> QED BY <1>2, <1>3, <1>4, <1>5, <1>10, <2>1
  <1> QED BY <1>10, <1>11, <1>12, <1>13, RemembersHere

LEMMA SendExcuses ==
    ASSUME NEW event, NEW o, NEW u, NEW to, SendAt(event, o, u, to)
    PROVE  Remembered'
  <1>1. CASE walk' = Idle
    BY <1>1, Excused DEF SendAt
  <1>2. CASE walk' # Idle
    <2>1. walk'.kind = "send" \/ walk'.kind = "follow"
      BY <1>2 DEF SendAt, Idle
    <2> QED BY <2>1, Excused
  <1> QED BY <1>1, <1>2

LEMMA FetcherRemembers ==
    ASSUME NEW o \in Objects, Fetcher(o)
    PROVE  Remembered'
  <1>1. ASSUME Quietly PROVE Remembered'
    BY <1>1, Excused DEF Quietly
  <1>2. ASSUME Fails(o) PROVE Remembered'
    BY <1>2, SendExcuses DEF Fails, Send
  <1>3. ASSUME NEW url \in Urls, FetchRedirect(o, url) PROVE Remembered'
    BY <1>2, <1>3, SendExcuses DEF FetchRedirect, Send
  <1>4. FetchHeader(o) \/ FetchData(o) \/ FetchFinished(o) \/ FetchNotModified(o) => Quietly
    BY DEF FetchHeader, FetchData, FetchFinished, FetchNotModified
  <1>5. FetchError(o) \/ FetchTimedOut(o) \/ FetchRefused(o) => Quietly \/ Fails(o)
    BY DEF FetchError, FetchTimedOut, FetchRefused
  <1> QED BY <1>1, <1>2, <1>3, <1>4, <1>5 DEF Fetcher

LEMMA InitRemembers == Init => Remembered
  <1> SUFFICES ASSUME Init PROVE Remembered
    OBVIOUS
  <1>1. \A o \in Objects : objs[o].users = <<>>
    BY DEF Init, NoObject
  <1>2. Range(<<>>) = {} /\ walk.kind = "none"
    BY DEF Range, Init, Idle
  <1> QED BY <1>1, <1>2 DEF Remembered, NoneIsPassed, SeenAsItIs, Lacking

LEMMA NextRemembers ==
    ASSUME IInv, Remembered, [Next]_vars
    PROVE  Remembered'
  <1>1. ASSUME NEW u \in Users, NEW url \in Urls, NEW forced \in BOOLEAN,
               NEW stream \in BOOLEAN, Retrieve(u, url, forced, stream)
        PROVE  Remembered'
    BY <1>1, Excused DEF Retrieve
  <1>2. ASSUME NEW u \in Users, Abort(u) PROVE Remembered'
    BY <1>2, AbortAloneRemembers, AbortApartRemembers DEF Abort
  <1>3. ASSUME Client PROVE Remembered'
    BY <1>1, <1>2, <1>3, ReleaseRemembers, ForceStreamRemembers,
       InvalidateCacheRemembers, CloneRemembers DEF Client
  <1>4. ASSUME SendNext PROVE Remembered'
    BY <1>4, SendExcuses DEF SendNext
  <1>5. ASSUME Follow \/ DoNotFollow PROVE Remembered'
    BY <1>5, Excused DEF Follow, DoNotFollow
  <1>6. ASSUME Cache PROVE Remembered'
    BY <1>4, <1>5, <1>6, CatchUpRemembers, CleanRemembers, ReturnedRemembers DEF Cache
  <1>7. ASSUME System PROVE Remembered'
    BY <1>6, <1>7, FetcherRemembers, ExpireRemembers DEF System
  <1>8. ASSUME UNCHANGED vars PROVE Remembered'
    BY <1>8, Unmoved DEF vars
  <1> QED BY <1>3, <1>7, <1>8 DEF Next

LEMMA IInvNobodyForgotten == IInv /\ Remembered => NobodyForgotten
  <1> SUFFICES ASSUME IInv, Remembered, walk.kind = "none", ~pending, ~cut,
                      NEW u \in Users, Lacks(u)
               PROVE  FALSE
    BY DEF NobodyForgotten
  <1>1. ObjectOf(u) \in Objects /\ Lacking(objs, users, ObjectOf(u), u)
    BY LackingFacts
  <1> QED BY <1>1 DEF Remembered, NoneIsPassed, ToCome

(* When the cache is at rest, with no pass scheduled and none cut short,   *)
(* every client that waits for an object was told all there is to tell of  *)
(* it (llcache_catch_up_all_users), whatever clients did in the callbacks  *)
(* of the passes: who joined, left or moved its object to the other list.  *)
THEOREM NobodyIsForgotten ==
    ASSUME FetchAttempts = 1
    PROVE  Spec => []NobodyForgotten
  <1>1. Init => IInv /\ Remembered
    BY InitIInv, InitRemembers
  <1>2. IInv /\ Remembered /\ [Next]_vars => IInv' /\ Remembered'
    BY NextIInv, NextRemembers
  <1> QED BY <1>1, <1>2, IInvNobodyForgotten, PTL DEF Spec

=============================================================================
