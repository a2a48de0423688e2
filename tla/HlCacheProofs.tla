--------------------------- MODULE HlCacheProofs ----------------------------
(***************************************************************************)
(* Theorems about HlCache for any number of handles, contents and objects, *)
(* and every set of URLs, types and requests.  The invariants of HlCache   *)
(* are consequences of Good, below, which is inductive; that the users are *)
(* told what ContentUser promises is proved step by step from it.          *)
(***************************************************************************)
EXTENDS HlCache, FiniteSetTheorems, SequenceTheorems, TLAPS

USE HlCacheAssumption

(* What a user may have been told, one by one (ContentUser, Beginnings). *)
Parts == {<<>>, <<"LOADING">>, <<"LOADING", "READY">>, <<"LOADING", "READY", "DONE">>,
          <<"LOADING", "ERROR">>, <<"ERROR">>, <<"DOWNLOAD">>}

Loaded == {"LOADING", "READY", "DONE"}

Handle == [at : {"free", "ctx", "bare", "content"}, obj : Objects \cup {None},
           content : Contents \cup {None}, quirks : Quirks \cup {None},
           welcome : BOOLEAN, told : Parts, aborted : BOOLEAN]

Content == [status : {"NONE", "ERROR"} \cup Loaded, type : {"image", "sheet", "page", "none"},
            obj : Objects \cup {None}, source : BOOLEAN, users : SUBSET Handles,
            quirks : Quirks \cup {None}, lost : BOOLEAN]

Object == [state : {"none", "going", "complete", "failed"}, url : Urls \cup {None},
           usable : BOOLEAN, cut : BOOLEAN]

(* The inductive invariant, of the arguments of Becomes, in parts. *)
Typed(H, C, O) == /\ H \in [Handles -> Handle]
                  /\ C \in [Contents -> Content]
                  /\ O \in [Objects -> Object]

\* The two sides of a handle agree.
Paired(H, C) ==
    \A h \in Handles :
      /\ H[h].at = "content" => H[h].content \in Contents
      /\ \A c \in Contents : h \in C[c].users <=> H[h].at = "content" /\ H[h].content = c

\* What is held is there, and whole for a context.
Held(H, C, O) ==
    /\ \A h \in Handles : H[h].at = "ctx" =>
         H[h].obj \in Objects /\ O[H[h].obj].state # "none" /\ ~O[H[h].obj].cut
    /\ \A c \in Contents : C[c].status # "NONE" =>
         /\ C[c].obj \in Objects /\ O[C[c].obj].state # "none"
         /\ C[c].type = TypeOf[O[C[c].obj].url] /\ C[c].type # "none"
    /\ \A c \in Contents : C[c].users # {} => C[c].status \in Loaded

\* What was cut short is given to nobody else.
CutAlone(O) ==
    \A o \in Objects : /\ O[o].state = "none" => O[o] = NoObject
                       /\ O[o].state # "none" => O[o].url \in Urls
                       /\ O[o].cut => ~O[o].usable

Whole(H, C, O) ==
    \A h \in Handles :
      H[h].at = "content" /\ ~H[h].aborted => ~O[C[H[h].content].obj].cut

\* A user has been told how far its content has come.
Told(H, C) ==
    \A h \in Handles :
      /\ H[h].at \in {"ctx", "bare"} => H[h].told = <<>>
      /\ H[h].at = "content" => H[h].told = CaughtUp(C[H[h].content].status)

\* No two contents of E do the same work.
Once(C, E) ==
    \A c, d \in E :
      (/\ c # d /\ C[c].status \in Loaded /\ C[d].status \in Loaded /\ C[c].obj = C[d].obj)
      => C[c].type = "page" \/ (C[c].type = "sheet" /\ C[c].quirks # C[d].quirks)

Linked(H, C, O) == /\ Typed(H, C, O) /\ Paired(H, C) /\ Held(H, C, O)
                   /\ CutAlone(O) /\ Whole(H, C, O) /\ Told(H, C)

Good(H, C, O) == Linked(H, C, O) /\ Once(C, Contents)

IInv == Good(handles, contents, objects)

-----------------------------------------------------------------------------
(* Sequences of two and three *)
LEMMA AppendOne ==
    ASSUME NEW S, NEW a \in S, NEW b \in S
    PROVE  <<a>> \o <<b>> = <<a, b>>
  <1> DEFINE s == <<a>> \o <<b>>
               t == <<a, b>>
  <1>1. s \in Seq(S) /\ t \in Seq(S)
    OBVIOUS
  <1>2. Len(s) = 2 /\ Len(t) = 2
    OBVIOUS
  <1>3. s[1] = a /\ s[2] = b
    OBVIOUS
  <1>4. \A i \in 1..Len(s) : s[i] = t[i]
    BY <1>2, <1>3
  <1> QED BY <1>1, <1>2, <1>4, SeqEqual

LEMMA AppendTwo ==
    ASSUME NEW S, NEW a \in S, NEW b \in S, NEW c \in S
    PROVE  /\ <<a>> \o <<b, c>> = <<a, b, c>>
           /\ <<a, b>> \o <<c>> = <<a, b, c>>
  <1> DEFINE s == <<a>> \o <<b, c>>
               r == <<a, b>> \o <<c>>
               t == <<a, b, c>>
  <1>1. s \in Seq(S) /\ r \in Seq(S) /\ t \in Seq(S)
    OBVIOUS
  <1>2. Len(s) = 3 /\ Len(r) = 3 /\ Len(t) = 3
    OBVIOUS
  <1>3. s[1] = a /\ s[2] = b /\ s[3] = c
    OBVIOUS
  <1>4. r[1] = a /\ r[2] = b /\ r[3] = c
    OBVIOUS
  <1>5. \A i \in 1..3 : s[i] = t[i] /\ r[i] = t[i]
    BY <1>3, <1>4
  <1> QED BY <1>1, <1>2, <1>5, SeqEqual

(* Tell, for what contents say *)
Messages == {<<>>, <<"READY">>, <<"DONE">>, <<"READY", "DONE">>, <<"LOADING">>,
             <<"LOADING", "READY">>, <<"LOADING", "READY", "DONE">>}

\* The handle r once its user was told t in all, and one that was given up then
Knows(r, t) == [r EXCEPT !.told = t]
Gone(t) == [NoHandle EXCEPT !.told = t]

LEMMA TellMore ==
    ASSUME NEW H \in [Handles -> Handle], NEW U \in SUBSET Handles, NEW m \in Messages
    PROVE  /\ \A h \in Handles : h \notin U => Tell(H, U, m)[h] = H[h]
           /\ \A h \in U : Tell(H, U, m)[h] = Knows(H[h], H[h].told \o m)
  <1>1. "ERROR" \notin {m[i] : i \in DOMAIN m}
    BY DEF Messages
  <1> QED BY <1>1 DEF Tell, Knows

LEMMA TellOne ==
    ASSUME NEW H \in [Handles -> Handle], NEW h \in Handles, NEW m \in Messages
    PROVE  /\ \A g \in Handles : g # h => Tell(H, {h}, m)[g] = H[g]
           /\ Tell(H, {h}, m)[h] = Knows(H[h], H[h].told \o m)
  <1>1. "ERROR" \notin {m[i] : i \in DOMAIN m}
    BY DEF Messages
  <1> QED BY <1>1 DEF Tell, Knows

LEMMA TellError ==
    ASSUME NEW H \in [Handles -> Handle], NEW U \in SUBSET Handles
    PROVE  /\ \A h \in Handles : h \notin U => Tell(H, U, <<"ERROR">>)[h] = H[h]
           /\ \A h \in U : Tell(H, U, <<"ERROR">>)[h] = Gone(H[h].told \o <<"ERROR">>)
  <1>1. "ERROR" \in {<<"ERROR">>[i] : i \in DOMAIN <<"ERROR">>}
    OBVIOUS
  <1>2. ASSUME NEW h \in U, NEW m
        PROVE  [H[h] EXCEPT !.told = @ \o m].told = H[h].told \o m
    BY DEF Handle
  <1> QED BY <1>1, <1>2 DEF Tell, Gone

LEMMA HandleKnows ==
    ASSUME NEW r \in Handle, NEW t \in Parts
    PROVE  /\ Knows(r, t) \in Handle /\ Knows(r, t).told = t
           /\ Knows(r, t).at = r.at /\ Knows(r, t).content = r.content
           /\ Knows(r, t).obj = r.obj /\ Knows(r, t).aborted = r.aborted
  BY DEF Handle, Knows

LEMMA HandleJoins ==
    ASSUME NEW c \in Contents, NEW t \in Parts
    PROVE  LET r == Knows([NoHandle EXCEPT !.at = "content", !.content = c], t)
           IN r \in Handle /\ r.at = "content" /\ r.content = c /\ ~r.aborted /\ r.told = t
  BY DEF Handle, NoHandle, Knows, Parts

LEMMA HandleAborted ==
    ASSUME NEW r \in Handle, NEW c \in Contents
    PROVE  LET a == [r EXCEPT !.aborted = TRUE, !.content = c]
           IN /\ a \in Handle /\ a.aborted
              /\ a.at = r.at /\ a.obj = r.obj /\ a.content = c /\ a.told = r.told
  <1> DEFINE a == [r EXCEPT !.aborted = TRUE, !.content = c]
  <1>1. a \in Handle
    BY DEF Handle
  <1>2. a.aborted
    BY Zenon DEF Handle
  <1>3. a.at = r.at /\ a.obj = r.obj /\ a.content = c /\ a.told = r.told
    BY DEF Handle
  <1> QED BY <1>1, <1>2, <1>3

LEMMA HandleGone ==
    ASSUME NEW t \in Parts
    PROVE  Gone(t) \in Handle /\ Gone(t).at = "free" /\ Gone(t).told = t
  BY DEF Handle, NoHandle, Gone, Parts

-----------------------------------------------------------------------------
(* llcache_clean takes nothing that is held. *)
LEMMA SweptLinked ==
    ASSUME NEW H, NEW C, NEW O, Linked(H, C, O)
    PROVE  Linked(H, C, Swept(H, C, O))
  <1> DEFINE S == Swept(H, C, O)
  <1>0. Typed(H, C, O) /\ Paired(H, C) /\ Held(H, C, O) /\ CutAlone(O) /\ Whole(H, C, O)
        /\ Told(H, C)
    BY DEF Linked
  <1>1. Typed(H, C, S)
    BY <1>0 DEF Typed, Swept, NoObject, Object
  <1>2. \A o \in Objects : S[o] = O[o] \/ S[o] = NoObject
    BY DEF Swept
  <1>3. \A o \in Objects : Holders(H, C, o) # {} => S[o] = O[o]
    BY DEF Swept
  <1>4. \A h \in Handles : H[h].at = "ctx" => S[H[h].obj] = O[H[h].obj]
    BY <1>0, <1>3 DEF Held, Holders
  <1>5. \A c \in Contents : C[c].status # "NONE" => S[C[c].obj] = O[C[c].obj]
    BY <1>0, <1>3 DEF Held, Holders
  <1>6. Held(H, C, S)
    BY <1>0, <1>4, <1>5 DEF Held
  <1>7. CutAlone(S)
    <2> SUFFICES ASSUME NEW o \in Objects
                 PROVE  /\ S[o].state = "none" => S[o] = NoObject
                        /\ S[o].state # "none" => S[o].url \in Urls
                        /\ S[o].cut => ~S[o].usable
      BY Zenon DEF CutAlone
    <2>1. CASE S[o] = O[o]
      BY <1>0, <2>1 DEF CutAlone
    <2>2. CASE S[o] = NoObject
      BY <2>2 DEF NoObject
    <2> QED BY <1>2, <2>1, <2>2
  <1>8. Whole(H, C, S)
    <2> SUFFICES ASSUME NEW h \in Handles, H[h].at = "content", ~H[h].aborted
                 PROVE  ~S[C[H[h].content].obj].cut
      BY DEF Whole
    <2>1. H[h].content \in Contents /\ h \in C[H[h].content].users
      BY <1>0 DEF Paired
    <2>2. C[H[h].content].status # "NONE"
      BY <1>0, <2>1 DEF Held, Loaded
    <2> QED BY <1>0, <1>5, <2>1, <2>2 DEF Whole
  <1> QED BY <1>0, <1>1, <1>6, <1>7, <1>8 DEF Linked

LEMMA BecomesGood ==
    ASSUME NEW H, NEW C, NEW O, Good(H, C, O), Becomes(H, C, O)
    PROVE  IInv'
  BY SweptLinked DEF Becomes, Good, IInv

(* One of one holder is the only one. *)
LEMMA OnlyHolder ==
    ASSUME NEW H, NEW C, NEW o, Cardinality(Holders(H, C, o)) = 1,
           NEW x \in Holders(H, C, o), NEW y \in Holders(H, C, o)
    PROVE  x = y
  <1>1. Holders(H, C, o) \in SUBSET (Handles \cup Contents)
    BY DEF Holders
  <1>2. IsFiniteSet(Handles \cup Contents)
    BY FS_Union
  <1>3. IsFiniteSet(Holders(H, C, o))
    BY <1>1, <1>2, FS_Subset
  <1>4. PICK z : Holders(H, C, o) = {z}
    BY <1>3, FS_Singleton
  <1> QED BY <1>4

LEMMA OnlyUser ==
    ASSUME NEW U \in SUBSET Handles, Cardinality(U) = 1, NEW x \in U, NEW y \in U
    PROVE  x = y
  <1>1. IsFiniteSet(U)
    BY FS_Subset
  <1>2. PICK z : U = {z}
    BY <1>1, FS_Singleton
  <1> QED BY <1>2

(* A fetch may be cut short when no context waits for it and those who use *)
(* what it has brought have asked for that.                                *)
LEMMA CutOffLinked ==
    ASSUME NEW H, NEW C, NEW O, Linked(H, C, O), NEW o \in Objects, O[o].state # "none",
           \A h \in Handles : H[h].at = "ctx" => H[h].obj # o,
           \A h \in Handles : H[h].at = "content" /\ C[H[h].content].obj = o => H[h].aborted
    PROVE  Linked(H, C, CutOff(O, o))
  <1> DEFINE S == CutOff(O, o)
  <1>0. Typed(H, C, O) /\ Paired(H, C) /\ Held(H, C, O) /\ CutAlone(O) /\ Whole(H, C, O)
        /\ Told(H, C)
    BY DEF Linked
  <1>1. O \in [Objects -> Object]
    BY <1>0 DEF Typed
  <1>2. S[o].state = "complete" /\ S[o].url = O[o].url /\ ~S[o].usable
    BY <1>1 DEF CutOff, Object
  <1>3. S \in [Objects -> Object]
    BY <1>1 DEF CutOff, Object
  <1>4. \A p \in Objects : p # o => S[p] = O[p]
    BY <1>1 DEF CutOff
  <1>5. \A p \in Objects : S[p].url = O[p].url /\ (S[p].state = "none" <=> O[p].state = "none")
    BY <1>2, <1>4
  <1>6. Held(H, C, S)
    BY <1>0, <1>4, <1>5 DEF Held
  <1>7. CutAlone(S)
    BY <1>0, <1>2, <1>4 DEF CutAlone
  <1>8. Whole(H, C, S)
    <2> SUFFICES ASSUME NEW h \in Handles, H[h].at = "content", ~H[h].aborted
                 PROVE  ~S[C[H[h].content].obj].cut
      BY DEF Whole
    <2>1. H[h].content \in Contents /\ h \in C[H[h].content].users
      BY <1>0 DEF Paired
    <2>2. C[H[h].content].obj \in Objects
      BY <1>0, <2>1 DEF Held, Loaded
    <2> QED BY <1>0, <1>4, <2>2 DEF Whole
  <1> QED BY <1>0, <1>3, <1>6, <1>7, <1>8 DEF Linked, Typed

(* A content whose users have all aborted it may be given an object of its *)
(* own, or end the fetch when it is the only one that holds it; it does    *)
(* not do the work of another one any more.                                *)
LEMMA CutOffContentGood ==
    ASSUME NEW H, NEW C, NEW c \in Contents, Linked(H, C, objects),
           Once(C, Contents \ {c}), C[c].status # "NONE",
           \A h \in C[c].users : H[h].aborted, CutOffContent(C, c, H)
    PROVE  IInv'
  <1> DEFINE o == C[c].obj
  <1>0. /\ Typed(H, C, objects) /\ Paired(H, C) /\ Held(H, C, objects)
        /\ CutAlone(objects) /\ Whole(H, C, objects) /\ Told(H, C)
    BY DEF Linked
  <1>1. o \in Objects /\ objects[o].state # "none"
    BY <1>0 DEF Held
  <1>2. \A h \in Handles : H[h].at = "content" =>
          /\ H[h].content \in Contents /\ h \in C[H[h].content].users
          /\ C[H[h].content].status # "NONE"
    BY <1>0 DEF Paired, Held, Loaded
  <1>3. CASE Cardinality(Holders(H, C, o)) = 1
    <2>1. c \in Holders(H, C, o)
      BY DEF Holders
    <2>2. \A x \in Holders(H, C, o) : x = c
      BY <1>3, <2>1, OnlyHolder
    <2>3. \A h \in Handles : H[h].at = "ctx" => H[h].obj # o
      BY <2>2 DEF Holders
    <2>4. \A d \in Contents : C[d].status # "NONE" /\ C[d].obj = o => d = c
      BY <2>2 DEF Holders
    <2>5. Linked(H, C, CutOff(objects, o))
      BY <1>1, <1>2, <2>3, <2>4, CutOffLinked
    <2>6. Once(C, Contents)
      BY <2>4 DEF Once, Loaded
    <2>7. Becomes(H, C, CutOff(objects, o))
      BY <1>3 DEF CutOffContent
    <2> QED BY <2>5, <2>6, <2>7, BecomesGood DEF Good
  <1>4. CASE Cardinality(Holders(H, C, o)) # 1
    <2>1. PICK n \in Snapshots(objects, o) :
            Becomes(H, [C EXCEPT ![c].obj = n], CutOff([objects EXCEPT ![n] = objects[o]], n))
      BY <1>4 DEF CutOffContent
    <2> DEFINE D == [C EXCEPT ![c].obj = n]
               P == [objects EXCEPT ![n] = objects[o]]
    <2>2. n \in Objects /\ objects[n].state = "none"
      BY DEF Snapshots
    <2>3. /\ D \in [Contents -> Content] /\ P \in [Objects -> Object]
          /\ P[n] = objects[o] /\ \A p \in Objects : p # n => P[p] = objects[p]
      BY <1>0, <1>1, <2>2 DEF Typed, Content
    <2>4. /\ D[c].obj = n
          /\ \A d \in Contents :
               /\ d # c => D[d] = C[d]
               /\ D[d].status = C[d].status /\ D[d].users = C[d].users
               /\ D[d].type = C[d].type /\ D[d].quirks = C[d].quirks
      BY <1>0 DEF Typed, Content
    <2>5. \A d \in Contents : C[d].status # "NONE" => C[d].obj # n
      BY <1>0, <2>2 DEF Held
    <2>6. Held(H, D, P)
      BY <1>0, <1>1, <2>2, <2>3, <2>4 DEF Held
    <2>7. CutAlone(P)
      BY <1>0, <1>1, <2>3 DEF CutAlone
    <2>8. Whole(H, D, P)
      BY <1>0, <1>2, <2>3, <2>4, <2>5 DEF Whole
    <2>9. Paired(H, D) /\ Told(H, D)
      BY <1>0, <1>2, <2>4 DEF Paired, Told
    <2>10. Linked(H, D, P)
      BY <1>0, <2>3, <2>6, <2>7, <2>8, <2>9 DEF Linked, Typed
    <2>11. \A h \in Handles : H[h].at = "ctx" => H[h].obj # n
      BY <1>0, <2>2 DEF Held
    <2>12. \A h \in Handles : H[h].at = "content" /\ D[H[h].content].obj = n => H[h].aborted
      BY <1>2, <2>4, <2>5
    <2>13. P[n].state # "none"
      BY <1>1, <2>3
    <2>14. Linked(H, D, CutOff(P, n))
      BY <2>2, <2>10, <2>11, <2>12, <2>13, CutOffLinked
    <2>15. Once(D, Contents)
      BY <2>4, <2>5 DEF Once, Loaded
    <2> QED BY <2>1, <2>14, <2>15, BecomesGood DEF Good
  <1> QED BY <1>3, <1>4

-----------------------------------------------------------------------------
(* A content comes further, and all its users are told. *)
Steps(from, to, m) == \/ from = "LOADING" /\ to = "LOADING" /\ m = <<>>
                      \/ from = "LOADING" /\ to = "READY" /\ m = <<"READY">>
                      \/ from = "LOADING" /\ to = "DONE" /\ m = <<"READY", "DONE">>
                      \/ from = "READY" /\ to = "DONE" /\ m = <<"DONE">>

LEMMA Joined ==
    /\ <<"LOADING">> \o <<>> = <<"LOADING">>
    /\ <<"LOADING">> \o <<"READY">> = <<"LOADING", "READY">>
    /\ <<"LOADING">> \o <<"READY", "DONE">> = <<"LOADING", "READY", "DONE">>
    /\ <<"LOADING", "READY">> \o <<"DONE">> = <<"LOADING", "READY", "DONE">>
    /\ <<"LOADING">> \o <<"ERROR">> = <<"LOADING", "ERROR">>
    /\ <<>> \o <<"ERROR">> = <<"ERROR">>
    /\ \A status \in Loaded : <<>> \o CaughtUp(status) = CaughtUp(status)
  <1> DEFINE W == {"LOADING", "READY", "DONE", "ERROR"}
  <1>1. <<"LOADING">> \in Seq(W) /\ <<"ERROR">> \in Seq(W)
    OBVIOUS
  <1>2. \A status \in Loaded : CaughtUp(status) \in Seq(W)
    <2>1. /\ <<"LOADING">> \in Seq(W) /\ <<"LOADING", "READY">> \in Seq(W)
          /\ <<"LOADING", "READY", "DONE">> \in Seq(W)
      OBVIOUS
    <2> QED BY <2>1, Zenon DEF CaughtUp, Loaded
  <1>3. <<"LOADING">> \o <<>> = <<"LOADING">> /\ <<>> \o <<"ERROR">> = <<"ERROR">>
    BY <1>1, ConcatEmptySeq
  <1>4. \A status \in Loaded : <<>> \o CaughtUp(status) = CaughtUp(status)
    BY <1>2, ConcatEmptySeq
  <1>5. "LOADING" \in W /\ "READY" \in W /\ "DONE" \in W /\ "ERROR" \in W
    OBVIOUS
  <1> HIDE DEF W
  <1>6. <<"LOADING">> \o <<"READY">> = <<"LOADING", "READY">>
        /\ <<"LOADING">> \o <<"ERROR">> = <<"LOADING", "ERROR">>
    BY <1>5, AppendOne
  <1>7. <<"LOADING">> \o <<"READY", "DONE">> = <<"LOADING", "READY", "DONE">>
        /\ <<"LOADING", "READY">> \o <<"DONE">> = <<"LOADING", "READY", "DONE">>
    BY <1>5, AppendTwo
  <1> QED BY <1>3, <1>4, <1>6, <1>7

LEMMA StepMessages ==
    ASSUME NEW from, NEW to, NEW m, Steps(from, to, m)
    PROVE  /\ from \in Loaded /\ to \in Loaded
           /\ CaughtUp(from) \o m = CaughtUp(to)
           /\ CaughtUp(to) \in Parts
           /\ m \in Messages
  BY Joined DEF Steps, Loaded, CaughtUp, Parts, Messages

Words == {"LOADING", "READY", "DONE", "ERROR", "DOWNLOAD"}

(* What is told goes on, and what may be told is told in this order. *)
LEMMA BeginsWith ==
    ASSUME NEW s \in Seq(Words), NEW t \in Seq(Words), Len(s) <= Len(t),
           \A i \in 1..Len(s) : t[i] = s[i]
    PROVE  User!IsBeginning(s, t) /\ s \in {SubSeq(t, 1, n) : n \in 0..Len(t)}
  <1> DEFINE u == SubSeq(t, 1, Len(s))
  <1>1. Len(s) \in 0..Len(t)
    OBVIOUS
  <1>2. \A i \in 1..Len(s) : t[i] \in Words
    OBVIOUS
  <1>3. u \in Seq(Words) /\ Len(u) = Len(s) /\ \A i \in 1..Len(s) : u[i] = t[i]
    BY <1>1, <1>2, SubSeqProperties
  <1> HIDE DEF u
  <1>4. u = s
    BY <1>3, SeqEqual
  <1> QED BY <1>1, <1>4 DEF u, User!IsBeginning

LEMMA PartsAreWords ==
    /\ \A t \in Parts : t \in Seq(Words)
    /\ Len(<<>>) = 0
  <1>1. /\ <<>> \in Seq(Words) /\ <<"LOADING">> \in Seq(Words)
        /\ <<"LOADING", "READY">> \in Seq(Words)
        /\ <<"LOADING", "READY", "DONE">> \in Seq(Words)
        /\ <<"LOADING", "ERROR">> \in Seq(Words) /\ <<"ERROR">> \in Seq(Words)
        /\ <<"DOWNLOAD">> \in Seq(Words)
    BY DEF Words
  <1> QED BY <1>1, Zenon DEF Parts

Grows(s, t) == s \in Parts /\ t \in Parts /\ User!IsBeginning(s, t)

LEMMA Unchanged ==
    ASSUME NEW t \in Parts
    PROVE  Grows(t, t) /\ Grows(<<>>, t)
  <1>1. t \in Seq(Words) /\ <<>> \in Seq(Words) /\ <<>> \in Parts
    BY PartsAreWords DEF Parts
  <1>2. User!IsBeginning(t, t)
    BY <1>1, BeginsWith
  <1> DEFINE e == <<>>
  <1>3. e \in Seq(Words) /\ Len(e) = 0 /\ e \in Parts
    BY <1>1
  <1> HIDE DEF e
  <1>4. Len(e) <= Len(t) /\ \A i \in 1..Len(e) : t[i] = e[i]
    BY <1>1, <1>3
  <1>5. User!IsBeginning(e, t)
    BY <1>1, <1>3, <1>4, BeginsWith
  <1> QED BY <1>2, <1>3, <1>5 DEF e, Grows

LEMMA Growing ==
    /\ Grows(<<"LOADING">>, <<"LOADING", "READY">>)
    /\ Grows(<<"LOADING">>, <<"LOADING", "READY", "DONE">>)
    /\ Grows(<<"LOADING">>, <<"LOADING", "ERROR">>)
    /\ Grows(<<"LOADING", "READY">>, <<"LOADING", "READY", "DONE">>)
    /\ Parts \subseteq User!Beginnings
  <1> DEFINE l == <<"LOADING">>
             r == <<"LOADING", "READY">>
             d == <<"LOADING", "READY", "DONE">>
             e == <<"LOADING", "ERROR">>
             f == <<"ERROR">>
             w == <<"DOWNLOAD">>
             n == <<>>
  <1>1. /\ Parts = {n, l, r, d, e, f, w}
        /\ User!Stories = {d, e, f, w}
    BY DEF Parts, User!Stories
  <1>2. /\ Len(n) = 0 /\ Len(l) = 1 /\ Len(r) = 2 /\ Len(d) = 3 /\ Len(e) = 2 /\ Len(f) = 1
        /\ Len(w) = 1
    OBVIOUS
  <1>3. /\ r[1] = l[1] /\ d[1] = l[1] /\ e[1] = l[1] /\ d[1] = r[1] /\ d[2] = r[2]
    OBVIOUS
  <1> HIDE DEF l, r, d, e, f, w, n
  <1>4. /\ n \in Seq(Words) /\ l \in Seq(Words) /\ r \in Seq(Words) /\ d \in Seq(Words)
        /\ e \in Seq(Words) /\ f \in Seq(Words) /\ w \in Seq(Words)
    BY <1>1, PartsAreWords
  <1>5. User!IsBeginning(l, r) /\ User!IsBeginning(l, d) /\ User!IsBeginning(l, e)
    BY <1>2, <1>3, <1>4, BeginsWith
  <1>6. User!IsBeginning(r, d)
    <2>1. \A i \in 1..Len(r) : d[i] = r[i]
      BY <1>2, <1>3
    <2>2. Len(r) <= Len(d)
      BY <1>2
    <2> QED BY <1>4, <2>1, <2>2, BeginsWith
  <1>7. Parts \subseteq User!Beginnings
    <2> DEFINE Starts(s) == {SubSeq(s, 1, i) : i \in 0..Len(s)}
    <2>1. \A s \in {d, e, f, w} : Starts(s) \subseteq User!Beginnings
      BY <1>1 DEF User!Beginnings
    <2>2. n \in Starts(d) /\ l \in Starts(d) /\ r \in Starts(d) /\ d \in Starts(d)
      BY <1>2, <1>3, <1>4, BeginsWith
    <2>3. e \in Starts(e) /\ f \in Starts(f) /\ w \in Starts(w)
      BY <1>2, <1>4, BeginsWith
    <2> HIDE DEF Starts
    <2> QED BY <1>1, <2>1, <2>2, <2>3
  <1>8. l \in Parts /\ r \in Parts /\ d \in Parts /\ e \in Parts
    BY <1>1
  <1> QED BY <1>5, <1>6, <1>7, <1>8 DEF Grows, l, r, d, e

LEMMA StepGrows ==
    ASSUME NEW from, NEW to, NEW m, Steps(from, to, m)
    PROVE  Grows(CaughtUp(from), CaughtUp(to))
  <1>1. CaughtUp(from) \in Parts
    BY DEF Steps, CaughtUp, Parts
  <1> QED BY <1>1, Unchanged, Growing DEF Steps, CaughtUp

(* What happens to all handles when some are told something: only those    *)
(* that are open are told, what they were told goes on, and none is opened.*)
IsOpen(r) == r.at \in {"ctx", "content"}

Tells(H, G) ==
    \A h \in Handles : /\ Grows(H[h].told, G[h].told)
                       /\ G[h].told # H[h].told => IsOpen(H[h])
                       /\ IsOpen(G[h]) => IsOpen(H[h])

StillAborted(H, G) == \A h \in Handles : H[h].aborted => G[h].aborted

LEMMA FurtherGood ==
    ASSUME NEW H, NEW C, NEW D, NEW O, Good(H, C, O), NEW c \in Contents,
           NEW from, NEW to, NEW m, Steps(from, to, m),
           C[c].status = from, D \in [Contents -> Content],
           \A d \in Contents : d # c => D[d] = C[d],
           D[c].status = to, D[c].users = C[c].users, D[c].obj = C[c].obj,
           D[c].type = C[c].type, D[c].quirks = C[c].quirks
    PROVE  /\ Good(Tell(H, C[c].users, m), D, O)
           /\ StillAborted(H, Tell(H, C[c].users, m))
           /\ Tells(H, Tell(H, C[c].users, m))
  <1> DEFINE G == Tell(H, C[c].users, m)
  <1>0. /\ Typed(H, C, O) /\ Paired(H, C) /\ Held(H, C, O) /\ CutAlone(O)
        /\ Whole(H, C, O) /\ Told(H, C) /\ Once(C, Contents)
    BY DEF Linked, Good
  <1>1. C[c].users \in SUBSET Handles
    BY <1>0 DEF Typed, Content
  <1>2. m \in Messages
    BY StepMessages
  <1>3. H \in [Handles -> Handle]
    BY <1>0 DEF Typed
  <1>4. /\ \A h \in Handles : h \notin C[c].users => G[h] = H[h]
        /\ \A h \in C[c].users : G[h] = Knows(H[h], H[h].told \o m)
    BY <1>1, <1>2, <1>3, TellMore
  <1>5. \A h \in C[c].users : H[h].at = "content" /\ H[h].content = c
    BY <1>0, <1>1 DEF Paired
  <1>6. \A h \in C[c].users : G[h] = Knows(H[h], CaughtUp(to))
    <2>1. \A h \in C[c].users : H[h].told = CaughtUp(from)
      BY <1>0, <1>1, <1>5 DEF Told
    <2>2. CaughtUp(from) \o m = CaughtUp(to)
      BY StepMessages
    <2> QED BY <1>4, <2>1, <2>2
  <1>7. CaughtUp(to) \in Parts
    BY StepMessages
  <1>8. \A h \in Handles :
           /\ G[h] \in Handle
           /\ G[h].at = H[h].at /\ G[h].content = H[h].content
           /\ G[h].obj = H[h].obj /\ G[h].aborted = H[h].aborted
           /\ h \in C[c].users => G[h].told = CaughtUp(to)
    BY <1>1, <1>3, <1>4, <1>6, <1>7, HandleKnows
  <1>9. G \in [Handles -> Handle]
    BY <1>8 DEF Tell
  <1>10. \A d \in Contents :
           /\ D[d].users = C[d].users /\ D[d].obj = C[d].obj
           /\ D[d].type = C[d].type /\ D[d].quirks = C[d].quirks
           /\ (D[d].status # "NONE" <=> C[d].status # "NONE")
           /\ (D[d].status \in Loaded <=> C[d].status \in Loaded)
    BY StepMessages DEF Loaded
  <1>11. Paired(G, D)
    BY <1>0, <1>8, <1>10 DEF Paired
  <1>12. Held(G, D, O)
    BY <1>0, <1>8, <1>10 DEF Held
  <1>13. Whole(G, D, O)
    BY <1>0, <1>8, <1>10 DEF Whole, Paired
  <1>14. Told(G, D)
    <2> SUFFICES ASSUME NEW h \in Handles
                 PROVE  /\ G[h].at \in {"ctx", "bare"} => G[h].told = <<>>
                        /\ G[h].at = "content" => G[h].told = CaughtUp(D[G[h].content].status)
      BY DEF Told
    <2>1. CASE h \in C[c].users
      BY <1>5, <1>8, <2>1
    <2>2. CASE h \notin C[c].users
      BY <1>0, <1>4, <2>2 DEF Told, Paired
    <2> QED BY <2>1, <2>2
  <1>15. Once(D, Contents)
    BY <1>0, <1>10 DEF Once
  <1>16. Tells(H, G)
    <2> SUFFICES ASSUME NEW h \in Handles
                 PROVE  /\ Grows(H[h].told, G[h].told)
                        /\ G[h].told # H[h].told => IsOpen(H[h])
                        /\ IsOpen(G[h]) => IsOpen(H[h])
      BY DEF Tells
    <2>1. H[h].told \in Parts
      BY <1>3 DEF Handle
    <2>2. CASE h \in C[c].users
      <3>1. H[h].told = CaughtUp(from) /\ G[h].told = CaughtUp(to)
        BY <1>0, <1>5, <1>8, <2>2 DEF Told
      <3> QED BY <1>5, <1>8, <2>2, <3>1, StepGrows DEF IsOpen
    <2>3. CASE h \notin C[c].users
      BY <1>4, <2>1, <2>3, Unchanged
    <2> QED BY <2>2, <2>3
  <1> QED BY <1>0, <1>8, <1>9, <1>11, <1>12, <1>13, <1>14, <1>15, <1>16
         DEF Good, Linked, Typed, StillAborted

(* A content fails: its users are told, and are gone. *)
LEMMA FailsGood ==
    ASSUME NEW H, NEW C, NEW D, NEW O, Good(H, C, O), NEW c \in Contents,
           C[c].status = "LOADING", D \in [Contents -> Content],
           \A d \in Contents : d # c => D[d] = C[d],
           D[c].status \in {"ERROR", "LOADING"}, D[c].users = {}, D[c].obj = C[c].obj,
           D[c].type = C[c].type, D[c].quirks = C[c].quirks
    PROVE  /\ Good(Tell(H, C[c].users, <<"ERROR">>), D, O)
           /\ Tells(H, Tell(H, C[c].users, <<"ERROR">>))
  <1> DEFINE G == Tell(H, C[c].users, <<"ERROR">>)
  <1>0. /\ Typed(H, C, O) /\ Paired(H, C) /\ Held(H, C, O) /\ CutAlone(O)
        /\ Whole(H, C, O) /\ Told(H, C) /\ Once(C, Contents)
    BY DEF Linked, Good
  <1>1. C[c].users \in SUBSET Handles
    BY <1>0 DEF Typed, Content
  <1>2. H \in [Handles -> Handle]
    BY <1>0 DEF Typed
  <1>3. \A h \in C[c].users : H[h].at = "content" /\ H[h].content = c
    BY <1>0, <1>1 DEF Paired
  <1>4. \A h \in C[c].users : H[h].told = <<"LOADING">>
    BY <1>0, <1>1, <1>3 DEF Told, CaughtUp
  <1>5. \A h \in C[c].users : G[h] = Gone(<<"LOADING", "ERROR">>)
    <2> SUFFICES ASSUME NEW h \in C[c].users PROVE G[h] = Gone(<<"LOADING", "ERROR">>)
      OBVIOUS
    <2>1. G[h] = Gone(H[h].told \o <<"ERROR">>)
      BY <1>1, <1>2, TellError
    <2>2. <<"LOADING">> \o <<"ERROR">> = <<"LOADING", "ERROR">>
      BY Joined
    <2>3. H[h].told \o <<"ERROR">> = <<"LOADING", "ERROR">>
      BY <1>4, <2>2
    <2> QED BY ONLY <2>1, <2>3
  <1>6. \A h \in C[c].users : G[h] \in Handle /\ G[h].at = "free"
    <2>1. <<"LOADING", "ERROR">> \in Parts
      BY DEF Parts
    <2> QED BY <1>1, <1>2, <1>5, <2>1, HandleGone
  <1>7. \A h \in Handles : h \notin C[c].users => G[h] = H[h]
    BY <1>1, <1>2, TellError
  <1>8. G \in [Handles -> Handle]
    BY <1>2, <1>6, <1>7 DEF Tell
  <1>9. Paired(G, D)
    BY <1>0, <1>1, <1>6, <1>7 DEF Paired
  <1>10. Held(G, D, O)
    BY <1>0, <1>6, <1>7 DEF Held
  <1>11. Whole(G, D, O)
    BY <1>0, <1>6, <1>7 DEF Whole, Paired
  <1>12. Told(G, D)
    BY <1>0, <1>6, <1>7 DEF Told, Paired
  <1>13. Once(D, Contents)
    BY <1>0 DEF Once, Loaded
  <1>14. Tells(H, G)
    <2> SUFFICES ASSUME NEW h \in Handles
                 PROVE  /\ Grows(H[h].told, G[h].told)
                        /\ G[h].told # H[h].told => IsOpen(H[h])
                        /\ IsOpen(G[h]) => IsOpen(H[h])
      BY DEF Tells
    <2>1. H[h].told \in Parts
      BY <1>2 DEF Handle
    <2>2. CASE h \in C[c].users
      <3>1. G[h].told = <<"LOADING", "ERROR">>
        BY <1>5, <2>2, HandleGone DEF Parts
      <3> QED BY <1>3, <1>4, <2>2, <3>1, Growing DEF IsOpen
    <2>3. CASE h \notin C[c].users
      BY <1>7, <2>1, <2>3, Unchanged
    <2> QED BY <2>2, <2>3
  <1> QED BY <1>0, <1>8, <1>9, <1>10, <1>11, <1>12, <1>13, <1>14 DEF Good, Linked, Typed

-----------------------------------------------------------------------------
(* What becomes of one handle *)

\* It lets go of its context, or was given up long ago.
LEMMA DropGood ==
    ASSUME NEW H, NEW G, NEW C, NEW O, Good(H, C, O), NEW h \in Handles,
           H[h].at # "content", G \in [Handles -> Handle],
           \A g \in Handles : g # h => G[g] = H[g],
           G[h].at \in {"free", "bare"}, G[h].at = "bare" => G[h].told = <<>>
    PROVE  Good(G, C, O)
  <1>0. /\ Typed(H, C, O) /\ Paired(H, C) /\ Held(H, C, O) /\ CutAlone(O)
        /\ Whole(H, C, O) /\ Told(H, C) /\ Once(C, Contents)
    BY DEF Linked, Good
  <1>1. Paired(G, C)
    BY <1>0 DEF Paired
  <1>2. Held(G, C, O)
    BY <1>0 DEF Held
  <1>3. Whole(G, C, O)
    BY <1>0 DEF Whole
  <1>4. Told(G, C)
    BY <1>0 DEF Told
  <1> QED BY <1>0, <1>1, <1>2, <1>3, <1>4 DEF Good, Linked, Typed

\* llcache_handle_abort, of a context that is given up
LEMMA ContextGone ==
    ASSUME IInv, NEW h \in Nascent, NEW G, G \in [Handles -> Handle],
           \A g \in Handles : g # h => G[g] = handles[g],
           G[h].at \in {"free", "bare"}, G[h].at = "bare" => G[h].told = <<>>
    PROVE  /\ Good(G, contents, objects)
           /\ Alone(handles[h].obj) => Good(G, contents, CutOff(objects, handles[h].obj))
  <1> DEFINE o == handles[h].obj
  <1>0. h \in Handles /\ handles[h].at = "ctx"
    BY DEF Nascent
  <1>1. Good(G, contents, objects)
    BY <1>0, DropGood DEF IInv
  <1>2. ASSUME Alone(o)
        PROVE  Good(G, contents, CutOff(objects, o))
    <2>1. o \in Objects /\ objects[o].state # "none"
      BY <1>0 DEF IInv, Good, Linked, Held
    <2>2. h \in Holders(handles, contents, o)
      BY <1>0 DEF Holders
    <2>3. \A x \in Holders(handles, contents, o) : x = h
      BY <1>2, <2>2, OnlyHolder DEF Alone
    <2>4. \A g \in Handles : G[g].at = "ctx" => G[g].obj # o
      BY <2>3 DEF Holders
    <2>5. \A c \in Contents : contents[c].status # "NONE" => contents[c].obj # o
      BY <1>0, <2>3 DEF Holders
    <2>6. \A g \in Handles : G[g].at = "content" => contents[G[g].content].obj # o
      BY <1>1, <2>5 DEF Good, Linked, Paired, Held, Loaded
    <2> QED BY <1>1, <2>1, <2>4, <2>6, CutOffLinked DEF Good
  <1> QED BY <1>1, <1>2

\* A context is told of an error, and is no more.
LEMMA ToldError ==
    ASSUME IInv, NEW h \in Nascent
    PROVE  LET G == Tell(handles, {h}, <<"ERROR">>)
           IN /\ G \in [Handles -> Handle] /\ \A g \in Handles : g # h => G[g] = handles[g]
              /\ G[h].at = "free" /\ G[h].told = <<"ERROR">>
  <1> DEFINE G == Tell(handles, {h}, <<"ERROR">>)
  <1>0. h \in Handles /\ handles[h].at = "ctx" /\ handles \in [Handles -> Handle]
    BY DEF Nascent, IInv, Good, Linked, Typed
  <1>1. handles[h].told = <<>>
    BY <1>0 DEF IInv, Good, Linked, Told
  <1>2. /\ \A g \in Handles : g \notin {h} => G[g] = handles[g]
        /\ G[h] = Gone(handles[h].told \o <<"ERROR">>)
    BY <1>0, TellError
  <1>3. G[h] = Gone(<<"ERROR">>)
    BY <1>1, <1>2, Joined
  <1>4. <<"ERROR">> \in Parts
    BY DEF Parts
  <1>5. G \in [Handles -> Handle]
    BY <1>0, <1>2, <1>3, <1>4, HandleGone DEF Tell
  <1> QED BY <1>2, <1>3, <1>4, <1>5, HandleGone

\* A context becomes a user of content c, and is told how far that is.
LEMMA JoinsTold ==
    ASSUME IInv, NEW h \in Nascent, NEW c \in Contents, NEW status \in Loaded
    PROVE  LET G == Joins(h, c, status)
           IN /\ G \in [Handles -> Handle] /\ \A g \in Handles : g # h => G[g] = handles[g]
              /\ G[h].at = "content" /\ G[h].content = c /\ ~G[h].aborted
              /\ G[h].told = CaughtUp(status)
  <1> DEFINE r == [NoHandle EXCEPT !.at = "content", !.content = c]
             H == [handles EXCEPT ![h] = r]
             G == Joins(h, c, status)
             m == CaughtUp(status)
  <1>0. h \in Handles /\ handles \in [Handles -> Handle]
    BY DEF Nascent, IInv, Good, Linked, Typed
  <1>1. r \in Handle /\ r.at = "content" /\ r.content = c /\ ~r.aborted /\ r.told = <<>>
    BY DEF Handle, NoHandle, Parts
  <1>2. H \in [Handles -> Handle] /\ H[h] = r /\ \A g \in Handles : g # h => H[g] = handles[g]
    BY <1>0, <1>1
  <1>3. m \in Messages /\ m \in Parts /\ <<>> \o m = m
    BY Joined DEF CaughtUp, Messages, Parts, Loaded
  <1>4. G = Tell(H, {h}, m)
    BY DEF Joins
  <1>5. LET k == Knows(r, m)
        IN k \in Handle /\ k.at = "content" /\ k.content = c /\ ~k.aborted /\ k.told = m
    BY <1>3, HandleJoins
  <1>6. /\ G \in [Handles -> Handle] /\ \A g \in Handles : g # h => G[g] = H[g]
        /\ G[h] = Knows(r, m)
    <2> HIDE DEF r, H, G, m
    <2>1. /\ \A g \in Handles : g # h => Tell(H, {h}, m)[g] = H[g]
          /\ Tell(H, {h}, m)[h] = Knows(H[h], H[h].told \o m)
      BY <1>0, <1>2, <1>3, TellOne
    <2>2. G[h] = Knows(r, m)
      BY <1>1, <1>2, <1>3, <1>4, <2>1
    <2>3. \A g \in Handles : G[g] \in Handle
      BY <1>2, <1>4, <1>5, <2>1, <2>2
    <2>4. G = [g \in Handles |-> G[g]]
      BY <1>4 DEF Tell
    <2> QED BY <1>4, <2>1, <2>2, <2>3, <2>4
  <1>7. /\ G \in [Handles -> Handle] /\ \A g \in Handles : g # h => G[g] = handles[g]
        /\ G[h].at = "content" /\ G[h].content = c /\ ~G[h].aborted /\ G[h].told = m
    <2> HIDE DEF r, H, G, m
    <2> QED BY <1>2, <1>5, <1>6
  <1> QED BY <1>7

-----------------------------------------------------------------------------
(* Every step keeps the invariant. *)
LEMMA InitGood == Init => IInv
  <1> SUFFICES ASSUME Init PROVE Good(handles, contents, objects)
    BY DEF IInv
  <1>1. Typed(handles, contents, objects)
    BY DEF Init, Typed, NoHandle, NoContent, NoObject, Handle, Content, Object, Parts
  <1>2. Paired(handles, contents) /\ Held(handles, contents, objects)
    BY DEF Init, Paired, Held, NoHandle, NoContent
  <1>3. CutAlone(objects) /\ Whole(handles, contents, objects) /\ Told(handles, contents)
    BY DEF Init, CutAlone, Whole, Told, NoHandle, NoObject
  <1>4. Once(contents, Contents)
    BY DEF Init, Once, NoContent, Loaded
  <1> QED BY <1>1, <1>2, <1>3, <1>4 DEF Good, Linked

\* The parts of the invariant, for the steps
LEMMA Parted ==
    IInv => /\ handles \in [Handles -> Handle] /\ contents \in [Contents -> Content]
            /\ objects \in [Objects -> Object]
            /\ Paired(handles, contents) /\ Held(handles, contents, objects)
            /\ CutAlone(objects) /\ Whole(handles, contents, objects)
            /\ Told(handles, contents) /\ Once(contents, Contents)
  BY DEF IInv, Good, Linked, Typed

LEMMA RetrieveGood ==
    ASSUME IInv, NEW h \in Handles, NEW q \in Requests, Retrieve(h, q)
    PROVE  IInv'
  <1>0. /\ handles \in [Handles -> Handle] /\ objects \in [Objects -> Object]
        /\ contents \in [Contents -> Content]
        /\ Paired(handles, contents) /\ Held(handles, contents, objects)
        /\ CutAlone(objects) /\ Whole(handles, contents, objects)
        /\ Told(handles, contents) /\ Once(contents, Contents)
    BY Parted
  <1>1. q.url \in Urls /\ q.quirks \in Quirks /\ q.welcome \in BOOLEAN
    OBVIOUS
  <1> DEFINE Asked(o) == [NoHandle EXCEPT !.at = "ctx", !.obj = o, !.quirks = q.quirks,
                                          !.welcome = q.welcome]
             H(o) == [handles EXCEPT ![h] = Asked(o)]
             New == [NoObject EXCEPT !.state = "going", !.url = q.url, !.usable = TRUE]
             O(o) == IF objects[o].state = "none" THEN [objects EXCEPT ![o] = New] ELSE objects
  <1>2. PICK o \in Objects :
          /\ \/ objects[o].usable /\ objects[o].url = q.url /\ objects[o].state # "failed"
             \/ objects[o].state = "none"
          /\ Becomes(H(o), contents, O(o))
    BY DEF Retrieve
  <1>3. /\ Asked(o) \in Handle /\ Asked(o).at = "ctx" /\ Asked(o).obj = o
        /\ Asked(o).told = <<>>
    BY <1>1 DEF Handle, NoHandle, Parts
  <1>4. /\ H(o) \in [Handles -> Handle] /\ H(o)[h] = Asked(o)
        /\ \A g \in Handles : g # h => H(o)[g] = handles[g]
    BY <1>0, <1>3
  <1>5. New \in Object /\ New.state = "going" /\ New.url \in Urls /\ ~New.cut /\ New.usable
    BY <1>1 DEF Object, NoObject
  <1>6. /\ O(o) \in [Objects -> Object] /\ \A p \in Objects : p # o => O(o)[p] = objects[p]
        /\ objects[o].state = "none" => O(o)[o] = New
        /\ objects[o].state # "none" => O(o) = objects
    BY <1>0, <1>5
  <1>7. O(o)[o].state # "none" /\ ~O(o)[o].cut
    BY <1>0, <1>2, <1>5, <1>6 DEF CutAlone
  <1> HIDE DEF Asked, H, New, O
  <1>8. handles[h].at = "free"
    BY DEF Retrieve
  <1>9. Paired(H(o), contents)
    BY <1>0, <1>3, <1>4, <1>8 DEF Paired
  <1>10. Held(H(o), contents, O(o))
    BY <1>0, <1>3, <1>4, <1>6, <1>7 DEF Held
  <1>11. CutAlone(O(o))
    BY <1>0, <1>5, <1>6 DEF CutAlone
  <1>12. \A c \in Contents : contents[c].status # "NONE" =>
            O(o)[contents[c].obj] = objects[contents[c].obj]
    BY <1>0, <1>6 DEF Held
  <1>13. Whole(H(o), contents, O(o))
    BY <1>0, <1>3, <1>4, <1>12 DEF Whole, Paired, Held, Loaded
  <1>14. Told(H(o), contents)
    BY <1>0, <1>3, <1>4 DEF Told
  <1>15. Good(H(o), contents, O(o))
    BY <1>0, <1>4, <1>6, <1>9, <1>10, <1>11, <1>13, <1>14 DEF Good, Linked, Typed
  <1> QED BY <1>2, <1>15, BecomesGood

LEMMA ContextErrorGood ==
    ASSUME IInv, NEW h \in Handles, ContextError(h)
    PROVE  IInv'
  <1>1. h \in Nascent /\ Becomes(Tell(handles, {h}, <<"ERROR">>), contents, objects)
    BY DEF ContextError
  <1>2. Good(Tell(handles, {h}, <<"ERROR">>), contents, objects)
    BY <1>1, ContextGone, ToldError
  <1> QED BY <1>1, <1>2, BecomesGood

\* An object goes on, or is given to nobody else any more.
LEMMA ObjectGood ==
    ASSUME NEW H, NEW C, NEW O, NEW P, Good(H, C, O), NEW o \in Objects,
           P \in [Objects -> Object], \A p \in Objects : p # o => P[p] = O[p],
           O[o].state # "none", P[o].state # "none",
           P[o].url = O[o].url, P[o].cut = O[o].cut, P[o].usable => O[o].usable
    PROVE  Good(H, C, P)
  <1>0. /\ Typed(H, C, O) /\ Paired(H, C) /\ Held(H, C, O) /\ CutAlone(O)
        /\ Whole(H, C, O) /\ Told(H, C) /\ Once(C, Contents)
    BY DEF Linked, Good
  <1>1. \A p \in Objects : /\ P[p].url = O[p].url /\ P[p].cut = O[p].cut
                           /\ (P[p].state = "none" <=> O[p].state = "none")
    OBVIOUS
  <1>2. Held(H, C, P)
    BY <1>0, <1>1 DEF Held
  <1>3. CutAlone(P)
    BY <1>0 DEF CutAlone
  <1>4. Whole(H, C, P)
    <2>1. \A h \in Handles : H[h].at = "content" => C[H[h].content].obj \in Objects
      BY <1>0 DEF Paired, Held, Loaded
    <2> QED BY <1>0, <1>1, <2>1 DEF Whole
  <1> QED BY <1>0, <1>2, <1>3, <1>4 DEF Good, Linked, Typed

LEMMA FetchEndsGood ==
    ASSUME IInv, NEW o \in Objects, FetchEnds(o)
    PROVE  IInv'
  <1>1. PICK state \in {"complete", "failed"} :
          Becomes(handles, contents, [objects EXCEPT ![o].state = state])
    BY DEF FetchEnds
  <1> DEFINE P == [objects EXCEPT ![o].state = state]
  <1>2. objects \in [Objects -> Object] /\ objects[o].state = "going"
    BY Parted DEF FetchEnds
  <1>3. /\ P \in [Objects -> Object] /\ \A p \in Objects : p # o => P[p] = objects[p]
        /\ P[o].state # "none" /\ P[o].url = objects[o].url /\ P[o].cut = objects[o].cut
        /\ P[o].usable = objects[o].usable
    BY <1>2 DEF Object
  <1> HIDE DEF P
  <1>4. Good(handles, contents, P)
    BY <1>2, <1>3, ObjectGood DEF IInv
  <1> QED BY <1>1, <1>4, BecomesGood DEF P

\* llcache_handle_force_stream and time
LEMMA UnusableGood ==
    ASSUME NEW H, NEW C, Good(H, C, objects), NEW o \in Objects, objects[o].state # "none"
    PROVE  Good(H, C, [objects EXCEPT ![o].usable = FALSE])
  <1> DEFINE P == [objects EXCEPT ![o].usable = FALSE]
  <1>1. objects \in [Objects -> Object]
    BY DEF Good, Linked, Typed
  <1>2. /\ P \in [Objects -> Object] /\ \A p \in Objects : p # o => P[p] = objects[p]
        /\ P[o].state # "none" /\ P[o].url = objects[o].url /\ P[o].cut = objects[o].cut
        /\ ~P[o].usable
    BY <1>1 DEF Object
  <1> HIDE DEF P
  <1>3. Good(H, C, P)
    BY <1>2, ObjectGood
  <1> QED BY <1>3 DEF P

LEMMA StaleGood ==
    ASSUME IInv, NEW o \in Objects, Stale(o)
    PROVE  IInv'
  <1>1. objects[o].state # "none"
    BY Parted DEF Stale, CutAlone, NoObject
  <1> QED BY <1>1, UnusableGood, BecomesGood DEF Stale, IInv

\* The first user of a content
LEMMA NewContentGood ==
    ASSUME IInv, NEW h \in Nascent, NEW c \in UnusedContents, Suitable(h) = {}, NEW N \in Content,
           N.status = "LOADING", N.type = TypeOf[objects[handles[h].obj].url], N.type # "none",
           N.obj = handles[h].obj, N.users = {h}, N.quirks = handles[h].quirks
    PROVE  Good(Joins(h, c, "LOADING"), [contents EXCEPT ![c] = N], objects)
  <1> DEFINE G == Joins(h, c, "LOADING")
             C == [contents EXCEPT ![c] = N]
             o == handles[h].obj
  <1>0. /\ handles \in [Handles -> Handle] /\ objects \in [Objects -> Object]
        /\ contents \in [Contents -> Content]
        /\ Paired(handles, contents) /\ Held(handles, contents, objects)
        /\ CutAlone(objects) /\ Whole(handles, contents, objects)
        /\ Told(handles, contents) /\ Once(contents, Contents)
    BY Parted
  <1>1. h \in Handles /\ handles[h].at = "ctx" /\ c \in Contents /\ contents[c].status = "NONE"
    BY DEF Nascent, UnusedContents, Cached
  <1>2. contents[c].users = {} /\ \A g \in Handles : handles[g].at = "content" => handles[g].content # c
    BY <1>0, <1>1 DEF Held, Paired, Loaded
  <1>3. /\ G \in [Handles -> Handle] /\ \A g \in Handles : g # h => G[g] = handles[g]
        /\ G[h].at = "content" /\ G[h].content = c /\ G[h].told = CaughtUp("LOADING")
    <2>1. "LOADING" \in Loaded
      BY DEF Loaded
    <2> QED BY <1>1, <2>1, JoinsTold
  <1>4. C \in [Contents -> Content] /\ C[c] = N /\ \A d \in Contents : d # c => C[d] = contents[d]
    BY <1>0, <1>1
  <1> HIDE DEF G, C
  <1>5. o \in Objects /\ objects[o].state # "none" /\ ~objects[o].cut
    BY <1>0, <1>1 DEF Held
  <1>6. Paired(G, C)
    BY <1>0, <1>1, <1>2, <1>3, <1>4 DEF Paired
  <1>7. Held(G, C, objects)
    BY <1>0, <1>1, <1>3, <1>4, <1>5 DEF Held, Loaded
  <1>8. Whole(G, C, objects)
    <2>1. \A g \in Handles : G[g].at = "content" /\ g # h =>
            G[g].content \in Contents \ {c} /\ G[g] = handles[g]
      BY <1>0, <1>2, <1>3 DEF Paired
    <2>2. ~objects[C[G[h].content].obj].cut
      BY <1>3, <1>4, <1>5
    <2> QED BY <1>0, <1>4, <2>1, <2>2 DEF Whole
  <1>9. Told(G, C)
    <2>1. \A g \in Handles : G[g].at = "content" /\ g # h =>
            G[g].content \in Contents \ {c} /\ G[g] = handles[g]
      BY <1>0, <1>2, <1>3 DEF Paired
    <2>2. G[h].told = CaughtUp(C[G[h].content].status)
      BY <1>3, <1>4
    <2>3. \A g \in Handles : G[g].at \in {"ctx", "bare"} => G[g].told = <<>>
      BY <1>0, <1>3 DEF Told
    <2> QED BY <1>0, <1>3, <1>4, <2>1, <2>2, <2>3 DEF Told
  <1>10. ASSUME NEW d \in Contents, d # c, contents[d].status \in Loaded, contents[d].obj = o
         PROVE  /\ contents[d].type = N.type
                /\ contents[d].type = "page"
                   \/ (contents[d].type = "sheet" /\ contents[d].quirks # N.quirks)
    <2>1. d \in Cached /\ contents[d].status # "ERROR"
      BY <1>10 DEF Cached, Loaded
    <2>2. contents[d].type = N.type
      BY <1>0, <1>10, <2>1 DEF Held, Cached
    <2>3. d \notin Matching(h)
      BY <2>1 DEF Suitable
    <2> QED BY <1>10, <2>1, <2>2, <2>3 DEF Matching
  <1>11. Once(C, Contents)
    BY <1>0, <1>4, <1>10 DEF Once
  <1>12. Good(G, C, objects)
    BY <1>0, <1>3, <1>4, <1>6, <1>7, <1>8, <1>9, <1>11 DEF Good, Linked, Typed
  <1> QED BY <1>12 DEF G, C

\* One more user of a content
LEMMA SharedGood ==
    ASSUME IInv, NEW h \in Nascent, NEW c \in Suitable(h)
    PROVE  Good(Joins(h, c, contents[c].status), [contents EXCEPT ![c].users = @ \cup {h}],
                objects)
  <1> DEFINE G == Joins(h, c, contents[c].status)
             C == [contents EXCEPT ![c].users = @ \cup {h}]
  <1>0. /\ handles \in [Handles -> Handle] /\ objects \in [Objects -> Object]
        /\ contents \in [Contents -> Content]
        /\ Paired(handles, contents) /\ Held(handles, contents, objects)
        /\ CutAlone(objects) /\ Whole(handles, contents, objects)
        /\ Told(handles, contents) /\ Once(contents, Contents)
    BY Parted
  <1>1. h \in Handles /\ handles[h].at = "ctx"
    BY DEF Nascent
  <1>2. c \in Contents /\ contents[c].obj = handles[h].obj /\ contents[c].status \in Loaded
    BY <1>0 DEF Suitable, Matching, Cached, Content, Loaded
  <1>3. /\ G \in [Handles -> Handle] /\ \A g \in Handles : g # h => G[g] = handles[g]
        /\ G[h].at = "content" /\ G[h].content = c /\ G[h].told = CaughtUp(contents[c].status)
    BY <1>2, JoinsTold
  <1>4. /\ C \in [Contents -> Content] /\ \A d \in Contents : d # c => C[d] = contents[d]
        /\ C[c].users = contents[c].users \cup {h}
        /\ \A d \in Contents : /\ C[d].status = contents[d].status /\ C[d].obj = contents[d].obj
                               /\ C[d].type = contents[d].type
                               /\ C[d].quirks = contents[d].quirks
    BY <1>0, <1>1, <1>2 DEF Content
  <1> HIDE DEF G, C
  <1>5. Paired(G, C)
    BY <1>0, <1>1, <1>2, <1>3, <1>4 DEF Paired
  <1>6. Held(G, C, objects)
    BY <1>0, <1>1, <1>2, <1>3, <1>4 DEF Held
  <1>7. Whole(G, C, objects)
    <2>1. \A g \in Handles : G[g].at = "content" /\ g # h =>
            G[g].content \in Contents /\ G[g] = handles[g]
      BY <1>0, <1>3 DEF Paired
    <2>2. ~objects[C[G[h].content].obj].cut
      BY <1>0, <1>1, <1>2, <1>3, <1>4 DEF Held
    <2> QED BY <1>0, <1>4, <2>1, <2>2 DEF Whole
  <1>8. Told(G, C)
    <2>1. \A g \in Handles : G[g].at = "content" /\ g # h =>
            G[g].content \in Contents /\ G[g] = handles[g]
      BY <1>0, <1>3 DEF Paired
    <2>2. G[h].told = CaughtUp(C[G[h].content].status)
      BY <1>2, <1>3, <1>4
    <2>3. \A g \in Handles : G[g].at \in {"ctx", "bare"} => G[g].told = <<>>
      BY <1>0, <1>3 DEF Told
    <2> QED BY <1>0, <1>3, <1>4, <2>1, <2>2, <2>3 DEF Told
  <1>9. Once(C, Contents)
    BY <1>0, <1>4 DEF Once
  <1>10. Good(G, C, objects)
    BY <1>0, <1>3, <1>4, <1>5, <1>6, <1>7, <1>8, <1>9 DEF Good, Linked, Typed
  <1> QED BY <1>10 DEF G, C

LEMMA MigrateGood ==
    ASSUME IInv, NEW h \in Handles, Migrate(h)
    PROVE  IInv'
  <1> DEFINE r == handles[h]
             type == TypeOf[objects[r.obj].url]
  <1>0. /\ handles \in [Handles -> Handle] /\ objects \in [Objects -> Object]
        /\ Held(handles, contents, objects) /\ CutAlone(objects)
    BY Parted
  <1>1. h \in Nascent /\ handles[h].at = "ctx"
    BY DEF Migrate, Nascent
  <1>2. /\ r.obj \in Objects /\ objects[r.obj].state # "none"
        /\ type \in {"image", "sheet", "page", "none"}
    BY <1>0, <1>1 DEF Held, CutAlone
  <1>3. ASSUME type # "none", Suitable(h) = {}, NEW c \in UnusedContents,
               Becomes(Joins(h, c, "LOADING"),
                       [contents EXCEPT ![c] = [status |-> "LOADING", type |-> type,
                          obj |-> r.obj, source |-> TRUE, users |-> {h}, quirks |-> r.quirks,
                          lost |-> FALSE]],
                       objects)
        PROVE  IInv'
    <2> DEFINE N == [status |-> "LOADING", type |-> type, obj |-> r.obj, source |-> TRUE,
                     users |-> {h}, quirks |-> r.quirks, lost |-> FALSE]
    <2>1. N \in Content
      <3>1. r.quirks \in Quirks \cup {None} /\ {h} \in SUBSET Handles
        BY <1>0 DEF Handle
      <3> QED BY <1>2, <3>1 DEF Content, Loaded
    <2>2. Good(Joins(h, c, "LOADING"), [contents EXCEPT ![c] = N], objects)
      BY <1>1, <1>3, <2>1, NewContentGood
    <2> QED BY <1>3, <2>2, BecomesGood
  <1>4. ASSUME NEW c \in Suitable(h),
               Becomes(Joins(h, c, contents[c].status),
                       [contents EXCEPT ![c].users = @ \cup {h}], objects)
        PROVE  IInv'
    BY <1>1, <1>4, SharedGood, BecomesGood
  <1>5. ASSUME Becomes([handles EXCEPT ![h] = [NoHandle EXCEPT !.told = <<"DOWNLOAD">>]],
                       contents, [objects EXCEPT ![r.obj].usable = FALSE])
        PROVE  IInv'
    <2> DEFINE G == [handles EXCEPT ![h] = Gone(<<"DOWNLOAD">>)]
    <2>1. <<"DOWNLOAD">> \in Parts
      BY DEF Parts
    <2>2. Gone(<<"DOWNLOAD">>) \in Handle /\ Gone(<<"DOWNLOAD">>).at = "free"
      BY <2>1, HandleGone
    <2>3. /\ G \in [Handles -> Handle] /\ \A g \in Handles : g # h => G[g] = handles[g]
          /\ G[h].at = "free"
      BY <1>0, <2>2
    <2> HIDE DEF G
    <2>4. Good(G, contents, objects)
      BY <1>1, <2>3, ContextGone
    <2>5. Good(G, contents, [objects EXCEPT ![r.obj].usable = FALSE])
      BY <1>2, <2>4, UnusableGood
    <2> QED BY <1>5, <2>5, BecomesGood DEF G, Gone
  <1>6. ASSUME Becomes(Tell(handles, {h}, <<"ERROR">>), contents,
                       IF Alone(r.obj) THEN CutOff(objects, r.obj) ELSE objects)
        PROVE  IInv'
    <2> DEFINE G == Tell(handles, {h}, <<"ERROR">>)
    <2>1. /\ G \in [Handles -> Handle] /\ \A g \in Handles : g # h => G[g] = handles[g]
          /\ G[h].at = "free"
      BY <1>1, ToldError
    <2> HIDE DEF G
    <2>2. Good(G, contents, IF Alone(r.obj) THEN CutOff(objects, r.obj) ELSE objects)
      BY <1>1, <2>1, ContextGone
    <2> QED BY <1>6, <2>2, BecomesGood DEF G
  <1> QED BY <1>3, <1>4, <1>5, <1>6 DEF Migrate

\* Moves, for a content that comes further
LEMMA MovesFurther ==
    ASSUME IInv, NEW c \in Contents, NEW from, NEW to, NEW m, Steps(from, to, m),
           contents[c].status = from, Moves(c, to, m), UNCHANGED objects
    PROVE  IInv' /\ Tells(handles, handles')
  <1>0. contents \in [Contents -> Content] /\ Good(handles, contents, objects)
    BY Parted DEF IInv
  <1>1. to \in Loaded /\ to # "ERROR"
    BY DEF Steps, Loaded
  <1> DEFINE R == [contents[c] EXCEPT !.status = to, !.source = FALSE, !.users = contents[c].users]
             D == [contents EXCEPT ![c] = R]
  <1>2. contents' = D
    BY <1>0, <1>1 DEF Moves
  <1>3. /\ D \in [Contents -> Content] /\ \A d \in Contents : d # c => D[d] = contents[d]
        /\ D[c].status = to /\ D[c].users = contents[c].users /\ D[c].obj = contents[c].obj
        /\ D[c].type = contents[c].type /\ D[c].quirks = contents[c].quirks
    <2>1. /\ R \in Content /\ R.status = to /\ R.users = contents[c].users
          /\ R.obj = contents[c].obj /\ R.type = contents[c].type
          /\ R.quirks = contents[c].quirks
      BY <1>0, <1>1 DEF Content
    <2> HIDE DEF R
    <2> QED BY <1>0, <2>1
  <1> HIDE DEF D
  <1>4. handles' = Tell(handles, contents[c].users, m)
    BY DEF Moves
  <1>5. Good(handles', D, objects) /\ Tells(handles, handles')
    BY <1>0, <1>3, <1>4, FurtherGood
  <1> QED BY <1>2, <1>5 DEF IInv

\* Moves, for a content that fails
LEMMA MovesError ==
    ASSUME IInv, NEW c \in Contents, contents[c].status = "LOADING",
           Moves(c, "ERROR", <<"ERROR">>), UNCHANGED objects
    PROVE  IInv' /\ Tells(handles, handles')
  <1>0. contents \in [Contents -> Content] /\ Good(handles, contents, objects)
    BY Parted DEF IInv
  <1> DEFINE R == [contents[c] EXCEPT !.status = "ERROR", !.source = FALSE, !.users = {}]
             D == [contents EXCEPT ![c] = R]
  <1>1. contents' = D
    BY <1>0 DEF Moves
  <1>2. /\ D \in [Contents -> Content] /\ \A d \in Contents : d # c => D[d] = contents[d]
        /\ D[c].status = "ERROR" /\ D[c].users = {} /\ D[c].obj = contents[c].obj
        /\ D[c].type = contents[c].type /\ D[c].quirks = contents[c].quirks
    <2>1. /\ R \in Content /\ R.status = "ERROR" /\ R.users = {}
          /\ R.obj = contents[c].obj /\ R.type = contents[c].type
          /\ R.quirks = contents[c].quirks
      BY <1>0 DEF Content
    <2> HIDE DEF R
    <2> QED BY <1>0, <2>1
  <1> HIDE DEF D
  <1>3. handles' = Tell(handles, contents[c].users, <<"ERROR">>)
    BY DEF Moves
  <1>4. Good(handles', D, objects) /\ Tells(handles, handles')
    BY <1>0, <1>2, <1>3, FailsGood
  <1> QED BY <1>1, <1>4 DEF IInv

LEMMA ConvertGood ==
    ASSUME IInv, NEW c \in Contents, Convert(c)
    PROVE  IInv' /\ Tells(handles, handles')
  <1>1. contents[c].status = "LOADING" /\ UNCHANGED objects
    BY DEF Convert
  <1>2. CASE Moves(c, "LOADING", <<>>)
    <2>1. Steps("LOADING", "LOADING", <<>>)
      BY DEF Steps
    <2> QED BY <1>1, <1>2, <2>1, MovesFurther
  <1>3. CASE Moves(c, "DONE", <<"READY", "DONE">>)
    <2>1. Steps("LOADING", "DONE", <<"READY", "DONE">>)
      BY DEF Steps
    <2> QED BY <1>1, <1>3, <2>1, MovesFurther
  <1>4. CASE Moves(c, "ERROR", <<"ERROR">>)
    BY <1>1, <1>4, MovesError
  <1> QED BY <1>2, <1>3, <1>4 DEF Convert

LEMMA AdvanceGood ==
    ASSUME IInv, NEW c \in Contents, Advance(c)
    PROVE  IInv' /\ Tells(handles, handles')
  <1>1. UNCHANGED objects
    BY DEF Advance
  <1>2. CASE contents[c].status = "LOADING" /\ Moves(c, "ERROR", <<"ERROR">>)
    BY <1>1, <1>2, MovesError
  <1>3. CASE contents[c].status = "LOADING" /\ Moves(c, "DONE", <<"READY", "DONE">>)
    <2>1. Steps("LOADING", "DONE", <<"READY", "DONE">>)
      BY DEF Steps
    <2> QED BY <1>1, <1>3, <2>1, MovesFurther
  <1>4. CASE contents[c].status = "LOADING" /\ Moves(c, "READY", <<"READY">>)
    <2>1. Steps("LOADING", "READY", <<"READY">>)
      BY DEF Steps
    <2> QED BY <1>1, <1>4, <2>1, MovesFurther
  <1>5. CASE contents[c].status = "READY" /\ Moves(c, "DONE", <<"DONE">>)
    <2>1. Steps("READY", "DONE", <<"DONE">>)
      BY DEF Steps
    <2> QED BY <1>1, <1>5, <2>1, MovesFurther
  <1> QED BY <1>2, <1>3, <1>4, <1>5 DEF Advance

LEMMA SourceErrorGood ==
    ASSUME IInv, NEW c \in Contents, SourceError(c)
    PROVE  IInv' /\ Tells(handles, handles')
  BY MovesError DEF SourceError

LEMMA ProcessFailsGood ==
    ASSUME IInv, NEW c \in Contents, ProcessFails(c)
    PROVE  IInv' /\ Tells(handles, handles')
  <1> DEFINE R == [contents[c] EXCEPT !.status = "ERROR", !.users = {}]
             C == [contents EXCEPT ![c] = R]
             H == Tell(handles, contents[c].users, <<"ERROR">>)
  <1>0. contents \in [Contents -> Content] /\ Good(handles, contents, objects)
    BY Parted DEF IInv
  <1>1. contents[c].status = "LOADING" /\ CutOffContent(C, c, H)
    <2>1. [contents EXCEPT ![c].status = "ERROR", ![c].users = {}] = C
      BY <1>0
    <2> QED BY <2>1 DEF ProcessFails
  <1>2. /\ C \in [Contents -> Content] /\ \A d \in Contents : d # c => C[d] = contents[d]
        /\ C[c].status = "ERROR" /\ C[c].users = {} /\ C[c].obj = contents[c].obj
        /\ C[c].type = contents[c].type /\ C[c].quirks = contents[c].quirks
    <2>1. /\ R \in Content /\ R.status = "ERROR" /\ R.users = {}
          /\ R.obj = contents[c].obj /\ R.type = contents[c].type
          /\ R.quirks = contents[c].quirks
      BY <1>0 DEF Content
    <2> HIDE DEF R
    <2> QED BY <1>0, <2>1
  <1> HIDE DEF C
  <1>3. Good(H, C, objects) /\ Tells(handles, H)
    BY <1>0, <1>1, <1>2, FailsGood
  <1>4. Linked(H, C, objects) /\ Once(C, Contents \ {c})
    BY <1>3 DEF Good, Once
  <1>5. handles' = H
    BY <1>1 DEF CutOffContent, Becomes
  <1> QED BY <1>1, <1>2, <1>3, <1>4, <1>5, CutOffContentGood

LEMMA ErrorIgnoredGood ==
    ASSUME IInv, NEW c \in Contents, ErrorIgnored(c)
    PROVE  IInv' /\ Tells(handles, handles')
  <1>0. contents \in [Contents -> Content] /\ Good(handles, contents, objects)
    BY Parted DEF IInv
  <1> DEFINE R == [contents[c] EXCEPT !.users = {}, !.lost = ~contents[c].source]
             D == [contents EXCEPT ![c] = R]
  <1>1. contents[c].status = "LOADING" /\ contents' = D /\ UNCHANGED objects
        /\ handles' = Tell(handles, contents[c].users, <<"ERROR">>)
    BY <1>0 DEF ErrorIgnored
  <1>2. /\ D \in [Contents -> Content] /\ \A d \in Contents : d # c => D[d] = contents[d]
        /\ D[c].status = contents[c].status /\ D[c].users = {} /\ D[c].obj = contents[c].obj
        /\ D[c].type = contents[c].type /\ D[c].quirks = contents[c].quirks
    <2>1. /\ R \in Content /\ R.status = contents[c].status /\ R.users = {}
          /\ R.obj = contents[c].obj /\ R.type = contents[c].type
          /\ R.quirks = contents[c].quirks
      BY <1>0 DEF Content
    <2> HIDE DEF R
    <2> QED BY <1>0, <2>1
  <1> HIDE DEF D
  <1>3. Good(handles', D, objects) /\ Tells(handles, handles')
    BY <1>0, <1>1, <1>2, FailsGood
  <1> QED BY <1>1, <1>3 DEF IInv

LEMMA CleanGood == IInv /\ Clean => IInv'
  <1> SUFFICES ASSUME IInv, Clean PROVE IInv'
    OBVIOUS
  <1> DEFINE C == [c \in Contents |-> IF Disposable(c) THEN NoContent ELSE contents[c]]
  <1>0. /\ handles \in [Handles -> Handle] /\ objects \in [Objects -> Object]
        /\ contents \in [Contents -> Content]
        /\ Paired(handles, contents) /\ Held(handles, contents, objects)
        /\ CutAlone(objects) /\ Whole(handles, contents, objects)
        /\ Told(handles, contents) /\ Once(contents, Contents)
    BY Parted
  <1>1. /\ NoContent \in Content /\ NoContent.status = "NONE" /\ NoContent.users = {}
    BY DEF NoContent, Content
  <1>2. /\ C \in [Contents -> Content]
        /\ \A c \in Contents : C[c] = contents[c] \/ (C[c] = NoContent /\ contents[c].users = {})
    BY <1>0, <1>1 DEF Disposable
  <1> HIDE DEF C
  <1>3. \A h \in Handles : handles[h].at = "content" =>
          handles[h].content \in Contents /\ C[handles[h].content] = contents[handles[h].content]
    BY <1>0, <1>2 DEF Paired
  <1>4. Paired(handles, C)
    BY <1>0, <1>1, <1>2 DEF Paired
  <1>5. Held(handles, C, objects)
    BY <1>0, <1>1, <1>2 DEF Held
  <1>6. Whole(handles, C, objects) /\ Told(handles, C)
    BY <1>0, <1>3 DEF Whole, Told
  <1>7. Once(C, Contents)
    BY <1>0, <1>1, <1>2 DEF Once, Loaded
  <1>8. Good(handles, C, objects)
    BY <1>0, <1>2, <1>4, <1>5, <1>6, <1>7 DEF Good, Linked, Typed
  <1>9. Becomes(handles, C, objects)
    BY DEF Clean, C
  <1> QED BY <1>8, <1>9, BecomesGood

LEMMA ReleaseGood ==
    ASSUME IInv, NEW h \in Handles, Release(h)
    PROVE  IInv'
  <1> DEFINE G == [handles EXCEPT ![h] = NoHandle]
  <1>0. /\ handles \in [Handles -> Handle] /\ objects \in [Objects -> Object]
        /\ contents \in [Contents -> Content]
        /\ Paired(handles, contents) /\ Held(handles, contents, objects)
        /\ CutAlone(objects) /\ Whole(handles, contents, objects)
        /\ Told(handles, contents) /\ Once(contents, Contents)
    BY Parted
  <1>1. /\ G \in [Handles -> Handle] /\ G[h].at = "free"
        /\ \A g \in Handles : g # h => G[g] = handles[g]
    BY <1>0 DEF Handle, NoHandle, Parts
  <1>2. Release(h) = \/ handles[h].at = "bare" /\ Becomes(G, contents, objects)
                     \/ h \in Nascent /\ AbortContext(h, G)
                     \/ /\ handles[h].at = "content"
                        /\ Becomes(G, [contents EXCEPT ![handles[h].content].users = @ \ {h}],
                                   objects)
    BY DEF Release
  <1> HIDE DEF G
  <1>3. ASSUME handles[h].at = "bare", Becomes(G, contents, objects)
        PROVE  IInv'
    <2>1. Good(G, contents, objects)
      BY <1>1, <1>3, DropGood DEF IInv
    <2> QED BY <1>3, <2>1, BecomesGood
  <1>4. ASSUME h \in Nascent, AbortContext(h, G)
        PROVE  IInv'
    <2>1. /\ Good(G, contents, objects)
          /\ Alone(handles[h].obj) => Good(G, contents, CutOff(objects, handles[h].obj))
      BY <1>1, <1>4, ContextGone
    <2> QED BY <1>4, <2>1, BecomesGood DEF AbortContext
  <1>5. ASSUME handles[h].at = "content",
               Becomes(G, [contents EXCEPT ![handles[h].content].users = @ \ {h}], objects)
        PROVE  IInv'
    <2> DEFINE c == handles[h].content
               C == [contents EXCEPT ![c].users = @ \ {h}]
    <2>1. c \in Contents
      BY <1>0, <1>5 DEF Paired
    <2>2. /\ C \in [Contents -> Content] /\ C[c].users = contents[c].users \ {h}
          /\ \A d \in Contents : d # c => C[d] = contents[d]
          /\ \A d \in Contents : /\ C[d].status = contents[d].status
                                 /\ C[d].obj = contents[d].obj /\ C[d].type = contents[d].type
                                 /\ C[d].quirks = contents[d].quirks
      BY <1>0, <2>1 DEF Content
    <2> HIDE DEF C
    <2>3. Paired(G, C)
      BY <1>0, <1>1, <1>5, <2>1, <2>2 DEF Paired
    <2>4. \A g \in Handles : G[g].at = "content" => G[g].content \in Contents /\ G[g] = handles[g]
      BY <1>0, <1>1 DEF Paired
    <2>5. Held(G, C, objects)
      BY <1>0, <1>1, <2>1, <2>2 DEF Held
    <2>6. Whole(G, C, objects)
      BY <1>0, <2>2, <2>4 DEF Whole
    <2>7. Told(G, C)
      BY <1>0, <1>1, <2>2, <2>4 DEF Told
    <2>8. Once(C, Contents)
      BY <1>0, <2>2 DEF Once
    <2>9. Good(G, C, objects)
      BY <1>0, <1>1, <2>2, <2>3, <2>5, <2>6, <2>7, <2>8 DEF Good, Linked, Typed
    <2> QED BY <1>5, <2>9, BecomesGood DEF C
  <1> QED BY <1>2, <1>3, <1>4, <1>5

\* A user aborts its content.
LEMMA AbortedGood ==
    ASSUME IInv, NEW h \in Handles, handles[h].at = "content"
    PROVE  LET H == [handles EXCEPT ![h].aborted = TRUE]
           IN /\ Good(H, contents, objects) /\ H[h].aborted
              /\ \A g \in Handles : /\ H[g].at = handles[g].at /\ H[g].told = handles[g].told
                                    /\ H[g].content = handles[g].content
  <1> DEFINE R == [handles[h] EXCEPT !.aborted = TRUE, !.content = handles[h].content]
             H == [handles EXCEPT ![h] = R]
  <1>0. /\ handles \in [Handles -> Handle] /\ objects \in [Objects -> Object]
        /\ contents \in [Contents -> Content]
        /\ Paired(handles, contents) /\ Held(handles, contents, objects)
        /\ CutAlone(objects) /\ Whole(handles, contents, objects)
        /\ Told(handles, contents) /\ Once(contents, Contents)
    BY Parted
  <1>1. /\ H \in [Handles -> Handle] /\ H[h].aborted
        /\ \A g \in Handles : /\ H[g].at = handles[g].at /\ H[g].content = handles[g].content
                              /\ H[g].obj = handles[g].obj /\ H[g].told = handles[g].told
                              /\ ~H[g].aborted => ~handles[g].aborted
    <2>1. /\ R \in Handle /\ R.aborted /\ R.at = handles[h].at /\ R.obj = handles[h].obj
          /\ R.content = handles[h].content /\ R.told = handles[h].told
      <3>1. handles[h] \in Handle /\ handles[h].content \in Contents
        BY <1>0 DEF Paired
      <3> QED BY <3>1, HandleAborted
    <2> HIDE DEF R
    <2> QED BY <1>0, <2>1
  <1>a. H = [handles EXCEPT ![h].aborted = TRUE]
    BY <1>0 DEF Handle
  <1> HIDE DEF H
  <1>2. Paired(H, contents) /\ Told(H, contents)
    BY <1>0, <1>1 DEF Paired, Told
  <1>3. Held(H, contents, objects)
    BY <1>0, <1>1 DEF Held
  <1>4. Whole(H, contents, objects)
    BY <1>0, <1>1 DEF Whole
  <1>5. Good(H, contents, objects)
    BY <1>0, <1>1, <1>2, <1>3, <1>4 DEF Good, Linked, Typed
  <1> QED BY <1>a, <1>1, <1>5

\* content_clone, for one of several users, which aborts it: n is the clone.
LEMMA CloneLinked ==
    ASSUME IInv, NEW h \in Handles, handles[h].at = "content", NEW n \in UnusedContents,
           contents[handles[h].content].status \in Loaded
    PROVE  LET c == handles[h].content
               H == [handles EXCEPT ![h].aborted = TRUE, ![h].content = n]
               C == [contents EXCEPT ![n] = [contents[c] EXCEPT !.users = {h}],
                                     ![c].users = @ \ {h}]
           IN /\ Linked(H, C, objects) /\ Once(C, Contents \ {n}) /\ C[n].status # "NONE"
              /\ C[n].users = {h} /\ H[h].aborted
  <1> DEFINE c == handles[h].content
             R == [handles[h] EXCEPT !.aborted = TRUE, !.content = n]
             H == [handles EXCEPT ![h] = R]
             N == [contents[c] EXCEPT !.users = {h}]
             M == [contents[c] EXCEPT !.users = @ \ {h}]
             C == [contents EXCEPT ![n] = N, ![c] = M]
  <1>0. /\ handles \in [Handles -> Handle] /\ objects \in [Objects -> Object]
        /\ contents \in [Contents -> Content]
        /\ Paired(handles, contents) /\ Held(handles, contents, objects)
        /\ CutAlone(objects) /\ Whole(handles, contents, objects)
        /\ Told(handles, contents) /\ Once(contents, Contents)
    BY Parted
  <1>1. /\ n \in Contents /\ c \in Contents /\ n # c /\ contents[n].users = {}
    BY <1>0 DEF UnusedContents, Cached, Paired, Held, Loaded
  <1>2. /\ R \in Handle /\ R.aborted /\ R.at = "content" /\ R.content = n
        /\ R.told = handles[h].told
    BY <1>0, <1>1, HandleAborted
  <1>3. /\ N \in Content /\ N.users = {h} /\ N.status = contents[c].status
        /\ N.obj = contents[c].obj /\ N.type = contents[c].type
        /\ N.quirks = contents[c].quirks
    BY <1>0, <1>1 DEF Content
  <1>4. /\ M \in Content /\ M.users = contents[c].users \ {h} /\ M.status = contents[c].status
        /\ M.obj = contents[c].obj /\ M.type = contents[c].type
        /\ M.quirks = contents[c].quirks
    BY <1>0, <1>1 DEF Content
  <1>5. /\ H = [handles EXCEPT ![h].aborted = TRUE, ![h].content = n]
        /\ C = [contents EXCEPT ![n] = [contents[c] EXCEPT !.users = {h}],
                                ![c].users = @ \ {h}]
    BY <1>0, <1>1
  <1>6. /\ H \in [Handles -> Handle] /\ H[h] = R
        /\ \A g \in Handles : g # h => H[g] = handles[g]
    BY <1>0, <1>2
  <1>7. /\ C \in [Contents -> Content] /\ C[n] = N /\ C[c] = M
        /\ \A d \in Contents : d # n /\ d # c => C[d] = contents[d]
    BY <1>0, <1>1, <1>3, <1>4
  <1> HIDE DEF R, H, N, M, C
  <1>8. \A g \in Handles : handles[g].at = "content" =>
          handles[g].content \in Contents /\ handles[g].content # n
    BY <1>0, <1>1 DEF Paired
  <1>9. Paired(H, C)
    <2> SUFFICES ASSUME NEW g \in Handles
                 PROVE  /\ H[g].at = "content" => H[g].content \in Contents
                        /\ \A d \in Contents :
                             g \in C[d].users <=> H[g].at = "content" /\ H[g].content = d
      BY DEF Paired
    <2>1. CASE g = h
      BY <1>0, <1>1, <1>2, <1>3, <1>4, <1>6, <1>7, <2>1 DEF Paired
    <2>2. CASE g # h
      BY <1>0, <1>1, <1>3, <1>4, <1>6, <1>7, <1>8, <2>2 DEF Paired
    <2> QED BY <2>1, <2>2
  <1>10. \A g \in Handles : H[g].at = "ctx" => H[g] = handles[g]
    BY <1>2, <1>6
  <1>11. Held(H, C, objects)
    <2>1. \A d \in Contents : d # n => /\ C[d].status = contents[d].status
                                       /\ C[d].obj = contents[d].obj
                                       /\ C[d].type = contents[d].type
                                       /\ C[d].users # {} => contents[d].users # {}
      BY <1>1, <1>4, <1>7
    <2>2. /\ C[n].status = contents[c].status /\ C[n].obj = contents[c].obj
          /\ C[n].type = contents[c].type
      BY <1>3, <1>7
    <2> QED BY <1>0, <1>1, <1>10, <2>1, <2>2 DEF Held
  <1>12. Whole(H, C, objects)
    <2>1. \A g \in Handles : g # h /\ H[g].at = "content" =>
            H[g] = handles[g] /\ C[H[g].content].obj = contents[H[g].content].obj
      BY <1>1, <1>4, <1>6, <1>7, <1>8
    <2> QED BY <1>0, <1>2, <1>6, <2>1 DEF Whole
  <1>13. Told(H, C)
    <2>1. \A g \in Handles : g # h =>
            /\ H[g] = handles[g]
            /\ H[g].at = "content" => C[H[g].content].status = contents[H[g].content].status
      BY <1>1, <1>4, <1>6, <1>7, <1>8
    <2>2. /\ H[h].at = "content" /\ H[h].told = handles[h].told
          /\ C[H[h].content].status = contents[c].status
      BY <1>2, <1>3, <1>6, <1>7
    <2> QED BY <1>0, <2>1, <2>2 DEF Told
  <1>14. Once(C, Contents \ {n})
    BY <1>0, <1>4, <1>7 DEF Once
  <1>15. C[n].status # "NONE" /\ C[n].users = {h} /\ H[h].aborted
    BY <1>2, <1>3, <1>6, <1>7 DEF Loaded
  <1>16. Linked(H, C, objects)
    BY <1>0, <1>6, <1>7, <1>9, <1>11, <1>12, <1>13 DEF Linked, Typed
  <1> QED BY <1>5, <1>14, <1>15, <1>16

\* A user of a content that is not shared aborts it.
LEMMA OnlyOne ==
    ASSUME IInv, NEW h \in Handles, handles[h].at = "content", Unshared(handles[h].content)
    PROVE  LET c == handles[h].content
               H == [handles EXCEPT ![h].aborted = TRUE]
           IN /\ c \in Contents /\ contents[c].users = {h}
              /\ Good(H, contents, objects) /\ H[h].aborted
              /\ \A g \in Handles : /\ H[g].at = handles[g].at /\ H[g].told = handles[g].told
                                    /\ H[g].content = handles[g].content
  <1> DEFINE c == handles[h].content
             H == [handles EXCEPT ![h].aborted = TRUE]
  <1>1. c \in Contents /\ h \in contents[c].users /\ contents[c].users \in SUBSET Handles
    BY Parted DEF Paired, Content
  <1>2. \A x \in contents[c].users : x = h
    BY <1>1, OnlyUser DEF Unshared
  <1>3. Good(H, contents, objects) /\ H[h].aborted
        /\ \A g \in Handles : /\ H[g].at = handles[g].at /\ H[g].told = handles[g].told
                              /\ H[g].content = handles[g].content
    BY AbortedGood
  <1> HIDE DEF H
  <1>4. contents[c].users = {h}
    BY <1>1, <1>2
  <1> QED BY <1>1, <1>3, <1>4 DEF H

\* html_stop, for the only user of a page
LEMMA StopGood ==
    ASSUME IInv, NEW h \in Handles, handles[h].at = "content",
           contents[handles[h].content].status = "READY", Unshared(handles[h].content),
           CutOffContent([contents EXCEPT ![handles[h].content].status = "DONE"],
                         handles[h].content,
                         Tell([handles EXCEPT ![h].aborted = TRUE], {h}, <<"DONE">>))
    PROVE  IInv' /\ Tells(handles, handles')
  <1> DEFINE c == handles[h].content
             H == [handles EXCEPT ![h].aborted = TRUE]
             D == [contents EXCEPT ![c].status = "DONE"]
             m == <<"DONE">>
             G == Tell(H, {h}, m)
  <1>0. contents \in [Contents -> Content]
    BY Parted
  <1>1. /\ c \in Contents /\ contents[c].users = {h} /\ H[h].aborted
        /\ Good(H, contents, objects)
        /\ \A g \in Handles : H[g].at = handles[g].at /\ H[g].told = handles[g].told
    BY OnlyOne
  <1>2. /\ D \in [Contents -> Content] /\ \A d \in Contents : d # c => D[d] = contents[d]
        /\ D[c].status = "DONE" /\ D[c].users = contents[c].users
        /\ D[c].obj = contents[c].obj /\ D[c].type = contents[c].type
        /\ D[c].quirks = contents[c].quirks
    BY <1>0, <1>1 DEF Content, Loaded
  <1>3. Steps("READY", "DONE", m)
    BY DEF Steps
  <1>4. G = Tell(H, contents[c].users, m)
    BY <1>1
  <1>5. contents[c].status = "READY" /\ CutOffContent(D, c, G)
    OBVIOUS
  <1> HIDE DEF D, G, c, H, m
  <1>6. /\ Good(G, D, objects) /\ StillAborted(H, G)
        /\ Tells(H, G)
    <2>1. c \in Contents /\ Good(H, contents, objects) /\ contents[c].status = "READY"
      BY <1>1, <1>5
    <2>2. ASSUME NEW from, NEW to, Steps(from, to, m), contents[c].status = from,
                 D[c].status = to
          PROVE  /\ Good(Tell(H, contents[c].users, m), D, objects)
                 /\ StillAborted(H, Tell(H, contents[c].users, m))
                 /\ Tells(H, Tell(H, contents[c].users, m))
      <3>1. D \in [Contents -> Content] /\ \A d \in Contents : d # c => D[d] = contents[d]
        BY <1>2
      <3>2. /\ D[c].users = contents[c].users /\ D[c].obj = contents[c].obj
            /\ D[c].type = contents[c].type /\ D[c].quirks = contents[c].quirks
        BY <1>2
      <3> QED BY <2>1, <2>2, <3>1, <3>2, FurtherGood
    <2>3. Steps("READY", "DONE", m) /\ D[c].status = "DONE"
      BY <1>2, <1>3
    <2> QED BY <1>4, <2>1, <2>2, <2>3
  <1>7. Linked(G, D, objects) /\ Once(D, Contents \ {c})
    BY <1>6 DEF Good, Once
  <1>8. \A g \in D[c].users : G[g].aborted
    BY <1>1, <1>2, <1>6 DEF StillAborted
  <1>9. handles' = G
    BY <1>5 DEF CutOffContent, Becomes
  <1>10. Tells(handles, G)
    BY <1>1, <1>6 DEF Tells, IsOpen
  <1>11. IInv'
    BY <1>1, <1>2, <1>5, <1>7, <1>8, CutOffContentGood
  <1> QED BY <1>9, <1>10, <1>11

LEMMA AbortGood ==
    ASSUME IInv, NEW h \in Handles, Abort(h)
    PROVE  IInv'
  <1> DEFINE c == handles[h].content
             H == [handles EXCEPT ![h].aborted = TRUE]
  <1>0. /\ handles \in [Handles -> Handle] /\ contents \in [Contents -> Content]
        /\ Paired(handles, contents)
    BY Parted
  <1>1. ASSUME h \in Nascent,
               AbortContext(h, [handles EXCEPT ![h] = [NoHandle EXCEPT !.at = "bare"]])
        PROVE  IInv'
    <2> DEFINE r == [NoHandle EXCEPT !.at = "bare"]
               G == [handles EXCEPT ![h] = r]
    <2>1. r \in Handle /\ r.at = "bare" /\ r.told = <<>>
      BY DEF Handle, NoHandle, Parts
    <2>2. /\ G \in [Handles -> Handle] /\ G[h].at = "bare" /\ G[h].told = <<>>
          /\ \A g \in Handles : g # h => G[g] = handles[g]
      BY <1>0, <2>1
    <2>3. AbortContext(h, G)
      BY <1>1
    <2> HIDE DEF G
    <2>4. /\ Good(G, contents, objects)
          /\ Alone(handles[h].obj) => Good(G, contents, CutOff(objects, handles[h].obj))
      BY <1>1, <2>2, ContextGone
    <2> QED BY <2>3, <2>4, BecomesGood DEF AbortContext
  <1>2. ASSUME handles[h].at = "content", Unshared(c)
        PROVE  /\ c \in Contents /\ contents[c].users = {h}
               /\ Good(H, contents, objects) /\ H[h].aborted
    BY <1>2, OnlyOne
  <1>3. ASSUME handles[h].at = "content", contents[c].status \in {"LOADING", "READY"},
               Unshared(c), CutOffContent(contents, c, H)
        PROVE  IInv'
    <2>1. /\ c \in Contents /\ contents[c].users = {h} /\ H[h].aborted
          /\ Good(H, contents, objects)
      BY <1>2, <1>3
    <2> HIDE DEF c, H
    <2>2. Linked(H, contents, objects) /\ Once(contents, Contents \ {c})
      BY <2>1 DEF Good, Once
    <2>3. contents[c].status # "NONE"
      BY <1>3 DEF c
    <2> QED BY <1>3, <2>1, <2>2, <2>3, CutOffContentGood
  <1>4. ASSUME handles[h].at = "content", contents[c].status = "READY", Unshared(c),
               CutOffContent([contents EXCEPT ![c].status = "DONE"], c, Tell(H, {h}, <<"DONE">>))
        PROVE  IInv'
    BY <1>4, StopGood
  <1>5. ASSUME handles[h].at = "content", contents[c].status \in {"LOADING", "READY"},
               NEW n \in UnusedContents,
               CutOffContent([contents EXCEPT ![n] = [contents[c] EXCEPT !.users = {h}],
                                              ![c].users = @ \ {h}], n,
                             [handles EXCEPT ![h].aborted = TRUE, ![h].content = n])
        PROVE  IInv'
    <2> DEFINE G == [handles EXCEPT ![h].aborted = TRUE, ![h].content = n]
               C == [contents EXCEPT ![n] = [contents[c] EXCEPT !.users = {h}],
                                     ![c].users = @ \ {h}]
    <2>1. contents[c].status \in Loaded
      BY <1>5 DEF Loaded
    <2>2. /\ Linked(G, C, objects) /\ Once(C, Contents \ {n}) /\ C[n].status # "NONE"
          /\ C[n].users = {h} /\ G[h].aborted
      BY <1>5, <2>1, CloneLinked
    <2>3. n \in Contents /\ CutOffContent(C, n, G)
      BY <1>5 DEF UnusedContents
    <2> HIDE DEF G, C
    <2>4. \A g \in C[n].users : G[g].aborted
      BY <2>2
    <2> QED BY <2>2, <2>3, <2>4, CutOffContentGood
  <1> QED BY <1>1, <1>3, <1>4, <1>5 DEF Abort

LEMMA NextGood == IInv /\ [Next]_vars => IInv'
  <1> SUFFICES ASSUME IInv, [Next]_vars PROVE IInv'
    OBVIOUS
  <1>1. ASSUME NEW h \in Handles, NEW q \in Requests, Retrieve(h, q) PROVE IInv'
    BY <1>1, RetrieveGood
  <1>2. ASSUME NEW h \in Handles, Migrate(h) \/ ContextError(h) \/ Release(h) \/ Abort(h)
        PROVE  IInv'
    BY <1>2, MigrateGood, ContextErrorGood, ReleaseGood, AbortGood
  <1>3. ASSUME NEW c \in Contents,
               \/ Convert(c) \/ Advance(c) \/ SourceError(c)
               \/ ProcessFails(c) \/ ErrorIgnored(c)
        PROVE  IInv'
    BY <1>3, ConvertGood, AdvanceGood, SourceErrorGood, ProcessFailsGood,
       ErrorIgnoredGood
  <1>4. ASSUME NEW o \in Objects, FetchEnds(o) \/ Stale(o) PROVE IInv'
    BY <1>4, FetchEndsGood, StaleGood
  <1>5. CASE Clean
    BY <1>5, CleanGood
  <1>6. CASE UNCHANGED vars
    BY <1>6 DEF IInv, vars
  <1> QED BY <1>1, <1>2, <1>3, <1>4, <1>5, <1>6 DEF Next

(* The inductive invariant: types, the two sides of handles, what is held, *)
(* what was cut short, and how far the users have been told (hlcache.c).   *)
THEOREM InductiveInvariant == Spec => []IInv
  BY InitGood, NextGood, PTL DEF Spec

(* A handle and the content it has know of each other, a content that is   *)
(* used has not failed, and what waits or is kept has a low-level object   *)
(* (hlcache_handle_retrieve, _release, _abort, hlcache_migrate_ctx).       *)
THEOREM TwoSidesAgree == Spec => []HlCacheInv
  <1>1. IInv => HlCacheInv
    <2> SUFFICES ASSUME IInv PROVE HlCacheInv
      OBVIOUS
    <2>1. Paired(handles, contents) /\ Held(handles, contents, objects)
      BY Parted
    <2> QED BY <2>1 DEF HlCacheInv, Paired, Held, Cached, Nascent, Loaded
  <1> QED BY <1>1, InductiveInvariant, PTL

(* Nothing is converted twice that could be shared (hlcache_find_content). *)
THEOREM Shared == Spec => []ConvertedOnce
  <1>1. IInv => ConvertedOnce
    <2> SUFFICES ASSUME IInv, NEW c \in Cached, NEW d \in Cached, c # d,
                        contents[c].obj = contents[d].obj,
                        {contents[c].status, contents[d].status} \cap {"ERROR"} = {}
                 PROVE  contents[c].type = "page" \/ contents[c].quirks # contents[d].quirks
      BY DEF ConvertedOnce
    <2>1. Once(contents, Contents) /\ contents \in [Contents -> Content]
      BY Parted
    <2>2. c \in Contents /\ d \in Contents /\ contents[c].status \in Loaded
          /\ contents[d].status \in Loaded
      BY <2>1 DEF Cached, Content
    <2> QED BY <2>1, <2>2 DEF Once
  <1> QED BY <1>1, InductiveInvariant, PTL

(* Nobody loses anything because another user aborts                       *)
(* (hlcache_handle_abort, content_clone, llcache_handle_abort).            *)
THEOREM NothingTaken == Spec => []WholeForOthers
  <1>1. IInv => WholeForOthers
    <2> SUFFICES ASSUME IInv PROVE WholeForOthers
      OBVIOUS
    <2>1. Whole(handles, contents, objects) /\ Held(handles, contents, objects)
      BY Parted
    <2> QED BY <2>1 DEF WholeForOthers, Whole, Held, Nascent
  <1> QED BY <1>1, InductiveInvariant, PTL

-----------------------------------------------------------------------------
(* The refinement of ContentUser, step by step *)
LEMMA TellsIsTell ==
    ASSUME Tells(handles, handles')
    PROVE  User!Tell
  <1> DEFINE t == [h \in Handles |-> handles[h].told]
             u == [h \in Handles |-> handles'[h].told]
             o == {h \in Handles : handles[h].at \in {"ctx", "content"}}
             p == {h \in Handles : handles'[h].at \in {"ctx", "content"}}
  <1>1. \A h \in Handles : /\ u[h] \in User!Beginnings /\ User!IsBeginning(t[h], u[h])
                           /\ u[h] # t[h] => h \in o
                           /\ h \in p => h \in o
    BY Growing DEF Tells, Grows, IsOpen
  <1>2. u \in [Handles -> User!Beginnings]
    BY <1>1
  <1> QED BY <1>1, <1>2 DEF User!Tell

\* Nothing is told to the users.
LEMMA QuietStep ==
    ASSUME \A h \in Handles : /\ handles'[h].told = handles[h].told
                              /\ IsOpen(handles'[h]) <=> IsOpen(handles[h])
    PROVE  /\ [h \in Handles |-> handles[h].told]' = [h \in Handles |-> handles[h].told]
           /\ {h \in Handles : handles[h].at \in {"ctx", "content"}}'
              = {h \in Handles : handles[h].at \in {"ctx", "content"}}
  BY DEF IsOpen

\* One handle changes, and its user is told more.
LEMMA OneIsTold ==
    ASSUME handles \in [Handles -> Handle], NEW h \in Handles, IsOpen(handles[h]),
           \A g \in Handles : g # h => handles'[g] = handles[g],
           Grows(handles[h].told, handles'[h].told)
    PROVE  User!Tell
  <1>1. \A g \in Handles : Grows(handles[g].told, handles[g].told)
    BY Unchanged DEF Handle
  <1>2. Tells(handles, handles')
    BY <1>1 DEF Tells
  <1> QED BY <1>2, TellsIsTell

\* One handle is given up.
LEMMA OneGivesUp ==
    ASSUME NEW h \in Handles, \A g \in Handles : g # h => handles'[g] = handles[g],
           handles'[h].told = <<>>, ~IsOpen(handles'[h])
    PROVE  User!GiveUp(h)
  BY DEF IsOpen, User!GiveUp

UserStep == [User!Next]_<<[h \in Handles |-> handles[h].told],
                          {h \in Handles : handles[h].at \in {"ctx", "content"}}>>

\* What a user was told before it has a content
LEMMA NothingYet ==
    ASSUME IInv, NEW h \in Nascent
    PROVE  /\ h \in Handles /\ IsOpen(handles[h]) /\ handles[h].told = <<>>
           /\ handles \in [Handles -> Handle]
  BY Parted DEF Nascent, IsOpen, Told

LEMMA RetrieveRefines ==
    ASSUME IInv, NEW h \in Handles, NEW q \in Requests, Retrieve(h, q)
    PROVE  UserStep
  <1>0. handles \in [Handles -> Handle] /\ handles[h].at = "free"
    BY Parted DEF Retrieve
  <1>1. PICK o \in Objects :
          handles' = [handles EXCEPT ![h] = [NoHandle EXCEPT
                       !.at = "ctx", !.obj = o, !.quirks = q.quirks, !.welcome = q.welcome]]
    BY DEF Retrieve, Becomes
  <1>2. /\ handles'[h].at = "ctx" /\ handles'[h].told = <<>>
        /\ \A g \in Handles : g # h => handles'[g] = handles[g]
    BY <1>0, <1>1 DEF NoHandle
  <1>3. User!Retrieve(h)
    BY <1>0, <1>2 DEF User!Retrieve
  <1> QED BY <1>3 DEF UserStep, User!Next

LEMMA MigrateRefines ==
    ASSUME IInv, NEW h \in Handles, Migrate(h)
    PROVE  UserStep
  <1> SUFFICES User!Tell
    BY DEF UserStep, User!Next
  <1>1. h \in Nascent
    BY DEF Migrate
  <1>2. /\ IsOpen(handles[h]) /\ handles[h].told = <<>> /\ handles \in [Handles -> Handle]
        /\ contents \in [Contents -> Content]
    BY <1>1, NothingYet, Parted
  <1>3. ASSUME NEW c \in Contents, NEW status \in Loaded, handles' = Joins(h, c, status)
        PROVE  User!Tell
    <2>1. /\ \A g \in Handles : g # h => handles'[g] = handles[g]
          /\ handles'[h].told = CaughtUp(status)
      BY <1>1, <1>3, JoinsTold
    <2>2. CaughtUp(status) \in Parts
      BY DEF CaughtUp, Parts, Loaded
    <2> QED BY <1>2, <2>1, <2>2, Unchanged, OneIsTold
  <1>4. ASSUME NEW t \in Parts, \A g \in Handles : g # h => handles'[g] = handles[g],
               handles'[h].told = t
        PROVE  User!Tell
    BY <1>2, <1>4, Unchanged, OneIsTold
  <1>5. CASE \E c \in UnusedContents : handles' = Joins(h, c, "LOADING")
    BY <1>3, <1>5 DEF UnusedContents, Loaded
  <1>6. CASE \E c \in Suitable(h) : handles' = Joins(h, c, contents[c].status)
    <2>1. \A c \in Suitable(h) : c \in Contents /\ contents[c].status \in Loaded
      BY <1>2 DEF Suitable, Matching, Cached, Content, Loaded
    <2> QED BY <1>3, <1>6, <2>1
  <1>7. CASE handles' = [handles EXCEPT ![h] = [NoHandle EXCEPT !.told = <<"DOWNLOAD">>]]
    <2>1. <<"DOWNLOAD">> \in Parts
      BY DEF Parts
    <2>2. /\ \A g \in Handles : g # h => handles'[g] = handles[g]
          /\ handles'[h].told = <<"DOWNLOAD">>
      BY <1>2, <1>7 DEF NoHandle
    <2> QED BY <1>4, <2>1, <2>2
  <1>8. CASE handles' = Tell(handles, {h}, <<"ERROR">>)
    <2>1. <<"ERROR">> \in Parts
      BY DEF Parts
    <2> QED BY <1>1, <1>4, <1>8, <2>1, ToldError
  <1> QED BY <1>5, <1>6, <1>7, <1>8 DEF Migrate, Becomes

LEMMA ContextErrorRefines ==
    ASSUME IInv, NEW h \in Handles, ContextError(h)
    PROVE  UserStep
  <1>1. h \in Nascent /\ handles' = Tell(handles, {h}, <<"ERROR">>)
    BY DEF ContextError, Becomes
  <1>2. IsOpen(handles[h]) /\ handles[h].told = <<>> /\ handles \in [Handles -> Handle]
    BY <1>1, NothingYet
  <1>3. <<"ERROR">> \in Parts
    BY DEF Parts
  <1>4. /\ \A g \in Handles : g # h => handles'[g] = handles[g]
        /\ handles'[h].told = <<"ERROR">>
    BY <1>1, ToldError
  <1>5. User!Tell
    BY <1>2, <1>3, <1>4, Unchanged, OneIsTold
  <1> QED BY <1>5 DEF UserStep, User!Next

LEMMA QuietRefines ==
    ASSUME \A h \in Handles : /\ handles'[h].told = handles[h].told
                              /\ IsOpen(handles'[h]) <=> IsOpen(handles[h])
    PROVE  UserStep
  BY QuietStep DEF UserStep

LEMMA ReleaseRefines ==
    ASSUME IInv, NEW h \in Handles, Release(h)
    PROVE  UserStep
  <1>0. handles \in [Handles -> Handle] /\ Told(handles, contents)
    BY Parted
  <1>1. handles' = [handles EXCEPT ![h] = NoHandle]
    BY DEF Release, AbortContext, Becomes
  <1>2. /\ handles'[h].told = <<>> /\ ~IsOpen(handles'[h])
        /\ \A g \in Handles : g # h => handles'[g] = handles[g]
    BY <1>0, <1>1 DEF NoHandle, IsOpen
  <1>3. User!GiveUp(h)
    BY <1>2, OneGivesUp
  <1> QED BY <1>3 DEF UserStep, User!Next

LEMMA AbortRefines ==
    ASSUME IInv, NEW h \in Handles, Abort(h)
    PROVE  UserStep
  <1> DEFINE c == handles[h].content
             H == [handles EXCEPT ![h].aborted = TRUE]
  <1>0. /\ handles \in [Handles -> Handle] /\ contents \in [Contents -> Content]
        /\ Paired(handles, contents)
    BY Parted
  <1>1. CASE handles' = [handles EXCEPT ![h] = [NoHandle EXCEPT !.at = "bare"]]
    <2>1. /\ handles'[h].told = <<>> /\ ~IsOpen(handles'[h])
          /\ \A g \in Handles : g # h => handles'[g] = handles[g]
      BY <1>0, <1>1 DEF NoHandle, IsOpen
    <2>2. User!GiveUp(h)
      BY <2>1, OneGivesUp
    <2> QED BY <2>2 DEF UserStep, User!Next
  <1>2. CASE handles[h].at = "content" /\ handles' = H
    <2>1. \A g \in Handles : H[g].at = handles[g].at /\ H[g].told = handles[g].told
      BY <1>2, AbortedGood
    <2> QED BY <1>2, <2>1, QuietRefines DEF IsOpen
  <1>3. CASE /\ handles[h].at = "content" /\ contents[c].status = "READY" /\ Unshared(c)
             /\ CutOffContent([contents EXCEPT ![c].status = "DONE"], c,
                              Tell(H, {h}, <<"DONE">>))
    <2>1. User!Tell
      BY <1>3, StopGood, TellsIsTell
    <2> QED BY <2>1 DEF UserStep, User!Next
  <1>4. CASE /\ handles[h].at = "content"
             /\ \E n \in UnusedContents :
                  handles' = [handles EXCEPT ![h].aborted = TRUE, ![h].content = n]
    <2>1. PICK n \in UnusedContents :
             handles' = [handles EXCEPT ![h].aborted = TRUE, ![h].content = n]
      BY <1>4
    <2>2. \A g \in Handles : handles'[g].at = handles[g].at /\ handles'[g].told = handles[g].told
      BY <1>0, <2>1 DEF Handle
    <2> QED BY <2>2, QuietRefines DEF IsOpen
  <1> QED BY <1>1, <1>2, <1>3, <1>4 DEF Abort, AbortContext, CutOffContent, Becomes

LEMMA NextRefines == IInv /\ [Next]_vars => UserStep
  <1> SUFFICES ASSUME IInv, [Next]_vars PROVE UserStep
    OBVIOUS
  <1>1. ASSUME Tells(handles, handles') PROVE UserStep
    BY <1>1, TellsIsTell DEF UserStep, User!Next
  <1>2. ASSUME handles' = handles PROVE UserStep
    BY <1>2, QuietRefines
  <1>3. ASSUME NEW h \in Handles, NEW q \in Requests, Retrieve(h, q) PROVE UserStep
    BY <1>3, RetrieveRefines
  <1>4. ASSUME NEW h \in Handles, Migrate(h) \/ ContextError(h) \/ Release(h) \/ Abort(h)
        PROVE  UserStep
    BY <1>4, MigrateRefines, ContextErrorRefines, ReleaseRefines, AbortRefines
  <1>5. ASSUME NEW c \in Contents,
               \/ Convert(c) \/ Advance(c) \/ SourceError(c)
               \/ ProcessFails(c) \/ ErrorIgnored(c)
        PROVE  UserStep
    BY <1>1, <1>5, ConvertGood, AdvanceGood, SourceErrorGood, ProcessFailsGood,
       ErrorIgnoredGood
  <1>6. ASSUME NEW o \in Objects, FetchEnds(o) \/ Stale(o) PROVE UserStep
    BY <1>2, <1>6 DEF FetchEnds, Stale, Becomes
  <1>7. CASE Clean
    BY <1>2, <1>7 DEF Clean, Becomes
  <1>8. CASE UNCHANGED vars
    BY <1>2, <1>8 DEF vars
  <1> QED BY <1>3, <1>4, <1>5, <1>6, <1>7, <1>8 DEF Next

LEMMA InitRefines == Init => User!Init
  BY DEF Init, NoHandle, User!Init

(* Whatever the cache does, the user of a handle is told LOADING, READY    *)
(* and DONE in this order, an error before READY, or a download, and is    *)
(* told nothing once it has given up (content_broadcast,                   *)
(* hlcache_migrate_ctx, hlcache_handle_release and _abort): every step of  *)
(* HlCache is one of ContentUser, or changes nothing that it sees.         *)
THEOREM RefinesContentUser == Spec => User!Order
  <1>1. IInv /\ [Next]_vars => UserStep
    BY NextRefines
  <1> QED BY <1>1, InitRefines, InductiveInvariant, PTL DEF Spec, UserStep, User!Order

=============================================================================
