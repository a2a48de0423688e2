------------------------- MODULE BrowserWindowProofs -------------------------
(***************************************************************************)
(* Theorems about BrowserWindow for any number of handles, every set of    *)
(* URLs, and wherever pages refresh to and servers redirect.  Every        *)
(* invariant of the window is a consequence of Good, below, which each     *)
(* step keeps until Back barges in: it says which handles the window owns, *)
(* how far each has come, and what was kept for each.                      *)
(***************************************************************************)
EXTENDS BrowserWindow, SequenceTheorems, TLAPS

(* What an open handle may have told: those of an error or a download are  *)
(* released at once.                                                       *)
Nothing == <<>>
Begun == <<"LOADING">>
Laid == <<"LOADING", "READY">>
Over == <<"LOADING", "READY", "DONE">>

Handle == [open : BOOLEAN, url : Urls \cup {None}, asked : Urls \cup {None},
           kind : {"page", "error", "ssl", "auth"}, internal : BOOLEAN,
           told : {Nothing, Begun, Laid, Over}]

Parameters == [url : Urls \cup {None}, add : BOOLEAN]

Browser == [loading_content : Handles \cup {None}, current_content : Handles \cup {None},
            loading_parameters : Parameters, current_parameters : Parameters,
            internal_nav : BOOLEAN, history_add : BOOLEAN, throbbing : BOOLEAN,
            wants : BOOLEAN, due : BOOLEAN, barged : BOOLEAN, forgot : BOOLEAN]

Entry == [url : Urls, shows : Urls \cup {None}, back : Nat, forward_pref : Nat]

(* The inductive invariant, of a window w as Becomes takes it, in parts. *)
Listed(hist) ==
    /\ hist.entries \in Seq(Entry) /\ hist.current \in 0..Len(hist.entries)
    /\ \A e \in 1..Len(hist.entries) :
         /\ hist.entries[e].back \in 0..Len(hist.entries)
         /\ hist.entries[e].forward_pref \in 0..Len(hist.entries)

\* A query page, or about:blank
Own(r) == r.kind # "page" \/ r.asked = Blank

Refreshes(r) == r.kind = "page" /\ RefreshTo[r.url] # None

\* A handle is one of the two that the window owns, as far as it says.
Owned(w) ==
    LET l == w.bw.loading_content
        c == w.bw.current_content
    IN /\ \A h \in Handles :
            IF w.handles[h].open
            THEN h \in {l, c} /\ w.handles[h].url \in Urls /\ w.handles[h].asked \in Urls
            ELSE w.handles[h] = NoHandle
       /\ l # None => w.handles[l].open /\ w.handles[l].told \in {Nothing, Begun}
       /\ c # None => w.handles[c].open /\ w.handles[c].told \in {Laid, Over}
       /\ l # None /\ c # None => w.handles[c].told = Over

\* What the browser retrieves by itself is its own, and never redirected.
OwnKept(r) == /\ r.internal => Own(r)
              /\ r.kind # "page" => r.internal
              /\ r.asked = Blank => r.url = Blank

Internal(w) == \A h \in Handles : OwnKept(w.handles[h])

\* Nothing but what it has retrieved itself can be laid out meanwhile.
Asks(w) ==
    LET c == w.bw.current_content
    IN w.bw.internal_nav =>
         ~w.bw.due /\ (c # None /\ w.handles[c].told = Laid => w.handles[c].internal)

Loads(w) ==
    LET l == w.bw.loading_content
    IN l # None =>
         /\ w.handles[l].internal <=> w.bw.internal_nav
         /\ w.bw.internal_nav => Own(w.handles[l]) /\ w.bw.loading_parameters.url # None
         /\ ~w.bw.internal_nav => w.handles[l].asked = w.bw.loading_parameters.url
         /\ w.handles[l].told = Begun => (w.bw.wants <=> Refreshes(w.handles[l]))

Shows(w) ==
    LET c == w.bw.current_content
    IN c # None =>
         /\ w.handles[c].told = Laid => (w.bw.wants <=> Refreshes(w.handles[c]))
         /\ w.handles[c].kind # "page" => w.bw.loading_parameters.url # None
         /\ ~Own(w.handles[c]) =>
              w.bw.forgot \/ w.bw.current_parameters.url = w.handles[c].asked

Throbs(w) ==
    LET c == w.bw.current_content
    IN w.bw.throbbing <=> w.bw.loading_content # None
                          \/ (c # None /\ w.handles[c].told = Laid)

Waits(w) ==
    LET c == w.bw.current_content
    IN w.bw.due => /\ w.bw.loading_content = None /\ c # None
                   /\ w.handles[c].told = Over /\ Refreshes(w.handles[c])

Histories == [entries : Seq(Entry), current : Nat]

Windows == [handles : [Handles -> Handle], bw : Browser, history : Histories]

Typed(w) == w \in Windows /\ Listed(w.history)

Good(w) == /\ Typed(w) /\ Owned(w) /\ Internal(w) /\ Asks(w) /\ Loads(w)
           /\ Shows(w) /\ Throbs(w) /\ Waits(w)

Settled == Good(Window)

\* After Back has barged in, only what is busy, and not due, is known.
IInv == Settled \/ (bw.barged /\ BusyIsShown /\ ~bw.due)

-----------------------------------------------------------------------------
(* What may be told next *)

LEMMA StagesAre ==
    /\ Nothing \in Seq({"LOADING", "READY", "DONE"})
    /\ Begun \in Seq({"LOADING", "READY", "DONE"})
    /\ Laid \in Seq({"LOADING", "READY", "DONE"})
    /\ Over \in Seq({"LOADING", "READY", "DONE"})
    /\ Len(Nothing) = 0 /\ Len(Begun) = 1 /\ Len(Laid) = 2 /\ Len(Over) = 3
  <1>1. Nothing \in Seq({"LOADING", "READY", "DONE"}) /\ Len(Nothing) = 0
    BY DEF Nothing
  <1>2. Begun \in Seq({"LOADING", "READY", "DONE"}) /\ Len(Begun) = 1
    BY DEF Begun
  <1>3. Laid \in Seq({"LOADING", "READY", "DONE"}) /\ Len(Laid) = 2
    BY DEF Laid
  <1>4. Over \in Seq({"LOADING", "READY", "DONE"}) /\ Len(Over) = 3
    BY DEF Over
  <1> QED BY <1>1, <1>2, <1>3, <1>4

LEMMA StoriesAre ==
    ASSUME NEW s \in User!Stories
    PROVE  s \in Seq({"LOADING", "READY", "DONE", "ERROR", "DOWNLOAD"})
  <1> DEFINE M == {"LOADING", "READY", "DONE", "ERROR", "DOWNLOAD"}
  <1>1. <<"LOADING", "READY", "DONE">> \in Seq(M)
    OBVIOUS
  <1>2. <<"LOADING", "ERROR">> \in Seq(M)
    OBVIOUS
  <1>3. <<"ERROR">> \in Seq(M) /\ <<"DOWNLOAD">> \in Seq(M)
    OBVIOUS
  <1> QED BY <1>1, <1>2, <1>3 DEF User!Stories

\* A sequence that grows by one within a story is the story so far.
LEMMA NextOfStory ==
    ASSUME NEW t \in {Nothing, Begun, Laid, Over}, NEW m, Append(t, m) \in User!Beginnings
    PROVE  \/ t = Nothing /\ m \in {"LOADING", "ERROR", "DOWNLOAD"}
           \/ t = Begun /\ m \in {"READY", "ERROR"}
           \/ t = Laid /\ m = "DONE"
  <1>1. t \in Seq({"LOADING", "READY", "DONE"})
    BY StagesAre
  <1>2. PICK s \in User!Stories : \E n \in 0..Len(s) : Append(t, m) = SubSeq(s, 1, n)
    BY DEF User!Beginnings
  <1>3. PICK n \in 0..Len(s) : Append(t, m) = SubSeq(s, 1, n)
    BY <1>2
  <1>4. s \in Seq({"LOADING", "READY", "DONE", "ERROR", "DOWNLOAD"})
    BY StoriesAre
  <1>5. Len(t) \in Nat /\ Len(s) \in Nat
    BY <1>1, <1>4
  <1>6. Len(Append(t, m)) = Len(t) + 1 /\ Append(t, m)[Len(t) + 1] = m
    BY <1>1
  <1>7. \A i \in 1..Len(t) : Append(t, m)[i] = t[i]
    BY <1>1
  <1>8. Len(SubSeq(s, 1, n)) = n /\ \A i \in 1..n : SubSeq(s, 1, n)[i] = s[i]
    BY <1>4
  <1>9. n = Len(t) + 1 /\ m = s[Len(t) + 1] /\ \A i \in 1..Len(t) : t[i] = s[i]
    BY <1>3, <1>5, <1>6, <1>7, <1>8
  <1>10. Len(t) + 1 <= Len(s)
    BY <1>5, <1>9
  <1> HIDE DEF User!Stories
  <1>11. CASE t = Nothing
    BY <1>9, <1>10, <1>11 DEF Nothing, User!Stories
  <1>12. CASE t = Begun
    BY <1>9, <1>10, <1>12 DEF Begun, User!Stories
  <1>13. CASE t = Laid
    BY <1>9, <1>10, <1>13 DEF Laid, User!Stories
  <1>14. CASE t = Over
    BY <1>9, <1>10, <1>14 DEF Over, User!Stories
  <1> QED BY <1>11, <1>12, <1>13, <1>14

LEMMA AppendIs ==
    /\ Append(Nothing, "LOADING") = Begun
    /\ Append(Begun, "READY") = Laid
    /\ Append(Laid, "DONE") = Over
  <1> DEFINE S == {"LOADING", "READY", "DONE"}
  <1>1. Append(Nothing, "LOADING") = Begun
    BY DEF Nothing, Begun
  <1>2. Append(Begun, "READY") = Laid
    <2> DEFINE s == Append(Begun, "READY")
    <2>1. s \in Seq(S) /\ Laid \in Seq(S)
      BY DEF Begun, Laid
    <2>2. Len(s) = 2 /\ Len(Laid) = 2
      BY DEF Begun, Laid
    <2>3. s[1] = Laid[1] /\ s[2] = Laid[2]
      BY DEF Begun, Laid
    <2>4. \A i \in 1..Len(s) : s[i] = Laid[i]
      BY <2>2, <2>3
    <2> QED BY <2>1, <2>2, <2>4, SeqEqual
  <1>3. Append(Laid, "DONE") = Over
    <2> DEFINE s == Append(Laid, "DONE")
    <2>1. s \in Seq(S) /\ Over \in Seq(S)
      BY DEF Laid, Over
    <2>2. Len(s) = 3 /\ Len(Over) = 3
      BY DEF Laid, Over
    <2>3. s[1] = Over[1] /\ s[2] = Over[2] /\ s[3] = Over[3]
      BY DEF Laid, Over
    <2>4. \A i \in 1..Len(s) : s[i] = Over[i]
      BY <2>2, <2>3
    <2> QED BY <2>1, <2>2, <2>4, SeqEqual
  <1> QED BY <1>1, <1>2, <1>3

LEMMA Distinct == /\ Nothing # Begun /\ Nothing # Laid /\ Nothing # Over
                  /\ Begun # Laid /\ Begun # Over /\ Laid # Over
  <1>1. Len(Nothing) = 0 /\ Len(Begun) = 1 /\ Len(Laid) = 2 /\ Len(Over) = 3
    BY StagesAre
  <1>2. \A s, t : Len(s) # Len(t) => s # t
    OBVIOUS
  <1>3. Nothing # Begun /\ Nothing # Laid /\ Nothing # Over
    BY DEF Nothing, Begun, Laid, Over
  <1>4. Begun # Laid /\ Begun # Over /\ Laid # Over
    BY <1>1, <1>2
  <1> QED BY <1>3, <1>4

LEMMA LastIs ==
    ASSUME NEW w, NEW h
    PROVE  /\ w.handles[h].told = Nothing => Last(w, h) = "NOTHING"
           /\ w.handles[h].told = Begun => Last(w, h) = "LOADING"
           /\ w.handles[h].told = Laid => Last(w, h) = "READY"
           /\ w.handles[h].told = Over => Last(w, h) = "DONE"
  <1>1. /\ Nothing = <<>> /\ Begun[1] = "LOADING" /\ Laid[2] = "READY" /\ Over[3] = "DONE"
        /\ Begun # <<>> /\ Laid # <<>> /\ Over # <<>>
    BY StagesAre, Distinct DEF Nothing, Begun, Laid, Over
  <1> QED BY <1>1, StagesAre DEF Last
-----------------------------------------------------------------------------
(* The history.  Of what the window shows, it has only what was kept.      *)

\* v is w but for its history.
SameBut(w, v) == v \in Windows /\ v.handles = w.handles /\ v.bw = w.bw

LEMMA SameHolds ==
    ASSUME NEW w, NEW v, SameBut(w, v), Listed(v.history)
    PROVE  /\ Typed(v)
           /\ Owned(w) => Owned(v)
           /\ Internal(w) => Internal(v)
           /\ Asks(w) => Asks(v)
           /\ Loads(w) => Loads(v)
           /\ Shows(w) => Shows(v)
           /\ Throbs(w) => Throbs(v)
           /\ Waits(w) => Waits(v)
  BY DEF SameBut, Typed, Owned, Internal, Asks, Loads, Shows, Throbs, Waits

LEMMA UpdatedIs ==
    ASSUME NEW w, Typed(w), NEW h \in Handles
    PROVE  /\ SameBut(w, Updated(w, h)) /\ Listed(Updated(w, h).history)
           /\ Updated(w, h).history.current = w.history.current
           /\ Len(Updated(w, h).history.entries) = Len(w.history.entries)
  <1> DEFINE e == w.history.current
             E == w.history.entries
             r == E[e]
             s == IF w.handles[h].kind = "page" THEN w.handles[h].url ELSE None
  <1>1. w \in Windows /\ w.history \in Histories /\ w.handles \in [Handles -> Handle]
    BY DEF Typed, Windows
  <1>2. CASE e = 0
    <2>1. Updated(w, h) = w
      BY <1>2 DEF Updated
    <2> QED BY <1>1, <2>1 DEF Typed, SameBut
  <1>3. CASE e # 0
    <2>1. E \in Seq(Entry) /\ e \in 1..Len(E)
      BY <1>1, <1>3 DEF Typed, Listed, Histories
    <2>2. r \in Entry /\ s \in Urls \cup {None}
      BY <1>1, <2>1 DEF Handle
    <2> DEFINE q == [r EXCEPT !.shows = s]
               F == [E EXCEPT ![e] = q]
               k == [w.history EXCEPT !.entries = F]
               v == [w EXCEPT !.history = k]
    <2>3. q \in Entry /\ q.back = r.back /\ q.forward_pref = r.forward_pref
      BY <2>2 DEF Entry
    <2>4. F \in Seq(Entry) /\ Len(F) = Len(E)
      BY <2>1, <2>3
    <2>5. \A i \in 1..Len(E) : F[i] = IF i = e THEN q ELSE E[i]
      BY <2>1
    <2>6. k \in Histories /\ k.entries = F /\ k.current = e
      BY <1>1, <2>4 DEF Histories
    <2>7. v \in Windows /\ v.handles = w.handles /\ v.bw = w.bw /\ v.history = k
      BY <1>1, <2>6 DEF Windows
    <2>8. Updated(w, h) = v
      BY <1>3 DEF Updated
    <2>9. Listed(k)
      BY <2>1, <2>3, <2>4, <2>5, <2>6 DEF Typed, Listed
    <2> HIDE DEF v, k, F, q
    <2> QED BY <2>4, <2>6, <2>7, <2>8, <2>9 DEF SameBut
  <1> QED BY <1>2, <1>3

LEMMA AddedIs ==
    ASSUME NEW w, Typed(w), NEW h \in Handles, w.handles[h].url \in Urls
    PROVE  SameBut(w, Added(w, h)) /\ Listed(Added(w, h).history)
  <1> DEFINE e == w.history.current
             E == w.history.entries
             n == Len(E) + 1
             url == w.handles[h].url
             entry == [url |-> url, shows |-> url, back |-> e, forward_pref |-> 0]
             q == [E[e] EXCEPT !.forward_pref = n]
             F == IF e = 0 THEN E ELSE [E EXCEPT ![e] = q]
             k == [entries |-> Append(F, entry), current |-> n]
             v == [w EXCEPT !.history = k]
  <1>1. /\ w \in Windows /\ w.history \in Histories
        /\ E \in Seq(Entry) /\ Len(E) \in Nat /\ e \in 0..Len(E)
    BY DEF Typed, Listed, Windows, Histories
  <1>2. CASE e # 0 /\ E[e].url = url
    <2>1. Added(w, h) = Updated(w, h)
      BY <1>2 DEF Added
    <2> QED BY <2>1, UpdatedIs
  <1>3. CASE ~(e # 0 /\ E[e].url = url)
    <2>1. entry \in Entry /\ entry.back = e /\ entry.forward_pref = 0
      BY <1>1 DEF Entry
    <2>2. /\ F \in Seq(Entry) /\ Len(F) = Len(E)
          /\ \A i \in 1..Len(E) : F[i].back \in 0..Len(E) /\ F[i].forward_pref \in 0..n
      <3>1. CASE e = 0
        BY <1>1, <3>1 DEF Typed, Listed
      <3>2. CASE e # 0
        <4>1. E[e] \in Entry
          BY <1>1, <3>2
        <4>2. q \in Entry /\ q.back = E[e].back /\ q.forward_pref = n
          <5> DEFINE r == E[e]
          <5>1. r \in Entry /\ n \in Nat
            BY <1>1, <4>1
          <5> HIDE DEF r, n
          <5>2. LET p == [r EXCEPT !.forward_pref = n]
                IN p \in Entry /\ p.back = r.back /\ p.forward_pref = n
            BY <5>1 DEF Entry
          <5> QED BY <5>2 DEF r
        <4>3. F = [E EXCEPT ![e] = q]
          BY <3>2
        <4> HIDE DEF q, F
        <4>4. e \in 1..Len(E)
          BY <1>1, <3>2
        <4>5. F \in Seq(Entry) /\ Len(F) = Len(E)
          BY <1>1, <4>2, <4>3, <4>4
        <4>6. \A i \in 1..Len(E) : F[i] = IF i = e THEN q ELSE E[i]
          BY <1>1, <4>3, <4>4
        <4> QED BY <1>1, <4>2, <4>5, <4>6 DEF Typed, Listed
      <3> QED BY <3>1, <3>2
    <2> HIDE DEF F, entry
    <2>3. Append(F, entry) \in Seq(Entry) /\ Len(Append(F, entry)) = n
      BY <1>1, <2>1, <2>2
    <2>4. \A i \in 1..n : Append(F, entry)[i] = IF i = n THEN entry ELSE F[i]
      BY <1>1, <2>1, <2>2
    <2>5. k \in Histories /\ k.entries = Append(F, entry) /\ k.current = n
      BY <1>1, <2>3 DEF Histories
    <2> HIDE DEF k
    <2>6. Listed(k)
      BY <1>1, <2>1, <2>2, <2>3, <2>4, <2>5 DEF Listed
    <2>7. v \in Windows /\ v.handles = w.handles /\ v.bw = w.bw /\ v.history = k
      BY <1>1, <2>5 DEF Windows
    <2>8. Added(w, h) = v
      BY <1>3 DEF Added, k, F, entry
    <2> HIDE DEF v
    <2> QED BY <2>6, <2>7, <2>8 DEF SameBut
  <1> QED BY <1>2, <1>3

-----------------------------------------------------------------------------
(* What is done, stopped and released *)

LEMMA ContentDoneIs ==
    ASSUME NEW w, Typed(w), w.bw.current_content \in Handles
    PROVE  /\ Typed(ContentDone(w)) /\ ContentDone(w).handles = w.handles
           /\ ContentDone(w).bw = [w.bw EXCEPT !.throbbing = FALSE, !.due = @ \/ w.bw.wants]
  <1> DEFINE u == IF w.bw.internal_nav THEN w ELSE Updated(w, w.bw.current_content)
             b == [w.bw EXCEPT !.throbbing = FALSE, !.due = @ \/ w.bw.wants]
             v == [u EXCEPT !.bw = b]
  <1>1. SameBut(w, u) /\ Listed(u.history)
    BY UpdatedIs DEF Typed, SameBut
  <1>2. w.bw \in Browser
    BY DEF Typed, Windows
  <1>3. b \in Browser
    BY <1>2 DEF Browser
  <1> HIDE DEF u, b
  <1>4. v \in Windows /\ v.handles = u.handles /\ v.history = u.history /\ v.bw = b
    BY <1>1, <1>3 DEF SameBut, Windows
  <1>5. ContentDone(w) = v
    <2>1. u \in Windows /\ u.bw = w.bw
      BY <1>1 DEF SameBut
    <2> QED BY <2>1 DEF ContentDone, u, b, Windows
  <1> HIDE DEF v
  <1> QED BY <1>1, <1>4, <1>5 DEF SameBut, Typed, b

LEMMA NoHandleIs == /\ NoHandle \in Handle /\ ~NoHandle.open /\ NoHandle.told = Nothing
                    /\ OwnKept(NoHandle)
  BY BrowserWindowAssumption DEF NoHandle, Handle, Nothing, OwnKept

LEMMA ReleasedIs ==
    ASSUME NEW w, Typed(w), NEW h \in Handles \cup {None}
    PROVE  /\ Typed(Released(w, h)) /\ Released(w, h).bw = w.bw
           /\ \A g \in Handles : Released(w, h).handles[g] = IF g = h THEN NoHandle
                                                             ELSE w.handles[g]
  <1> DEFINE H == [w.handles EXCEPT ![h] = NoHandle]
             v == [w EXCEPT !.handles = H]
  <1>1. w \in Windows /\ w.handles \in [Handles -> Handle] /\ None \notin Handles
    BY BrowserWindowAssumption DEF Typed, Windows
  <1>2. CASE h = None
    BY <1>1, <1>2 DEF Released
  <1>3. CASE h # None
    <2>1. H \in [Handles -> Handle]
      BY <1>1, NoHandleIs
    <2>2. \A g \in Handles : H[g] = IF g = h THEN NoHandle ELSE w.handles[g]
      BY <1>1
    <2>3. Released(w, h) = v
      BY <1>3 DEF Released
    <2> HIDE DEF H
    <2>4. v \in Windows /\ v.handles = H /\ v.bw = w.bw /\ v.history = w.history
      BY <1>1, <2>1 DEF Windows
    <2> HIDE DEF v
    <2> QED BY <2>2, <2>3, <2>4 DEF Typed
  <1> QED BY <1>2, <1>3

\* w with the browser b; only what is not in the history can differ
With(w, b) == [w EXCEPT !.bw = b]

LEMMA WithIs ==
    ASSUME NEW w, Typed(w), NEW b \in Browser
    PROVE  /\ Typed(With(w, b)) /\ With(w, b).bw = b /\ With(w, b).handles = w.handles
           /\ With(w, b).history = w.history
  <1>1. With(w, b) \in Windows
    BY DEF Typed, Windows, With
  <1>2. With(w, b).bw = b /\ With(w, b).handles = w.handles /\ With(w, b).history = w.history
    BY DEF Typed, Windows, With
  <1> QED BY <1>1, <1>2 DEF Typed

\* A handle that was told all of t
Knows(r, t) == [r EXCEPT !.told = t]

LEMMA KnowsIs ==
    ASSUME NEW r \in Handle, NEW t \in {Nothing, Begun, Laid, Over}
    PROVE  /\ Knows(r, t) \in Handle /\ Knows(r, t).told = t /\ Knows(r, t).url = r.url
           /\ Knows(r, t).kind = r.kind /\ Knows(r, t).open = r.open
           /\ Knows(r, t).internal = r.internal /\ Knows(r, t).asked = r.asked
           /\ r.told = t => Knows(r, t) = r
  <1>1. Knows(r, t) \in Handle
    BY DEF Handle, Knows
  <1>2. /\ Knows(r, t).told = t /\ Knows(r, t).url = r.url /\ Knows(r, t).kind = r.kind
    BY DEF Handle, Knows
  <1>3. /\ Knows(r, t).open = r.open /\ Knows(r, t).internal = r.internal
        /\ Knows(r, t).asked = r.asked
    BY DEF Handle, Knows
  <1>4. r.told = t => Knows(r, t) = r
    BY DEF Handle, Knows
  <1> QED BY <1>1, <1>2, <1>3, <1>4

\* Handle h of w is told m.
Told(w, h, m) == [w EXCEPT !.handles[h].told = Append(@, m)]

LEMMA ToldIs ==
    ASSUME NEW w, Typed(w), NEW h \in Handles, NEW m, NEW t \in {Nothing, Begun, Laid, Over},
           Append(w.handles[h].told, m) = t
    PROVE  /\ Typed(Told(w, h, m)) /\ Told(w, h, m).bw = w.bw
           /\ \A g \in Handles : Told(w, h, m).handles[g] = IF g = h THEN Knows(w.handles[h], t)
                                                            ELSE w.handles[g]
  <1> DEFINE r == Knows(w.handles[h], t)
             H == [w.handles EXCEPT ![h] = r]
             v == [w EXCEPT !.handles = H]
  <1>1. w \in Windows /\ w.handles \in [Handles -> Handle]
    BY DEF Typed, Windows
  <1>2. r \in Handle
    BY <1>1, KnowsIs
  <1>3. Told(w, h, m) = v
    BY <1>1 DEF Told, Knows
  <1> HIDE DEF r
  <1>4. H \in [Handles -> Handle] /\ \A g \in Handles : H[g] = IF g = h THEN r ELSE w.handles[g]
    BY <1>1, <1>2
  <1> HIDE DEF H
  <1>5. v \in Windows /\ v.handles = H /\ v.bw = w.bw /\ v.history = w.history
    BY <1>1, <1>4 DEF Windows
  <1> HIDE DEF v
  <1> QED BY <1>3, <1>4, <1>5 DEF Typed, r

\* b but for the busy indicator and the refresh
SameTask(b, d) ==
    d \in Browser /\ [d EXCEPT !.throbbing = FALSE, !.due = FALSE]
                      = [b EXCEPT !.throbbing = FALSE, !.due = FALSE]

LEMMA AbortedIs ==
    ASSUME NEW w, Typed(w), NEW c \in Handles \cup {None}, w.bw.current_content = c,
           c # None => w.handles[c].told \in {Laid, Over}
    PROVE  /\ Typed(Aborted(w)) /\ SameTask(w.bw, Aborted(w).bw)
           /\ \A g \in Handles : Aborted(w).handles[g] = IF g = c THEN Knows(w.handles[c], Over)
                                                         ELSE w.handles[g]
  <1>1. /\ None \notin Handles /\ w.bw \in Browser
        /\ \A g \in Handles : w.handles[g] \in Handle
    BY BrowserWindowAssumption DEF Typed, Windows
  <1>2. CASE c = None
    <2>1. Aborted(w) = w
      BY <1>2 DEF Aborted
    <2> QED BY <1>1, <1>2, <2>1 DEF SameTask
  <1>3. CASE c # None /\ w.handles[c].told = Over
    <2>1. Last(w, c) # "READY"
      BY <1>3, LastIs
    <2>2. Aborted(w) = w
      BY <2>1 DEF Aborted
    <2>3. Knows(w.handles[c], Over) = w.handles[c]
      BY <1>1, <1>3, KnowsIs
    <2> QED BY <1>1, <1>3, <2>2, <2>3 DEF SameTask
  <1>4. CASE c # None /\ w.handles[c].told = Laid
    <2> DEFINE u == Told(w, c, "DONE")
    <2>1. Last(w, c) = "READY"
      BY <1>4, LastIs
    <2>2. Aborted(w) = ContentDone(u)
      BY <1>4, <2>1 DEF Aborted, Told
    <2>3. /\ Typed(u) /\ u.bw = w.bw
          /\ \A g \in Handles : u.handles[g] = IF g = c THEN Knows(w.handles[c], Over)
                                              ELSE w.handles[g]
      <3>1. /\ Append(w.handles[c].told, "DONE") = Over /\ Typed(w) /\ c \in Handles
            /\ Over \in {Nothing, Begun, Laid, Over}
        BY <1>4, AppendIs
      <3> QED BY ONLY <3>1, ToldIs
    <2> HIDE DEF u
    <2>4. /\ Typed(ContentDone(u)) /\ ContentDone(u).handles = u.handles
          /\ ContentDone(u).bw = [u.bw EXCEPT !.throbbing = FALSE, !.due = @ \/ u.bw.wants]
      BY <1>1, <1>4, <2>3, ContentDoneIs
    <2>5. ContentDone(u).bw \in Browser
      BY <2>4 DEF Typed, Windows
    <2>6. SameTask(w.bw, ContentDone(u).bw)
      <3> DEFINE b == w.bw
                 x == b.due \/ b.wants
                 d == [b EXCEPT !.throbbing = FALSE, !.due = x]
      <3>1. ContentDone(u).bw = d /\ b \in Browser
        BY <1>1, <2>3, <2>4
      <3> HIDE DEF b, x
      <3>2. [d EXCEPT !.throbbing = FALSE, !.due = FALSE]
            = [b EXCEPT !.throbbing = FALSE, !.due = FALSE]
        BY <3>1 DEF Browser
      <3> QED BY <2>5, <3>1, <3>2 DEF SameTask, b
    <2> QED BY <2>2, <2>3, <2>4, <2>6
  <1> QED BY <1>2, <1>3, <1>4

Quieted(b) == [b EXCEPT !.loading_content = None, !.due = FALSE, !.throbbing = FALSE]

LEMMA QuietedIs ==
    ASSUME NEW b \in Browser
    PROVE  /\ Quieted(b) \in Browser /\ Quieted(b).loading_content = None
           /\ Quieted(b).current_content = b.current_content
           /\ Quieted(b).loading_parameters = b.loading_parameters
           /\ Quieted(b).current_parameters = b.current_parameters
           /\ (Quieted(b).internal_nav <=> b.internal_nav) /\ (Quieted(b).wants <=> b.wants)
           /\ ~Quieted(b).throbbing /\ ~Quieted(b).due /\ (Quieted(b).forgot <=> b.forgot)
  <1>1. Quieted(b) \in Browser
    BY DEF Quieted, Browser
  <1>2. /\ Quieted(b).loading_content = None /\ Quieted(b).current_content = b.current_content
        /\ Quieted(b).loading_parameters = b.loading_parameters
        /\ Quieted(b).current_parameters = b.current_parameters
    BY DEF Quieted, Browser
  <1>3. (Quieted(b).internal_nav <=> b.internal_nav) /\ (Quieted(b).wants <=> b.wants)
    BY DEF Quieted, Browser
  <1>4. ~Quieted(b).throbbing /\ ~Quieted(b).due /\ (Quieted(b).forgot <=> b.forgot)
    BY DEF Quieted, Browser
  <1> QED BY <1>1, <1>2, <1>3, <1>4

\* browser_window_stop leaves only what is shown, and has it done.
LEMMA StoppedIs ==
    ASSUME NEW w, Good(w), NEW c \in Handles \cup {None}, w.bw.current_content = c
    PROVE  /\ Typed(Stopped(w)) /\ Stopped(w).bw = Quieted(w.bw)
           /\ \A g \in Handles : Stopped(w).handles[g] = IF g = c THEN Knows(w.handles[c], Over)
                                                         ELSE NoHandle
  <1> DEFINE l == w.bw.loading_content
             r == Released(w, l)
             b == [w.bw EXCEPT !.loading_content = None]
             u == With(r, b)
             a == Aborted(u)
  <1>1. /\ Typed(w) /\ Owned(w) /\ None \notin Handles
        /\ w.bw \in Browser /\ l \in Handles \cup {None}
    BY BrowserWindowAssumption DEF Good, Typed, Windows, Browser
  <1>2. /\ Typed(r) /\ r.bw = w.bw
        /\ \A g \in Handles : r.handles[g] = IF g = l THEN NoHandle ELSE w.handles[g]
    BY <1>1, ReleasedIs
  <1>3. b \in Browser /\ b.current_content = c
    BY <1>1 DEF Browser
  <1> HIDE DEF r, b
  <1>4. Typed(u) /\ u.bw = b /\ u.handles = r.handles
    BY <1>2, <1>3, WithIs
  <1>5. c # None => c # l
    BY <1>1, Distinct DEF Owned
  <1>6. /\ c # None => u.handles[c] = w.handles[c] /\ u.handles[c].told \in {Laid, Over}
        /\ \A g \in Handles : g # c => u.handles[g] = NoHandle
    BY <1>1, <1>2, <1>4, <1>5 DEF Owned
  <1> HIDE DEF u
  <1>7. /\ Typed(a) /\ SameTask(b, a.bw)
        /\ \A g \in Handles : a.handles[g] = IF g = c THEN Knows(u.handles[c], Over)
                                            ELSE u.handles[g]
    BY <1>3, <1>4, <1>6, AbortedIs
  <1>8. Stopped(w) = [a EXCEPT !.bw.due = FALSE, !.bw.throbbing = FALSE]
    <2>1. u = [r EXCEPT !.bw.loading_content = None]
      BY <1>2 DEF u, With, b, Typed, Windows
    <2> QED BY <2>1 DEF Stopped, r
  <1> HIDE DEF a, l
  <1>9. Quieted(w.bw) = [a.bw EXCEPT !.due = FALSE, !.throbbing = FALSE]
    <2>1. Quieted(w.bw) = [b EXCEPT !.throbbing = FALSE, !.due = FALSE]
      BY <1>1 DEF Quieted, b, Browser
    <2>2. a.bw \in Browser
      BY <1>7 DEF SameTask
    <2>3. [a.bw EXCEPT !.throbbing = FALSE, !.due = FALSE]
          = [a.bw EXCEPT !.due = FALSE, !.throbbing = FALSE]
      BY <2>2 DEF Browser
    <2> QED BY <1>7, <2>1, <2>3 DEF SameTask
  <1>10. Stopped(w) = With(a, Quieted(w.bw))
    BY <1>7, <1>8, <1>9 DEF With, Typed, Windows
  <1>11. Quieted(w.bw) \in Browser
    BY <1>1, QuietedIs
  <1>12. Typed(Stopped(w)) /\ Stopped(w).bw = Quieted(w.bw) /\ Stopped(w).handles = a.handles
    BY <1>7, <1>10, <1>11, WithIs
  <1> QED BY <1>1, <1>6, <1>7, <1>12

-----------------------------------------------------------------------------
(* Retrieving from a window that rests *)

Idle(w) == /\ Typed(w) /\ Owned(w) /\ Internal(w) /\ Shows(w)
           /\ w.bw.loading_content = None /\ ~w.bw.due
           /\ w.bw.current_content # None => w.handles[w.bw.current_content].told = Over

\* What may be retrieved, as a page or a query page
Fits(w, kind, p) ==
    /\ kind \in {"page", "error", "ssl", "auth"} /\ p \in Parameters /\ p.url \in Urls
    /\ kind = "page" => ~w.bw.throbbing
    /\ kind # "page" => w.bw.internal_nav
    /\ w.bw.internal_nav => kind # "page" \/ p.url = Blank
    /\ w.bw.internal_nav => w.bw.loading_parameters.url # None
    /\ ~w.bw.internal_nav => p.url = w.bw.loading_parameters.url

LEMMA Launched ==
    ASSUME NEW w, Idle(w), NEW kind, NEW p, Fits(w, kind, p), kind = "page" /\ p.url \in Foreign
    PROVE  Good(Fetch(w, kind, p))
  <1> DEFINE b == w.bw
             d == [b EXCEPT !.history_add = p.add]
             v == With(w, d)
  <1>1. Typed(w) /\ b \in Browser /\ p.add \in BOOLEAN
    BY DEF Idle, Typed, Windows, Fits, Parameters
  <1>2. d \in Browser
    BY <1>1 DEF Browser
  <1>3. /\ d.loading_content = b.loading_content /\ d.current_content = b.current_content
        /\ d.loading_parameters = b.loading_parameters
        /\ d.current_parameters = b.current_parameters
    BY <1>1 DEF Browser
  <1>4. /\ (d.internal_nav <=> b.internal_nav) /\ (d.throbbing <=> b.throbbing)
        /\ (d.wants <=> b.wants) /\ (d.due <=> b.due) /\ (d.forgot <=> b.forgot)
    BY <1>1 DEF Browser
  <1> HIDE DEF d
  <1>5. Typed(v) /\ v.bw = d /\ v.handles = w.handles
    BY <1>1, <1>2, WithIs
  <1>6. Fetch(w, kind, p) = v
    BY <1>1 DEF Fetch, With, d, Typed, Windows
  <1> HIDE DEF v
  <1>7. ~b.internal_nav
    BY BrowserWindowAssumption DEF Fits
  <1>8. Owned(v) /\ Internal(v)
    BY <1>3, <1>5 DEF Idle, Owned, Internal
  <1>9. Asks(v) /\ Loads(v) /\ Waits(v)
    BY <1>3, <1>4, <1>5, <1>7 DEF Idle, Asks, Loads, Waits
  <1>10. Shows(v)
    BY <1>3, <1>4, <1>5 DEF Idle, Shows
  <1>11. Throbs(v)
    BY <1>3, <1>4, <1>5, Distinct DEF Idle, Throbs, Fits
  <1> QED BY <1>5, <1>6, <1>8, <1>9, <1>10, <1>11 DEF Good

\* The window owns two, at most, of its handles.
LEMMA FreeHandle ==
    ASSUME NEW w, Owned(w)
    PROVE  \E h \in Handles : ~w.handles[h].open
  <1> DEFINE l == w.bw.loading_content
             c == w.bw.current_content
  <1>2. PICK g \in Handles \cup {None}, h \in Handles \cup {None} :
          \A x \in {l, c} : x \in Handles => x \in {g, h}
    <2> DEFINE g == IF l \in Handles THEN l ELSE None
               h == IF c \in Handles THEN c ELSE None
    <2>1. g \in Handles \cup {None} /\ h \in Handles \cup {None}
      OBVIOUS
    <2>2. \A x \in {l, c} : x \in Handles => x \in {g, h}
      OBVIOUS
    <2> QED BY <2>1, <2>2
  <1>3. PICK x \in Handles : x \notin {g, h}
    BY BrowserWindowAssumption
  <1> QED BY <1>2, <1>3, NoHandleIs DEF Owned

LEMMA FreeIs ==
    ASSUME NEW w, Idle(w)
    PROVE  LET h == CHOOSE h \in Handles : ~w.handles[h].open
           IN h \in Handles /\ ~w.handles[h].open /\ h # w.bw.current_content
  <1>1. \A x \in Handles : w.handles[x].open <=> x = w.bw.current_content
    BY BrowserWindowAssumption, NoHandleIs DEF Idle, Owned
  <1>2. \E x \in Handles : ~w.handles[x].open
    BY <1>1, FreeHandle DEF Idle
  <1> QED BY <1>1, <1>2

LEMMA Fetched ==
    ASSUME NEW w, Idle(w), NEW kind, NEW p, Fits(w, kind, p),
           ~(kind = "page" /\ p.url \in Foreign)
    PROVE  Good(Fetch(w, kind, p))
  <1> DEFINE b == w.bw
             h == CHOOSE h \in Handles : ~w.handles[h].open
             r == [open |-> TRUE, url |-> p.url, asked |-> p.url, kind |-> kind,
                   internal |-> b.internal_nav, told |-> <<>>]
             H == [w.handles EXCEPT ![h] = r]
             d == [b EXCEPT !.loading_content = h, !.history_add = p.add, !.throbbing = TRUE]
             v == [w EXCEPT !.handles = H, !.bw = d]
             c == w.bw.current_content
  <1>1. /\ Typed(w) /\ w \in Windows /\ b \in Browser /\ p.add \in BOOLEAN
        /\ w.handles \in [Handles -> Handle] /\ None \notin Handles
    BY BrowserWindowAssumption DEF Idle, Typed, Windows, Fits, Parameters
  <1>2. h \in Handles /\ ~w.handles[h].open /\ h # c
    BY FreeIs
  <1>3. r \in Handle
    BY <1>1 DEF Handle, Fits, Nothing, Browser
  <1>4. /\ r.open /\ r.url = p.url /\ r.kind = kind /\ (r.internal <=> b.internal_nav)
        /\ r.told = Nothing /\ r.asked = p.url
    BY DEF Nothing
  <1> HIDE DEF h, r
  <1>5. d \in Browser
    BY <1>1, <1>2 DEF Browser
  <1>6. /\ d.loading_content = h /\ d.current_content = c
        /\ d.loading_parameters = b.loading_parameters
        /\ d.current_parameters = b.current_parameters
    BY <1>1 DEF Browser
  <1>7. /\ (d.internal_nav <=> b.internal_nav) /\ d.throbbing /\ (d.due <=> b.due)
        /\ (d.forgot <=> b.forgot)
    BY <1>1 DEF Browser
  <1>8. H \in [Handles -> Handle] /\ \A g \in Handles : H[g] = IF g = h THEN r ELSE w.handles[g]
    BY <1>1, <1>2, <1>3
  <1>9. Fetch(w, kind, p) = v
    <2>1. Fetch(w, kind, p) = [w EXCEPT !.handles[h] = r, !.bw.loading_content = h,
                                        !.bw.history_add = p.add, !.bw.throbbing = TRUE]
      BY DEF Fetch, h, r
    <2> QED BY <1>1, <2>1 DEF Windows
  <1> HIDE DEF H, d
  <1>10. v \in Windows /\ v.handles = H /\ v.bw = d /\ v.history = w.history
    BY <1>1, <1>5, <1>8 DEF Windows
  <1> HIDE DEF v
  <1>11. Typed(v)
    BY <1>1, <1>10 DEF Typed
  <1>12. Owned(v)
    <2>1. \A g \in Handles : IF v.handles[g].open
                             THEN /\ g \in {h, c} /\ v.handles[g].url \in Urls
                                  /\ v.handles[g].asked \in Urls
                             ELSE v.handles[g] = NoHandle
      BY <1>1, <1>4, <1>8, <1>10 DEF Idle, Owned, Fits
    <2>2. v.handles[h].open /\ v.handles[h].told \in {Nothing, Begun}
      BY <1>2, <1>4, <1>8, <1>10
    <2>3. c # None => v.handles[c].open /\ v.handles[c].told = Over
      BY <1>1, <1>2, <1>8, <1>10 DEF Idle, Owned, Browser
    <2> QED BY <1>6, <1>10, <2>1, <2>2, <2>3 DEF Owned
  <1>13. Internal(v)
    BY <1>4, <1>8, <1>10 DEF Idle, Internal, Fits, Own, OwnKept
  <1>16. c # None => c \in Handles /\ H[c] = w.handles[c] /\ H[c].told = Over
    BY <1>1, <1>2, <1>8 DEF Idle, Browser
  <1>14. Asks(v)
    BY <1>6, <1>7, <1>10, <1>16, Distinct DEF Idle, Asks
  <1>15. Loads(v)
    BY <1>2, <1>4, <1>6, <1>7, <1>8, <1>10, Distinct DEF Loads, Fits, Own
  <1>17. Shows(v)
    BY <1>6, <1>7, <1>10, <1>16, Distinct DEF Idle, Shows
  <1>18. Throbs(v)
    BY <1>1, <1>2, <1>6, <1>7, <1>10 DEF Throbs
  <1>19. Waits(v)
    BY <1>7, <1>10 DEF Idle, Waits
  <1> QED BY <1>9, <1>11, <1>12, <1>13, <1>14, <1>15, <1>17, <1>18, <1>19 DEF Good

LEMMA FetchIs ==
    ASSUME NEW w, Idle(w), NEW kind, NEW p, Fits(w, kind, p)
    PROVE  Good(Fetch(w, kind, p))
  BY Launched, Fetched

LEMMA IdleStopped ==
    ASSUME NEW w, Good(w)
    PROVE  /\ Idle(Stopped(w)) /\ Stopped(w).bw = Quieted(w.bw)
           /\ w.bw.current_content # None =>
                /\ Stopped(w).handles[w.bw.current_content].kind
                   = w.handles[w.bw.current_content].kind
                /\ Stopped(w).handles[w.bw.current_content].url
                   = w.handles[w.bw.current_content].url
  <1> DEFINE c == w.bw.current_content
             v == Stopped(w)
             b == Quieted(w.bw)
  <1>1. /\ w \in Windows /\ w.bw \in Browser /\ c \in Handles \cup {None} /\ None \notin Handles
        /\ \A g \in Handles : w.handles[g] \in Handle
    BY BrowserWindowAssumption DEF Good, Typed, Windows, Browser
  <1>2. /\ Typed(v) /\ v.bw = b
        /\ \A g \in Handles : v.handles[g] = IF g = c THEN Knows(w.handles[c], Over) ELSE NoHandle
    BY <1>1, StoppedIs
  <1>3. /\ b.loading_content = None /\ b.current_content = c
        /\ b.loading_parameters = w.bw.loading_parameters
        /\ b.current_parameters = w.bw.current_parameters
        /\ ~b.throbbing /\ ~b.due /\ (b.forgot <=> w.bw.forgot)
    BY <1>1, QuietedIs
  <1> HIDE DEF v, b
  <1>4. c # None =>
          /\ v.handles[c].told = Over /\ v.handles[c].url = w.handles[c].url
          /\ v.handles[c].kind = w.handles[c].kind /\ v.handles[c].open = w.handles[c].open
          /\ v.handles[c].internal = w.handles[c].internal
          /\ v.handles[c].asked = w.handles[c].asked
    BY <1>1, <1>2, KnowsIs
  <1>5. ~NoHandle.open /\ OwnKept(NoHandle)
    BY NoHandleIs
  <1>6. Owned(v)
    <2>1. c # None => /\ v.handles[c].open /\ v.handles[c].url \in Urls
                      /\ v.handles[c].asked \in Urls
      BY <1>1, <1>4 DEF Good, Owned
    <2>2. \A g \in Handles : g # c => v.handles[g] = NoHandle
      BY <1>2
    <2> QED BY <1>1, <1>2, <1>3, <1>4, <1>5, <2>1, <2>2 DEF Owned
  <1>7. Internal(v)
    <2>1. c # None => OwnKept(v.handles[c])
      BY <1>1, <1>4 DEF Good, Internal, Own, OwnKept
    <2> QED BY <1>1, <1>2, <1>5, <2>1 DEF Internal
  <1>8. Shows(v)
    BY <1>2, <1>3, <1>4, Distinct DEF Good, Shows, Own
  <1> QED BY <1>2, <1>3, <1>4, <1>6, <1>7, <1>8 DEF Idle, v, b

\* w with another task, and other parameters
Retasked(w, internal, loading, current) ==
    With(w, [w.bw EXCEPT !.internal_nav = internal, !.loading_parameters = loading,
                         !.current_parameters = current])

LEMMA RetaskedIs ==
    ASSUME NEW w, Idle(w), NEW n \in BOOLEAN, NEW l \in Parameters, NEW p \in Parameters,
           l.url # None \/ l = w.bw.loading_parameters,
           \/ p = w.bw.current_parameters
           \/ w.bw.current_content # None => Own(w.handles[w.bw.current_content])
           \/ w.bw.forgot
    PROVE  /\ Idle(Retasked(w, n, l, p))
           /\ Retasked(w, n, l, p).bw.internal_nav <=> n
           /\ Retasked(w, n, l, p).bw.loading_parameters = l
           /\ Retasked(w, n, l, p).bw.current_parameters = p
           /\ Retasked(w, n, l, p).bw.throbbing <=> w.bw.throbbing
           /\ Retasked(w, n, l, p).bw.current_content = w.bw.current_content
           /\ Retasked(w, n, l, p).handles = w.handles
  <1> DEFINE b == w.bw
             d == [b EXCEPT !.internal_nav = n, !.loading_parameters = l,
                            !.current_parameters = p]
             v == With(w, d)
  <1>1. Typed(w) /\ b \in Browser
    BY DEF Idle, Typed, Windows
  <1>2. d \in Browser
    BY <1>1 DEF Browser
  <1>3. /\ d.loading_content = b.loading_content /\ d.current_content = b.current_content
        /\ d.loading_parameters = l /\ d.current_parameters = p
    BY <1>1 DEF Browser
  <1>4. /\ (d.internal_nav <=> n) /\ (d.throbbing <=> b.throbbing) /\ (d.due <=> b.due)
        /\ (d.wants <=> b.wants) /\ (d.forgot <=> b.forgot)
    BY <1>1 DEF Browser
  <1> HIDE DEF d
  <1>5. Typed(v) /\ v.bw = d /\ v.handles = w.handles
    BY <1>1, <1>2, WithIs
  <1>6. v = Retasked(w, n, l, p)
    BY DEF Retasked, d
  <1> HIDE DEF v
  <1>7. Owned(v) /\ Internal(v)
    BY <1>3, <1>5 DEF Idle, Owned, Internal
  <1>8. Shows(v)
    BY <1>3, <1>4, <1>5 DEF Idle, Shows
  <1> QED BY <1>3, <1>4, <1>5, <1>6, <1>7, <1>8 DEF Idle

-----------------------------------------------------------------------------
(* Navigation *)

LEMMA NavigateIs ==
    ASSUME NEW w, Good(w), NEW p \in Parameters, p.url \in Urls, NEW s \in BOOLEAN
    PROVE  Good(Navigate(w, p, s))
  <1> DEFINE u == IF w.bw.current_content # None /\ ~s THEN Updated(w, w.bw.current_content)
                  ELSE w
             v == Stopped(u)
             x == Retasked(v, FALSE, p, v.bw.current_parameters)
  <1>1. Typed(w) /\ w.bw \in Browser
    BY DEF Good, Typed, Windows
  <1>2. SameBut(w, u) /\ Listed(u.history)
    BY <1>1, UpdatedIs DEF Typed, SameBut, Browser
  <1> HIDE DEF u
  <1>3. Good(u)
    BY <1>2, SameHolds DEF Good
  <1>4. Idle(v) /\ v.bw = Quieted(u.bw) /\ u.bw \in Browser
    BY <1>3, IdleStopped DEF Good, Typed, Windows
  <1>5. ~v.bw.throbbing
    BY <1>4, QuietedIs
  <1> HIDE DEF v
  <1>6. v.bw \in Browser /\ v.bw.current_parameters \in Parameters
    BY <1>4 DEF Idle, Typed, Windows, Browser
  <1>7. p.url # None
    BY BrowserWindowAssumption
  <1>8. Idle(x) /\ ~x.bw.internal_nav /\ x.bw.loading_parameters = p /\ ~x.bw.throbbing
    <2> DEFINE q == v.bw.current_parameters
               n == FALSE
    <2>1. q \in Parameters /\ q = v.bw.current_parameters /\ n \in BOOLEAN
      BY <1>6
    <2> HIDE DEF q, n
    <2>2. /\ Idle(Retasked(v, n, p, q))
          /\ Retasked(v, n, p, q).bw.internal_nav <=> n
          /\ Retasked(v, n, p, q).bw.loading_parameters = p
          /\ Retasked(v, n, p, q).bw.throbbing <=> v.bw.throbbing
      BY <1>4, <1>7, <2>1, RetaskedIs
    <2> QED BY <1>5, <2>2 DEF n, q
  <1>9. Navigate(w, p, s) = Fetch(x, "page", p)
    <2>1. x = [v EXCEPT !.bw.internal_nav = FALSE, !.bw.loading_parameters = p]
      <3>1. [v.bw EXCEPT !.internal_nav = FALSE, !.loading_parameters = p,
                         !.current_parameters = v.bw.current_parameters]
            = [v.bw EXCEPT !.internal_nav = FALSE, !.loading_parameters = p]
        BY <1>6 DEF Browser
      <3> QED BY <1>4, <3>1 DEF Retasked, With, Idle, Typed, Windows
    <2> QED BY <2>1 DEF Navigate, u, v
  <1>10. Fits(x, "page", p)
    BY <1>8 DEF Fits
  <1> HIDE DEF x
  <1> QED BY <1>8, <1>9, <1>10, FetchIs

\* The parameters of an idle window are its own, when only the task changes.
LEMMA Retask ==
    ASSUME NEW w, Idle(w), NEW n \in BOOLEAN
    PROVE  [w EXCEPT !.bw.internal_nav = n]
           = Retasked(w, n, w.bw.loading_parameters, w.bw.current_parameters)
  <1>1. w \in Windows /\ w.bw \in Browser
    BY DEF Idle, Typed, Windows
  <1>2. [w.bw EXCEPT !.internal_nav = n, !.loading_parameters = w.bw.loading_parameters,
                     !.current_parameters = w.bw.current_parameters]
        = [w.bw EXCEPT !.internal_nav = n]
    BY <1>1 DEF Browser
  <1> QED BY <1>1, <1>2 DEF Retasked, With, Windows

LEMMA RetaskIs ==
    ASSUME NEW w, Idle(w), NEW n \in BOOLEAN
    PROVE  LET x == [w EXCEPT !.bw.internal_nav = n]
           IN /\ Idle(x) /\ (x.bw.internal_nav <=> n) /\ (x.bw.throbbing <=> w.bw.throbbing)
              /\ x.bw.loading_parameters = w.bw.loading_parameters
              /\ x.bw.current_parameters = w.bw.current_parameters
              /\ x.bw.current_content = w.bw.current_content /\ x.handles = w.handles
  <1> DEFINE l == w.bw.loading_parameters
             p == w.bw.current_parameters
             x == [w EXCEPT !.bw.internal_nav = n]
  <1>1. /\ l \in Parameters /\ l = w.bw.loading_parameters
        /\ p \in Parameters /\ p = w.bw.current_parameters
    BY DEF Idle, Typed, Windows, Browser
  <1>2. x = Retasked(w, n, l, p)
    BY Retask
  <1> HIDE DEF l, p, x
  <1>3. Idle(x) /\ (x.bw.internal_nav <=> n) /\ (x.bw.throbbing <=> w.bw.throbbing)
    BY <1>1, <1>2, RetaskedIs
  <1>4. /\ x.bw.loading_parameters = l /\ x.bw.current_parameters = p
        /\ x.bw.current_content = w.bw.current_content /\ x.handles = w.handles
    BY <1>1, <1>2, RetaskedIs
  <1> QED BY <1>1, <1>3, <1>4 DEF x

LEMMA LoadAgainIs ==
    ASSUME NEW w, Idle(w), ~w.bw.throbbing, w.bw.loading_parameters.url # None
    PROVE  Good(LoadAgain(w))
  <1> DEFINE n == FALSE
             x == [w EXCEPT !.bw.internal_nav = n]
             p == w.bw.loading_parameters
  <1>1. n \in BOOLEAN /\ ~n
    OBVIOUS
  <1>2. LoadAgain(w) = Fetch(x, "page", p)
    BY DEF LoadAgain
  <1> HIDE DEF n
  <1>3. Idle(x) /\ ~x.bw.internal_nav /\ ~x.bw.throbbing /\ x.bw.loading_parameters = p
    BY <1>1, RetaskIs
  <1>4. p \in Parameters /\ p.url \in Urls
    BY DEF Idle, Typed, Windows, Browser, Parameters
  <1> HIDE DEF x, p
  <1>5. Fits(x, "page", p)
    BY <1>3, <1>4 DEF Fits
  <1> QED BY <1>2, <1>3, <1>5, FetchIs

LEMMA ReloadCurrentIs ==
    ASSUME NEW w, Idle(w), ~w.bw.throbbing,
           \/ w.bw.current_content # None => Own(w.handles[w.bw.current_content])
           \/ w.bw.forgot
    PROVE  Good(ReloadCurrent(w))
  <1> DEFINE c == w.bw.current_parameters.url
             p == [url |-> IF c = None THEN Blank ELSE c, add |-> FALSE]
             n == FALSE
             o == NoParameters
             x == Retasked(w, n, p, o)
  <1>1. w.bw.current_parameters \in Parameters
    BY DEF Idle, Typed, Windows, Browser
  <1>2. p \in Parameters /\ p.url \in Urls /\ p.url # None
    BY <1>1, BrowserWindowAssumption DEF Parameters
  <1>3. n \in BOOLEAN /\ ~n /\ o \in Parameters
    BY DEF Parameters, NoParameters
  <1>4. ReloadCurrent(w) = Fetch(x, "page", p)
    BY DEF ReloadCurrent, Retasked, With, Idle, Typed, Windows
  <1> HIDE DEF n, o, p
  <1>5. Idle(x) /\ (x.bw.internal_nav <=> n) /\ x.bw.loading_parameters = p
        /\ (x.bw.throbbing <=> w.bw.throbbing)
    BY <1>2, <1>3, RetaskedIs
  <1> HIDE DEF x
  <1>6. Fits(x, "page", p)
    BY <1>2, <1>3, <1>5 DEF Fits
  <1> QED BY <1>4, <1>5, <1>6, FetchIs

-----------------------------------------------------------------------------
(* What the user does *)

LEMMA BecomesGood == \A x : Good(x) /\ Becomes(x) => Settled'
  <1> SUFFICES ASSUME NEW x, Good(x), Becomes(x) PROVE Settled'
    OBVIOUS
  <1>1. x \in Windows
    BY DEF Good, Typed
  <1>2. x = [handles |-> x.handles, bw |-> x.bw, history |-> x.history]
    BY <1>1 DEF Windows
  <1>3. Window' = x
    BY <1>2 DEF Window, Becomes
  <1> QED BY <1>3 DEF Settled

LEMMA WindowIs == Window.handles = handles /\ Window.bw = bw /\ Window.history = history
  BY DEF Window

\* The content that is shown is that of an open handle, of a page that exists.
LEMMA ShownIs ==
    ASSUME NEW w, Good(w), w.bw.current_content # None
    PROVE  /\ w.bw.current_content \in Handles
           /\ w.handles[w.bw.current_content] \in Handle
           /\ w.handles[w.bw.current_content].url \in Urls
  <1>1. w.bw.current_content \in Handles /\ w.handles \in [Handles -> Handle]
    BY DEF Good, Typed, Windows, Browser
  <1> QED BY <1>1 DEF Good, Owned

LEMMA VisitKeeps ==
    ASSUME Settled, Visit
    PROVE  Settled'
  <1>1. PICK url \in Urls : Becomes(Navigate(Window, [url |-> url, add |-> TRUE], FALSE))
    BY DEF Visit
  <1> DEFINE p == [url |-> url, add |-> TRUE]
             s == FALSE
  <1>2. p \in Parameters /\ p.url \in Urls /\ s \in BOOLEAN
    BY DEF Parameters
  <1>3. Becomes(Navigate(Window, p, s))
    BY <1>1
  <1> HIDE DEF p, s
  <1>4. Good(Navigate(Window, p, s))
    BY <1>2, NavigateIs DEF Settled
  <1> QED BY <1>3, <1>4, BecomesGood

LEMMA StopKeeps ==
    ASSUME Settled, Stop
    PROVE  Settled'
  <1> DEFINE w == Window
             v == Stopped(w)
  <1>1. Becomes(v) /\ Good(w)
    BY DEF Stop, Settled
  <1> HIDE DEF w
  <1>2. Idle(v) /\ v.bw = Quieted(w.bw) /\ w.bw \in Browser
    BY <1>1, IdleStopped DEF Good, Typed, Windows
  <1>3. ~v.bw.throbbing
    BY <1>2, QuietedIs
  <1> HIDE DEF v
  <1>4. Asks(v) /\ Loads(v) /\ Throbs(v) /\ Waits(v)
    BY <1>2, <1>3, Distinct DEF Idle, Asks, Loads, Throbs, Waits
  <1>5. Good(v)
    BY <1>2, <1>4 DEF Good, Idle
  <1> QED BY <1>1, <1>5, BecomesGood

LEMMA ReloadKeeps ==
    ASSUME Settled, Reload
    PROVE  Settled'
  <1> DEFINE w == Window
             p == [url |-> handles[bw.current_content].url, add |-> FALSE]
             s == FALSE
  <1>1. Becomes(Navigate(w, p, s)) /\ bw.current_content # None /\ Good(w)
    BY DEF Reload, Shown, Settled
  <1>2. p \in Parameters /\ p.url \in Urls
    BY <1>1, WindowIs, ShownIs DEF Parameters
  <1>3. s \in BOOLEAN
    OBVIOUS
  <1> HIDE DEF w, p, s
  <1>4. Good(Navigate(w, p, s))
    BY <1>1, <1>2, <1>3, NavigateIs
  <1> QED BY <1>1, <1>4, BecomesGood

LEMMA GoKeeps ==
    ASSUME Settled, NEW e \in 1..Len(history.entries), Go(e)
    PROVE  Settled'
  <1> DEFINE w == Window
             u == IF bw.current_content = None THEN w ELSE Updated(w, bw.current_content)
             x == [u EXCEPT !.history.current = e]
             p == [url |-> history.entries[e].url, add |-> FALSE]
             s == TRUE
  <1>1. Becomes(Navigate(x, p, s)) /\ Good(w) /\ Typed(w)
    BY DEF Go, Settled, Good
  <1>2. w.bw = bw /\ w.history = history /\ Len(history.entries) \in Nat
    BY <1>1, WindowIs DEF Typed, Listed
  <1>3. /\ SameBut(w, u) /\ Listed(u.history)
        /\ Len(u.history.entries) = Len(history.entries)
    <2>1. CASE bw.current_content = None
      BY <1>1, <1>2, <2>1 DEF Typed, SameBut
    <2>2. CASE bw.current_content # None
      <3>1. bw.current_content \in Handles
        BY <1>1, <1>2, <2>2, ShownIs
      <3>2. u = Updated(w, bw.current_content)
        BY <2>2
      <3> HIDE DEF u, w
      <3> QED BY <1>1, <1>2, <3>1, <3>2, UpdatedIs
    <2> QED BY <2>1, <2>2
  <1> HIDE DEF u
  <1>4. SameBut(w, x) /\ Listed(x.history)
    <2> DEFINE k == [u.history EXCEPT !.current = e]
    <2>1. u \in Windows /\ u.history \in Histories /\ e \in Nat
      BY <1>2, <1>3 DEF SameBut, Windows
    <2>2. k \in Histories /\ k.entries = u.history.entries /\ k.current = e
      BY <2>1 DEF Histories
    <2>3. x = [u EXCEPT !.history = k]
      OBVIOUS
    <2> HIDE DEF k, x
    <2>4. x \in Windows /\ x.handles = u.handles /\ x.bw = u.bw /\ x.history = k
      BY <2>1, <2>2, <2>3 DEF Windows
    <2>5. Listed(k)
      BY <1>2, <1>3, <2>2 DEF Listed
    <2> QED BY <1>3, <2>4, <2>5 DEF SameBut
  <1> HIDE DEF x
  <1>5. Good(x)
    BY <1>1, <1>4, SameHolds DEF Good
  <1>6. p \in Parameters /\ p.url \in Urls
    <2>1. history.entries[e] \in Entry
      BY <1>1, <1>2 DEF Typed, Listed
    <2> QED BY <2>1 DEF Entry, Parameters
  <1>7. s \in BOOLEAN
    OBVIOUS
  <1> HIDE DEF p, s
  <1>8. Good(Navigate(x, p, s))
    BY <1>5, <1>6, <1>7, NavigateIs
  <1> QED BY <1>1, <1>8, BecomesGood

\* Where there is a current entry, the list goes on within itself.
LEMMA Neighbours ==
    ASSUME Settled, history.current # 0
    PROVE  LET e == history.entries[history.current]
           IN /\ e.back # 0 => e.back \in 1..Len(history.entries)
              /\ e.forward_pref # 0 => e.forward_pref \in 1..Len(history.entries)
  <1>1. Listed(history)
    BY WindowIs DEF Settled, Good, Typed
  <1>2. history.current \in 1..Len(history.entries) /\ Len(history.entries) \in Nat
    BY <1>1 DEF Listed
  <1> QED BY <1>1, <1>2 DEF Listed

LEMMA ThrobsIsBusy ==
    ASSUME NEW x, Typed(x), Throbs(x), Becomes(x),
           x.bw.current_content # None =>
             x.handles[x.bw.current_content].told \in {Laid, Over}
    PROVE  BusyIsShown'
  <1> DEFINE c == x.bw.current_content
  <1>1. x \in Windows
    BY DEF Typed
  <1>2. x = [handles |-> x.handles, bw |-> x.bw, history |-> x.history]
    BY <1>1 DEF Windows
  <1>3. Window' = x /\ bw' = x.bw
    BY <1>2 DEF Window, Becomes
  <1>4. c # None => (Last(x, c) = "READY" <=> x.handles[c].told = Laid)
    BY LastIs
  <1>5. x.bw.throbbing <=> x.bw.loading_content # None \/ (c # None /\ Last(x, c) = "READY")
    BY <1>4 DEF Throbs
  <1> QED BY <1>3, <1>5 DEF BusyIsShown, OnItsWay, Last

\* To reload from a window that does not rest leaves it busy, and noted so.
LEMMA Barging ==
    ASSUME NEW w, Typed(w), Owned(w), Throbs(w), w.bw.barged, ~w.bw.due,
           Becomes(ReloadCurrent(w))
    PROVE  bw'.barged /\ BusyIsShown' /\ ~bw'.due
  <1> DEFINE b == w.bw
             c == b.current_content
             q == b.current_parameters.url
             p == [url |-> IF q = None THEN Blank ELSE q, add |-> FALSE]
             n == FALSE
             o == NoParameters
             d == [b EXCEPT !.internal_nav = n, !.loading_parameters = p,
                            !.current_parameters = o]
             y == With(w, d)
             h == CHOOSE h \in Handles : ~w.handles[h].open
             r == [open |-> TRUE, url |-> p.url, asked |-> p.url, kind |-> "page",
                   internal |-> d.internal_nav, told |-> <<>>]
             H == [w.handles EXCEPT ![h] = r]
             e == [d EXCEPT !.history_add = FALSE]
             k == [d EXCEPT !.loading_content = h, !.history_add = FALSE, !.throbbing = TRUE]
             z == [w EXCEPT !.handles = H, !.bw = k]
  <1>1. /\ w \in Windows /\ b \in Browser /\ w.handles \in [Handles -> Handle]
        /\ b.current_parameters \in Parameters /\ None \notin Handles
        /\ c \in Handles \cup {None}
    BY BrowserWindowAssumption DEF Typed, Windows, Browser
  <1>2. c # None => c \in Handles /\ w.handles[c].open /\ w.handles[c].told \in {Laid, Over}
    BY <1>1 DEF Owned
  <1>3. p \in Parameters /\ p.url \in Urls
    BY <1>1, BrowserWindowAssumption DEF Parameters
  <1>4. n \in BOOLEAN /\ o \in Parameters
    BY DEF Parameters, NoParameters
  <1>5. ReloadCurrent(w) = Fetch(y, "page", p) /\ p.add = FALSE
    BY <1>1 DEF ReloadCurrent, With, Windows
  <1> HIDE DEF p, n, o
  <1>6. d \in Browser
    BY <1>1, <1>3, <1>4 DEF Browser
  <1>7. /\ d.loading_content = b.loading_content /\ d.current_content = c
        /\ (d.throbbing <=> b.throbbing) /\ d.barged /\ ~d.due
    BY <1>1 DEF Browser
  <1> HIDE DEF d
  <1>8. Typed(y) /\ y.bw = d /\ y.handles = w.handles /\ y.history = w.history
    BY <1>6, WithIs
  <1>9. CASE p.url \in Foreign
    <2>1. e \in Browser
      BY <1>6 DEF Browser
    <2>2. /\ e.loading_content = b.loading_content /\ e.current_content = c
          /\ (e.throbbing <=> b.throbbing) /\ e.barged /\ ~e.due
      BY <1>6, <1>7 DEF Browser
    <2>3. Fetch(y, "page", p) = With(y, e)
      BY <1>5, <1>8, <1>9 DEF Fetch, With, Typed, Windows
    <2> HIDE DEF e, y
    <2>4. Typed(With(y, e)) /\ With(y, e).bw = e /\ With(y, e).handles = w.handles
      BY <1>8, <2>1, WithIs
    <2>5. Throbs(With(y, e))
      BY <2>2, <2>4 DEF Throbs
    <2>6. Becomes(With(y, e))
      BY <1>5, <2>3
    <2>7. BusyIsShown'
      BY <1>2, <2>2, <2>4, <2>5, <2>6, ThrobsIsBusy
    <2> QED BY <2>2, <2>4, <2>6, <2>7 DEF Becomes
  <1>10. CASE p.url \notin Foreign
    <2>1. h \in Handles /\ ~w.handles[h].open
      BY FreeHandle
    <2>2. r \in Handle
      BY <1>3, <1>6 DEF Handle, Nothing, Browser
    <2>3. Fetch(y, "page", p) = [y EXCEPT !.handles[h] = r, !.bw.loading_content = h,
                                          !.bw.history_add = FALSE, !.bw.throbbing = TRUE]
      BY <1>5, <1>8, <1>10 DEF Fetch
    <2>4. [y EXCEPT !.handles[h] = r, !.bw.loading_content = h,
                    !.bw.history_add = FALSE, !.bw.throbbing = TRUE] = z
      <3>1. y = [w EXCEPT !.bw = d]
        BY DEF With
      <3> HIDE DEF h, r, y
      <3>2. y.handles = w.handles /\ y.bw = d
        BY <1>8
      <3>3. [y EXCEPT !.handles[h] = r, !.bw.loading_content = h,
                      !.bw.history_add = FALSE, !.bw.throbbing = TRUE]
            = [y EXCEPT !.handles = H, !.bw = k]
        BY <1>8, <3>2 DEF Typed, Windows
      <3>4. [y EXCEPT !.handles = H, !.bw = k] = z
        BY <1>1, <3>1 DEF Windows
      <3> QED BY <3>3, <3>4
    <2> HIDE DEF h, r, y
    <2>5. H \in [Handles -> Handle] /\ \A g \in Handles : g # h => H[g] = w.handles[g]
      BY <1>1, <2>1, <2>2
    <2>6. k \in Browser
      BY <1>6, <2>1 DEF Browser
    <2>7. /\ k.loading_content = h /\ k.current_content = c
          /\ k.throbbing /\ k.barged /\ ~k.due
      BY <1>6, <1>7 DEF Browser
    <2> HIDE DEF H, k
    <2>8. z \in Windows /\ z.handles = H /\ z.bw = k /\ z.history = w.history
      BY <1>1, <2>5, <2>6 DEF Windows
    <2> HIDE DEF z
    <2>9. Typed(z) /\ Throbs(z)
      BY <1>1, <2>1, <2>7, <2>8 DEF Typed, Throbs
    <2>10. Becomes(z)
      BY <1>5, <2>3, <2>4
    <2>11. c # None => z.handles[c].told \in {Laid, Over}
      BY <1>2, <2>1, <2>5, <2>8
    <2>12. BusyIsShown'
      BY <2>7, <2>8, <2>9, <2>10, <2>11, ThrobsIsBusy
    <2> QED BY <2>7, <2>8, <2>10, <2>12 DEF Becomes
  <1> QED BY <1>9, <1>10

LEMMA BackKeeps ==
    ASSUME Settled, Back
    PROVE  IInv'
  <1> DEFINE w == Window
             c == bw.current_content
             g == OnItsWay
             f == c # None /\ ~handles[c].internal
             d == [bw EXCEPT !.barged = g, !.forgot = f]
             x == With(w, d)
  <1>1. /\ Good(w) /\ Typed(w) /\ w.bw = bw /\ w.handles = handles
        /\ w \in Windows /\ bw \in Browser
    BY WindowIs DEF Settled, Good, Typed, Windows
  <1>2. g \in BOOLEAN /\ f \in BOOLEAN
    BY DEF OnItsWay
  <1>3. CASE bw.internal_nav /\ Becomes(ReloadCurrent([w EXCEPT !.bw.barged = g, !.bw.forgot = f]))
    <2>1. (g <=> OnItsWay) /\ (f <=> c # None /\ ~handles[c].internal)
      OBVIOUS
    <2>2. c # None => (Last(w, c) = "READY" <=> w.handles[c].told = Laid)
      BY <1>1, LastIs DEF Good, Owned
    <2>3. g <=> w.bw.loading_content # None \/ (c # None /\ w.handles[c].told = Laid)
      BY <1>1, <2>2 DEF OnItsWay, w
    <2>4. w.bw.throbbing <=> g
      BY <1>1, <2>3 DEF Good, Throbs
    <2>5. /\ d \in Browser /\ d.loading_content = bw.loading_content
          /\ d.current_content = c /\ d.loading_parameters = bw.loading_parameters
          /\ d.current_parameters = bw.current_parameters
      BY <1>1, <1>2 DEF Browser
    <2>6. /\ (d.throbbing <=> bw.throbbing) /\ (d.wants <=> bw.wants)
          /\ (d.due <=> bw.due) /\ (d.barged <=> g) /\ (d.forgot <=> f)
      BY <1>1, <1>2 DEF Browser
    <2>11. x = [w EXCEPT !.bw.barged = g, !.bw.forgot = f]
      BY <1>1 DEF With, Windows
    <2> HIDE DEF w, g, f, d
    <2>12. Typed(x) /\ x.bw = d /\ x.handles = w.handles
      BY <1>1, <2>5, WithIs
    <2> HIDE DEF x
    <2>7. Becomes(ReloadCurrent(x))
      BY <1>3, <2>11
    <2>8. Owned(x) /\ Internal(x)
      BY <1>1, <2>5, <2>12 DEF Good, Owned, Internal
    <2>9. CASE g
      <3>1. Throbs(x)
        BY <1>1, <2>5, <2>6, <2>12 DEF Good, Throbs
      <3>2. bw'.barged /\ BusyIsShown' /\ ~bw'.due
        <4>1. Typed(x) /\ x.bw.barged /\ ~x.bw.due
          BY <1>1, <1>3, <2>6, <2>9, <2>12 DEF Good, Asks
        <4> QED BY <2>7, <2>8, <3>1, <4>1, Barging
      <3> QED BY <3>2 DEF IInv
    <2>10. CASE ~g
      <3>1. c # None => w.handles[c].told = Over
        BY <1>1, <2>3, <2>10 DEF Good, Owned
      <3>2. ~w.bw.due /\ ~w.bw.throbbing /\ w.bw.loading_content = None
        BY <1>1, <1>3, <2>3, <2>4, <2>10 DEF Good, Asks
      <3>3. c # None => Own(w.handles[c]) \/ f
        BY <1>1, <2>1, ShownIs DEF Good, Internal, OwnKept
      <3>4. Shows(x)
        BY <1>1, <2>5, <2>6, <2>12, <3>1, <3>3, Distinct DEF Good, Shows
      <3>5. Idle(x) /\ ~x.bw.throbbing
        BY <1>1, <2>5, <2>6, <2>8, <2>12, <3>1, <3>2, <3>4 DEF Idle
      <3>6. \/ x.bw.current_content # None => Own(x.handles[x.bw.current_content])
            \/ x.bw.forgot
        BY <1>1, <2>5, <2>6, <2>12, <3>3
      <3>7. Good(ReloadCurrent(x))
        BY <3>5, <3>6, ReloadCurrentIs
      <3> QED BY <2>7, <3>7, BecomesGood DEF IInv
    <2> QED BY <2>9, <2>10
  <1>5. CASE Becomes(Navigate(w, [url |-> Blank, add |-> TRUE], FALSE))
    <2> DEFINE p == [url |-> Blank, add |-> TRUE]
               s == FALSE
    <2>1. p \in Parameters /\ p.url \in Urls /\ s \in BOOLEAN
      BY BrowserWindowAssumption DEF Parameters
    <2>2. Becomes(Navigate(w, p, s))
      BY <1>5
    <2> HIDE DEF p, s, w
    <2>3. Good(Navigate(w, p, s))
      BY <1>1, <2>1, NavigateIs
    <2> QED BY <2>2, <2>3, BecomesGood DEF IInv
  <1>6. CASE history.current # 0 /\ history.entries[history.current].back # 0
             /\ Go(history.entries[history.current].back)
    BY <1>6, Neighbours, GoKeeps DEF IInv
  <1> QED BY <1>3, <1>5, <1>6 DEF Back

LEMMA ForwardKeeps ==
    ASSUME Settled, Forward
    PROVE  Settled'
  BY Neighbours, GoKeeps DEF Forward

\* The user has answered the query page that is shown.
LEMMA AskedIs ==
    ASSUME Settled, bw.current_content # None, handles[bw.current_content].kind # "page"
    PROVE  /\ Idle(Asked) /\ ~Asked.bw.throbbing /\ Asked.bw.internal_nav
           /\ Asked.bw.current_content = bw.current_content
           /\ Asked.bw.loading_parameters \in Parameters
           /\ Asked.bw.loading_parameters.url # None
           /\ Asked.bw.current_parameters \in Parameters
           /\ Own(Asked.handles[bw.current_content])
           /\ handles[bw.current_content].url \in Urls
  <1> DEFINE w == Window
             v == Stopped(w)
             c == bw.current_content
             n == TRUE
             x == [v EXCEPT !.bw.internal_nav = n]
  <1>1. Good(w) /\ w.bw = bw /\ w.handles = handles
    BY WindowIs DEF Settled
  <1>2. Asked = x /\ n \in BOOLEAN /\ n
    BY DEF Asked
  <1> HIDE DEF w
  <1>3. /\ Idle(v) /\ v.bw = Quieted(w.bw) /\ w.bw \in Browser
        /\ v.handles[c].kind = w.handles[c].kind
    BY <1>1, IdleStopped DEF Good, Typed, Windows
  <1> HIDE DEF v, n
  <1>4. /\ ~v.bw.throbbing /\ v.bw.current_content = c
        /\ v.bw.loading_parameters = bw.loading_parameters
        /\ v.bw.current_parameters = bw.current_parameters
    BY <1>1, <1>3, QuietedIs
  <1>5. /\ Idle(x) /\ (x.bw.internal_nav <=> n) /\ (x.bw.throbbing <=> v.bw.throbbing)
        /\ x.bw.loading_parameters = v.bw.loading_parameters
        /\ x.bw.current_parameters = v.bw.current_parameters
        /\ x.bw.current_content = v.bw.current_content /\ x.handles = v.handles
    BY <1>2, <1>3, RetaskIs
  <1>6. bw.loading_parameters.url # None
    BY <1>1 DEF Good, Shows
  <1>7. bw.loading_parameters \in Parameters /\ bw.current_parameters \in Parameters
    BY <1>1, <1>3 DEF Browser
  <1>8. handles[c].url \in Urls
    BY <1>1, ShownIs
  <1> HIDE DEF x, c
  <1>9. Own(x.handles[c])
    BY <1>1, <1>3, <1>5 DEF Own, c
  <1> QED BY <1>2, <1>4, <1>5, <1>6, <1>7, <1>8, <1>9 DEF c

\* A retry takes the page that is shown away, or what was being loaded.
LEMMA Retried ==
    ASSUME NEW w, Idle(w), ~w.bw.throbbing, w.bw.loading_parameters.url # None,
           Own(w.handles[w.bw.current_content]), Becomes(ReloadCurrent(w)) \/ Becomes(LoadAgain(w))
    PROVE  Settled'
  <1>1. Good(ReloadCurrent(w)) /\ Good(LoadAgain(w))
    BY ReloadCurrentIs, LoadAgainIs
  <1> QED BY <1>1, BecomesGood

LEMMA AnswerErrorKeeps ==
    ASSUME Settled, AnswerError
    PROVE  Settled'
  <1>1. /\ bw.current_content # None /\ handles[bw.current_content].kind # "page"
        /\ Becomes(ReloadCurrent(Asked)) \/ Becomes(LoadAgain(Asked))
    BY DEF AnswerError, Shown
  <1> QED BY <1>1, AskedIs, Retried

LEMMA AnswerSslKeeps ==
    ASSUME Settled, AnswerSsl
    PROVE  Settled'
  <1> DEFINE a == Asked
             c == bw.current_content
             w == [a EXCEPT !.bw.loading_parameters.url = handles[c].url]
             n == TRUE
             l == [a.bw.loading_parameters EXCEPT !.url = handles[c].url]
             p == a.bw.current_parameters
             x == Retasked(a, n, l, p)
  <1>1. /\ c # None /\ handles[c].kind # "page"
        /\ Becomes(ReloadCurrent(w)) \/ Becomes(LoadAgain(w))
    BY DEF AnswerSsl, Shown
  <1>2. /\ Idle(a) /\ ~a.bw.throbbing /\ a.bw.internal_nav /\ a.bw.current_content = c
        /\ a.bw.loading_parameters \in Parameters /\ p \in Parameters
        /\ Own(a.handles[c]) /\ handles[c].url \in Urls
    BY <1>1, AskedIs
  <1> HIDE DEF a, c
  <1>3. l \in Parameters /\ l.url # None
    BY <1>2, BrowserWindowAssumption DEF Parameters
  <1>4. w = x
    <2> DEFINE b == a.bw
               d == [b EXCEPT !.loading_parameters = l]
    <2>1. a \in Windows /\ b \in Browser
      BY <1>2 DEF Idle, Typed, Windows
    <2>2. w = [a EXCEPT !.bw = d]
      BY <2>1 DEF Windows, Browser
    <2>3. [b EXCEPT !.internal_nav = TRUE, !.loading_parameters = l, !.current_parameters = p] = d
      BY <1>2, <2>1 DEF Browser
    <2> QED BY <2>2, <2>3 DEF Retasked, With
  <1>5. n \in BOOLEAN /\ p = a.bw.current_parameters
    OBVIOUS
  <1> HIDE DEF n, l, p
  <1>6. /\ Idle(x) /\ (x.bw.throbbing <=> a.bw.throbbing) /\ x.bw.loading_parameters = l
        /\ x.bw.current_content = a.bw.current_content /\ x.handles = a.handles
    BY <1>2, <1>3, <1>5, RetaskedIs
  <1> HIDE DEF x, w
  <1> QED BY <1>1, <1>2, <1>3, <1>4, <1>6, Retried

LEMMA AnswerAuthKeeps ==
    ASSUME Settled, AnswerAuth
    PROVE  Settled'
  <1> DEFINE a == Asked
             c == bw.current_content
             l == [url |-> Blank, add |-> FALSE]
             w == [a EXCEPT !.bw.loading_parameters = l]
             n == TRUE
             p == a.bw.current_parameters
             x == Retasked(a, n, l, p)
  <1>1. /\ c # None /\ handles[c].kind # "page"
        /\ Becomes(LoadAgain(a)) \/ Becomes(Fetch(w, "page", l))
    BY DEF AnswerAuth, Shown
  <1>2. /\ Idle(a) /\ ~a.bw.throbbing /\ a.bw.internal_nav /\ a.bw.loading_parameters.url # None
        /\ p \in Parameters
    BY <1>1, AskedIs
  <1>3. CASE Becomes(LoadAgain(a))
    <2>1. Good(LoadAgain(a))
      BY <1>2, LoadAgainIs
    <2> QED BY <1>3, <2>1, BecomesGood
  <1>4. CASE Becomes(Fetch(w, "page", l))
    <2> HIDE DEF a, c
    <2>1. l \in Parameters /\ l.url = Blank /\ l.url \in Urls /\ l.url # None
      BY BrowserWindowAssumption DEF Parameters
    <2>2. w = x
      <3> DEFINE b == a.bw
                 d == [b EXCEPT !.loading_parameters = l]
      <3>1. a \in Windows /\ b \in Browser
        BY <1>2 DEF Idle, Typed, Windows
      <3>2. [b EXCEPT !.internal_nav = TRUE, !.loading_parameters = l, !.current_parameters = p] = d
        BY <1>2, <3>1 DEF Browser
      <3> QED BY <3>1, <3>2 DEF Retasked, With, Windows
    <2>3. n \in BOOLEAN /\ n /\ p = a.bw.current_parameters
      OBVIOUS
    <2> HIDE DEF n, l, p
    <2>4. /\ Idle(x) /\ x.bw.loading_parameters = l
          /\ (x.bw.internal_nav <=> n) /\ (x.bw.throbbing <=> a.bw.throbbing)
      <3>1. /\ Idle(a) /\ n \in BOOLEAN /\ l \in Parameters /\ p \in Parameters
            /\ l.url # None /\ p = a.bw.current_parameters
        BY <1>2, <2>1, <2>3
      <3> QED BY ONLY <3>1, RetaskedIs
    <2> HIDE DEF x, w
    <2>5. Fits(x, "page", l)
      BY <1>2, <2>1, <2>3, <2>4 DEF Fits
    <2>6. Good(Fetch(x, "page", l))
      BY <2>4, <2>5, FetchIs
    <2> QED BY <1>4, <2>2, <2>6, BecomesGood
  <1> QED BY <1>1, <1>3, <1>4

-----------------------------------------------------------------------------
(* What the handles say *)

\* Who may say what: the content that is loaded, until it is READY.
LEMMA Saying ==
    ASSUME Settled, NEW h \in Handles, NEW m, MaySay(h, m)
    PROVE  /\ handles[h].open /\ handles[h] \in Handle
           /\ handles[h].url \in Urls /\ handles[h].asked \in Urls
           /\ m = "LOADING" => handles[h].told = Nothing
           /\ m = "READY" => handles[h].told = Begun
           /\ m = "DONE" => handles[h].told = Laid
           /\ m \in {"LOADING", "READY", "ERROR", "DOWNLOAD"} =>
                h = bw.loading_content /\ h # bw.current_content
           /\ m = "DONE" => h = bw.current_content
           /\ m \in {"ERROR", "DOWNLOAD"} => ~Own(handles[h])
  <1>1. Good(Window) /\ Window.handles = handles /\ Window.bw = bw
    BY WindowIs DEF Settled
  <1>2. handles[h] \in Handle
    BY <1>1 DEF Good, Typed, Windows
  <1>3. handles[h].told \in {Nothing, Begun, Laid, Over}
    BY <1>2 DEF Handle
  <1>4. \/ handles[h].told = Nothing /\ m \in {"LOADING", "ERROR", "DOWNLOAD"}
        \/ handles[h].told = Begun /\ m \in {"READY", "ERROR"}
        \/ handles[h].told = Laid /\ m = "DONE"
    BY <1>3, NextOfStory DEF MaySay
  <1>5. /\ handles[h].open /\ handles[h].url \in Urls /\ handles[h].asked \in Urls
        /\ h = bw.loading_content \/ h = bw.current_content
    BY <1>1 DEF Good, Owned, MaySay
  <1>6. /\ h = bw.loading_content => handles[h].told \in {Nothing, Begun}
        /\ h = bw.current_content => handles[h].told \in {Laid, Over}
    BY <1>1, BrowserWindowAssumption DEF Good, Owned
  <1>7. m \in {"ERROR", "DOWNLOAD"} => ~Own(handles[h])
    BY <1>1 DEF MaySay, Own, Good, Internal, OwnKept
  <1> QED BY <1>2, <1>4, <1>5, <1>6, <1>7, Distinct

LEMMA LoadingKeeps ==
    ASSUME Settled, NEW h \in Handles, Loading(h)
    PROVE  Settled'
  <1> DEFINE w == Window
             u == Told(w, h, "LOADING")
             R == handles[h].kind = "page" /\ RefreshTo[handles[h].url] # None
             d == [bw EXCEPT !.wants = R]
             x == With(u, d)
             r == Knows(handles[h], Begun)
             c == bw.current_content
  <1>1. /\ Good(w) /\ Typed(w) /\ w.handles = handles /\ w.bw = bw /\ bw \in Browser
        /\ None \notin Handles
    BY WindowIs, BrowserWindowAssumption DEF Settled, Good, Typed, Windows
  <1>2. /\ handles[h].open /\ handles[h] \in Handle
        /\ handles[h].url \in Urls /\ handles[h].asked \in Urls
        /\ handles[h].told = Nothing
        /\ h = bw.loading_content /\ h # c
    BY Saying DEF Loading
  <1> HIDE DEF w
  <1>3. /\ Typed(u) /\ u.bw = bw
        /\ \A g \in Handles : u.handles[g] = IF g = h THEN r ELSE handles[g]
    <2>1. Append(w.handles[h].told, "LOADING") = Begun
      BY <1>1, <1>2, AppendIs
    <2>2. /\ Typed(u) /\ u.bw = w.bw
          /\ \A g \in Handles : u.handles[g] = IF g = h THEN Knows(w.handles[h], Begun)
                                              ELSE w.handles[g]
      <3>1. Typed(w) /\ h \in Handles /\ Begun \in {Nothing, Begun, Laid, Over}
        BY <1>1
      <3> QED BY ONLY <2>1, <3>1, ToldIs
    <2> QED BY <1>1, <2>2
  <1>4. /\ r.told = Begun /\ r.url = handles[h].url /\ r.kind = handles[h].kind
        /\ r.open = handles[h].open /\ r.internal = handles[h].internal
        /\ r.asked = handles[h].asked
    BY <1>2, KnowsIs
  <1>5. d \in Browser
    BY <1>1 DEF Browser
  <1>6. /\ d.loading_content = h /\ d.current_content = c
        /\ d.loading_parameters = bw.loading_parameters
        /\ d.current_parameters = bw.current_parameters
    BY <1>1, <1>2 DEF Browser
  <1>7. /\ (d.internal_nav <=> bw.internal_nav) /\ (d.throbbing <=> bw.throbbing)
        /\ (d.due <=> bw.due) /\ (d.wants <=> R) /\ (d.forgot <=> bw.forgot)
    BY <1>1 DEF Browser
  <1>8. Becomes(x)
    <2>1. [u EXCEPT !.bw.wants = R] = x
      BY <1>3 DEF With, Typed, Windows
    <2>2. Says(h, "LOADING") = u
      BY DEF Says, Told, w
    <2> QED BY <2>1, <2>2 DEF Loading
  <1> HIDE DEF u, d, r
  <1>9. Typed(x) /\ x.bw = d /\ x.handles = u.handles
    BY <1>3, <1>5, WithIs
  <1> HIDE DEF x
  <1>10. c # None => c \in Handles /\ x.handles[c] = handles[c] /\ handles[c].told = Over
    BY <1>1, <1>2, <1>3, <1>9 DEF Good, Owned, Browser
  <1>11. Owned(x)
    <2>1. \A g \in Handles : IF x.handles[g].open
                             THEN /\ g \in {h, c} /\ x.handles[g].url \in Urls
                                  /\ x.handles[g].asked \in Urls
                             ELSE x.handles[g] = NoHandle
      <3>1. x.handles[h].open /\ x.handles[h].url \in Urls /\ x.handles[h].asked \in Urls
        BY <1>2, <1>3, <1>4, <1>9
      <3>2. \A g \in Handles : g # h => x.handles[g] = handles[g]
        BY <1>3, <1>9
      <3> QED BY <1>1, <1>2, <3>1, <3>2 DEF Good, Owned
    <2>2. x.handles[h].open /\ x.handles[h].told = Begun
      BY <1>2, <1>3, <1>4, <1>9
    <2>3. c # None => x.handles[c].open /\ x.handles[c].told = Over
      BY <1>1, <1>10 DEF Good, Owned
    <2> QED BY <1>6, <1>9, <2>1, <2>2, <2>3 DEF Owned
  <1>12. Internal(x)
    <2>1. OwnKept(x.handles[h])
      BY <1>1, <1>3, <1>4, <1>9 DEF Good, Internal, Own, OwnKept
    <2>2. \A g \in Handles : g # h => x.handles[g] = handles[g]
      BY <1>3, <1>9
    <2> QED BY <1>1, <2>1, <2>2 DEF Good, Internal
  <1>13. Asks(x)
    BY <1>1, <1>6, <1>7, <1>9, <1>10, Distinct DEF Good, Asks
  <1>14. Loads(x)
    BY <1>1, <1>2, <1>3, <1>4, <1>6, <1>7, <1>9 DEF Good, Loads, Own, Refreshes
  <1>15. Shows(x)
    BY <1>1, <1>6, <1>7, <1>9, <1>10, Distinct DEF Good, Shows
  <1>16. Throbs(x) /\ Waits(x)
    BY <1>1, <1>2, <1>6, <1>7, <1>9 DEF Good, Throbs, Waits
  <1> QED BY <1>8, <1>9, <1>11, <1>12, <1>13, <1>14, <1>15, <1>16, BecomesGood DEF Good

LEMMA DoneKeeps ==
    ASSUME Settled, NEW h \in Handles, Done(h)
    PROVE  Settled'
  <1> DEFINE w == Window
             u == Told(w, h, "DONE")
             x == ContentDone(u)
             r == Knows(handles[h], Over)
             d == [bw EXCEPT !.throbbing = FALSE, !.due = @ \/ bw.wants]
  <1>1. /\ Good(w) /\ Typed(w) /\ w.handles = handles /\ w.bw = bw /\ bw \in Browser
        /\ None \notin Handles
    BY WindowIs, BrowserWindowAssumption DEF Settled, Good, Typed, Windows
  <1>2. /\ handles[h].open /\ handles[h] \in Handle
        /\ handles[h].url \in Urls /\ handles[h].asked \in Urls
        /\ handles[h].told = Laid
        /\ h = bw.current_content
    BY Saying DEF Done
  <1>3. Becomes(x)
    BY DEF Done, Says, Told
  <1> HIDE DEF w
  <1>4. /\ Typed(u) /\ u.bw = bw
        /\ \A g \in Handles : u.handles[g] = IF g = h THEN r ELSE handles[g]
    <2>1. Append(w.handles[h].told, "DONE") = Over
      BY <1>1, <1>2, AppendIs
    <2>2. /\ Typed(u) /\ u.bw = w.bw
          /\ \A g \in Handles : u.handles[g] = IF g = h THEN Knows(w.handles[h], Over)
                                              ELSE w.handles[g]
      <3>1. Typed(w) /\ h \in Handles /\ Over \in {Nothing, Begun, Laid, Over}
        BY <1>1
      <3> QED BY ONLY <2>1, <3>1, ToldIs
    <2> QED BY <1>1, <2>2
  <1>5. /\ r.told = Over /\ r.url = handles[h].url /\ r.kind = handles[h].kind
        /\ r.open = handles[h].open /\ r.internal = handles[h].internal
        /\ r.asked = handles[h].asked
    BY <1>2, KnowsIs
  <1> HIDE DEF u, r
  <1>6. Typed(x) /\ x.handles = u.handles /\ x.bw = d
    BY <1>2, <1>4, ContentDoneIs
  <1>7. /\ d.loading_content = bw.loading_content /\ d.current_content = h
        /\ d.loading_parameters = bw.loading_parameters
        /\ d.current_parameters = bw.current_parameters
    BY <1>1, <1>2 DEF Browser
  <1>8. /\ (d.internal_nav <=> bw.internal_nav) /\ ~d.throbbing /\ (d.wants <=> bw.wants)
        /\ (d.due <=> bw.due \/ bw.wants) /\ (d.forgot <=> bw.forgot)
    BY <1>1 DEF Browser
  <1> HIDE DEF d, x
  <1>9. bw.loading_content = None /\ ~bw.due /\ (bw.wants <=> Refreshes(handles[h]))
    BY <1>1, <1>2, Distinct DEF Good, Owned, Waits, Shows
  <1>10. Owned(x)
    <2>1. \A g \in Handles : IF x.handles[g].open
                             THEN /\ g = h /\ x.handles[g].url \in Urls
                                  /\ x.handles[g].asked \in Urls
                             ELSE x.handles[g] = NoHandle
      <3>1. x.handles[h].open /\ x.handles[h].url \in Urls /\ x.handles[h].asked \in Urls
        BY <1>2, <1>4, <1>5, <1>6
      <3>2. \A g \in Handles : g # h => x.handles[g] = handles[g]
        BY <1>4, <1>6
      <3> QED BY <1>1, <1>2, <1>9, <3>1, <3>2 DEF Good, Owned
    <2>2. x.handles[h].open /\ x.handles[h].told = Over
      BY <1>2, <1>4, <1>5, <1>6
    <2> QED BY <1>6, <1>7, <1>9, <2>1, <2>2 DEF Owned
  <1>11. Internal(x)
    <2>1. OwnKept(x.handles[h])
      BY <1>1, <1>4, <1>5, <1>6 DEF Good, Internal, Own, OwnKept
    <2>2. \A g \in Handles : g # h => x.handles[g] = handles[g]
      BY <1>4, <1>6
    <2> QED BY <1>1, <2>1, <2>2 DEF Good, Internal
  <1>12. Asks(x)
    <2>1. bw.internal_nav => handles[h].internal
      BY <1>1, <1>2 DEF Good, Asks
    <2>2. handles[h].internal => ~Refreshes(handles[h])
      BY <1>1, BrowserWindowAssumption DEF Good, Internal, OwnKept, Own, Refreshes
    <2>3. x.handles[h].told = Over
      BY <1>4, <1>5, <1>6
    <2> QED BY <1>6, <1>7, <1>8, <1>9, <2>1, <2>2, <2>3, Distinct DEF Asks
  <1>13. Loads(x) /\ Throbs(x)
    BY <1>4, <1>5, <1>6, <1>7, <1>8, <1>9, Distinct DEF Loads, Throbs
  <1>14. Shows(x)
    BY <1>1, <1>2, <1>4, <1>5, <1>6, <1>7, <1>8, Distinct DEF Good, Shows, Own
  <1>15. Waits(x)
    BY <1>1, <1>4, <1>5, <1>6, <1>7, <1>8, <1>9 DEF Waits, Refreshes
  <1> QED BY <1>3, <1>6, <1>10, <1>11, <1>12, <1>13, <1>14, <1>15, BecomesGood DEF Good

\* The content that was loaded is shown, whether its parameters go with it,
\* as they do unless it is the browser's own doing, or not.
ReadyTask(b, l, p, f) == [b EXCEPT !.current_content = b.loading_content,
                                   !.loading_content = None, !.current_parameters = p,
                                   !.loading_parameters = l, !.forgot = f]

LEMMA ReadyShows ==
    ASSUME Settled, NEW h \in Handles, MaySay(h, "READY"), NEW l \in Parameters, NEW p \in Parameters,
           NEW f \in BOOLEAN, bw.internal_nav => l = bw.loading_parameters,
           ~bw.internal_nav => p = bw.loading_parameters,
           NEW x, Typed(x), x.bw = ReadyTask(bw, l, p, f),
           \A g \in Handles : x.handles[g] = IF g = bw.current_content THEN NoHandle
                                             ELSE IF g = h THEN Knows(handles[h], Laid)
                                             ELSE handles[g]
    PROVE  Good(x)
  <1> DEFINE w == Window
             c == bw.current_content
             r == Knows(handles[h], Laid)
             d == ReadyTask(bw, l, p, f)
  <1>1. /\ Good(w) /\ w.handles = handles /\ w.bw = bw /\ bw \in Browser /\ None \notin Handles
    BY WindowIs, BrowserWindowAssumption DEF Settled, Good, Typed, Windows
  <1>2. /\ handles[h].open /\ handles[h] \in Handle
        /\ handles[h].url \in Urls /\ handles[h].asked \in Urls
        /\ handles[h].told = Begun /\ h = bw.loading_content /\ h # c
    BY Saying
  <1> HIDE DEF w
  <1>3. /\ r.told = Laid /\ r.url = handles[h].url /\ r.kind = handles[h].kind
        /\ r.open /\ (r.internal <=> handles[h].internal) /\ r.asked = handles[h].asked
    BY <1>2, KnowsIs
  <1>4. /\ x.handles[h] = r
        /\ \A g \in Handles : g \notin {c, h} => x.handles[g] = handles[g]
        /\ c \in Handles => x.handles[c] = NoHandle
    BY <1>2
  <1>5. /\ d.loading_content = None /\ d.current_content = h
        /\ d.loading_parameters = l /\ d.current_parameters = p
    BY <1>1, <1>2 DEF ReadyTask, Browser
  <1>6. /\ (d.internal_nav <=> bw.internal_nav) /\ (d.throbbing <=> bw.throbbing)
        /\ (d.due <=> bw.due) /\ (d.wants <=> bw.wants)
    BY <1>1 DEF ReadyTask, Browser
  <1>7. x.bw = d
    OBVIOUS
  <1> HIDE DEF d, r
  <1>8. ~NoHandle.open /\ OwnKept(NoHandle)
    BY NoHandleIs
  <1>9. /\ (handles[h].internal <=> bw.internal_nav)
        /\ bw.internal_nav => Own(handles[h]) /\ bw.loading_parameters.url # None
        /\ ~bw.internal_nav => handles[h].asked = bw.loading_parameters.url
        /\ bw.wants <=> Refreshes(handles[h])
    BY <1>1, <1>2 DEF Good, Loads
  <1>10. Owned(x)
    <2>1. \A g \in Handles : IF x.handles[g].open
                             THEN /\ g = h /\ x.handles[g].url \in Urls
                                  /\ x.handles[g].asked \in Urls
                             ELSE x.handles[g] = NoHandle
      <3>1. x.handles[h].open /\ x.handles[h].url \in Urls /\ x.handles[h].asked \in Urls
        BY <1>2, <1>3, <1>4
      <3>2. \A g \in Handles : g # h => x.handles[g] = NoHandle
        BY <1>1, <1>2, <1>4 DEF Good, Owned
      <3> QED BY <1>8, <3>1, <3>2
    <2>2. x.handles[h].open /\ x.handles[h].told = Laid
      BY <1>3, <1>4
    <2> QED BY <1>5, <1>7, <2>1, <2>2 DEF Owned
  <1>11. Internal(x)
    <2>1. OwnKept(x.handles[h])
      BY <1>1, <1>3, <1>4 DEF Good, Internal, Own, OwnKept
    <2>2. \A g \in Handles : g # h => x.handles[g] = handles[g] \/ x.handles[g] = NoHandle
      BY <1>4
    <2> QED BY <1>1, <1>8, <2>1, <2>2 DEF Good, Internal
  <1>12. Asks(x)
    BY <1>1, <1>2, <1>3, <1>4, <1>5, <1>6, <1>7, <1>9 DEF Good, Asks, Waits
  <1>13. Loads(x)
    BY <1>5, <1>7 DEF Loads
  <1>14. Shows(x)
    <2>1. x.bw.wants <=> Refreshes(x.handles[h])
      BY <1>3, <1>4, <1>6, <1>7, <1>9 DEF Refreshes
    <2>2. x.handles[h].kind # "page" => x.bw.loading_parameters.url # None
      BY <1>3, <1>4, <1>5, <1>7, <1>9, <1>1 DEF Good, Internal, OwnKept
    <2>3. ~Own(x.handles[h]) => x.bw.current_parameters.url = x.handles[h].asked
      BY <1>3, <1>4, <1>5, <1>7, <1>9 DEF Own
    <2> QED BY <1>5, <1>7, <2>1, <2>2, <2>3 DEF Shows
  <1>15. Throbs(x)
    BY <1>1, <1>2, <1>3, <1>4, <1>5, <1>6, <1>7 DEF Good, Throbs
  <1>16. Waits(x)
    BY <1>1, <1>2, <1>6, <1>7 DEF Good, Waits
  <1> QED BY <1>10, <1>11, <1>12, <1>13, <1>14, <1>15, <1>16 DEF Good

LEMMA ReadyKeeps ==
    ASSUME Settled, NEW h \in Handles, Ready(h)
    PROVE  Settled'
  <1> DEFINE w == Window
             t == Told(w, h, "READY")
             c == bw.current_content
             q == Released(t, c)
             u == [q EXCEPT !.bw.current_content = bw.loading_content,
                            !.bw.loading_content = None]
             v == [u EXCEPT !.bw.current_parameters = bw.loading_parameters,
                            !.bw.loading_parameters = NoParameters,
                            !.bw.forgot = FALSE]
             e == ReadyTask(bw, bw.loading_parameters, bw.current_parameters, bw.forgot)
             n == FALSE
             d == ReadyTask(bw, NoParameters, bw.loading_parameters, n)
  <1>1. /\ Good(w) /\ Typed(w) /\ w.handles = handles /\ w.bw = bw /\ bw \in Browser
        /\ None \notin Handles /\ c \in Handles \cup {None}
    BY WindowIs, BrowserWindowAssumption DEF Settled, Good, Typed, Windows, Browser
  <1>2. /\ handles[h] \in Handle /\ handles[h].told = Begun /\ handles[h].url \in Urls /\ h # c
        /\ MaySay(h, "READY")
    BY Saying DEF Ready
  <1>3. Becomes(IF bw.internal_nav THEN u ELSE IF bw.history_add THEN Added(v, h) ELSE v)
    BY DEF Ready, Says, Told
  <1> HIDE DEF w
  <1>4. /\ Typed(t) /\ t.bw = bw
        /\ \A g \in Handles : t.handles[g] = IF g = h THEN Knows(handles[h], Laid) ELSE handles[g]
    <2>1. Append(w.handles[h].told, "READY") = Laid
      BY <1>1, <1>2, AppendIs
    <2>2. /\ Typed(t) /\ t.bw = w.bw
          /\ \A g \in Handles : t.handles[g] = IF g = h THEN Knows(w.handles[h], Laid)
                                              ELSE w.handles[g]
      <3>1. Typed(w) /\ h \in Handles /\ Laid \in {Nothing, Begun, Laid, Over}
        BY <1>1
      <3> QED BY ONLY <2>1, <3>1, ToldIs
    <2> QED BY <1>1, <2>2
  <1> HIDE DEF t
  <1>5. /\ Typed(q) /\ q.bw = bw
        /\ \A g \in Handles : q.handles[g] = IF g = c THEN NoHandle
                                            ELSE IF g = h THEN Knows(handles[h], Laid)
                                            ELSE handles[g]
    <2>1. /\ Typed(q) /\ q.bw = t.bw
          /\ \A g \in Handles : q.handles[g] = IF g = c THEN NoHandle ELSE t.handles[g]
      BY <1>1, <1>4, ReleasedIs
    <2> HIDE DEF q
    <2> QED BY <1>4, <2>1
  <1> HIDE DEF q
  <1>6. bw.loading_parameters \in Parameters /\ bw.current_parameters \in Parameters
        /\ NoParameters \in Parameters /\ bw.forgot \in BOOLEAN /\ n \in BOOLEAN
    BY <1>1 DEF Browser, Parameters, NoParameters
  <1>7. e \in Browser /\ d \in Browser
    BY <1>1, <1>6 DEF ReadyTask, Browser
  <1>8. u = With(q, e)
    <2>1. e = [bw EXCEPT !.current_content = bw.loading_content, !.loading_content = None]
      BY <1>1 DEF ReadyTask, Browser
    <2> QED BY <1>1, <1>5, <2>1 DEF With, Typed, Windows, Browser
  <1>9. v = With(q, d)
    BY <1>1, <1>5 DEF With, ReadyTask, Typed, Windows, Browser
  <1> HIDE DEF u, v, e, d, n
  <1>10. Typed(u) /\ u.bw = e /\ u.handles = q.handles
    BY <1>5, <1>7, <1>8, WithIs
  <1>11. Typed(v) /\ v.bw = d /\ v.handles = q.handles
    BY <1>5, <1>7, <1>9, WithIs
  <1>12. CASE bw.internal_nav
    <2>1. Good(u)
      BY <1>2, <1>5, <1>6, <1>10, <1>12, ReadyShows DEF e
    <2> QED BY <1>3, <1>12, <2>1, BecomesGood
  <1>13. CASE ~bw.internal_nav
    <2>1. Good(v)
      BY <1>2, <1>5, <1>6, <1>11, <1>13, ReadyShows DEF d
    <2>2. v.handles[h].url \in Urls
      BY <1>2, <1>5, <1>11, KnowsIs
    <2>3. SameBut(v, Added(v, h)) /\ Listed(Added(v, h).history)
      BY <1>11, <2>2, AddedIs
    <2>4. Good(Added(v, h))
      BY <2>1, <2>3, SameHolds DEF Good
    <2> QED BY <1>3, <1>13, <2>1, <2>4, BecomesGood
  <1> QED BY <1>12, <1>13

\* What was being loaded is given up: only what is shown stays.
LEMMA GivenUp ==
    ASSUME Settled, NEW h \in Handles, h = bw.loading_content, NEW d \in Browser,
           d.loading_content = None, d.current_content = bw.current_content, ~d.due,
           d.loading_parameters = bw.loading_parameters,
           d.current_parameters = bw.current_parameters, d.forgot <=> bw.forgot
    PROVE  LET x == With(Released(Window, h), d)
           IN Idle(x) /\ x.bw = d
  <1> DEFINE w == Window
             q == Released(w, h)
             x == With(q, d)
             c == bw.current_content
  <1>1. /\ Good(w) /\ Typed(w) /\ w.handles = handles /\ w.bw = bw /\ bw \in Browser
        /\ None \notin Handles /\ c \in Handles \cup {None}
    BY WindowIs, BrowserWindowAssumption DEF Settled, Good, Typed, Windows, Browser
  <1> HIDE DEF w
  <1>2. /\ Typed(q) /\ q.bw = w.bw
        /\ \A g \in Handles : q.handles[g] = IF g = h THEN NoHandle ELSE w.handles[g]
    <2>1. Typed(w) /\ h \in Handles \cup {None}
      BY <1>1
    <2> QED BY ONLY <2>1, ReleasedIs
  <1> HIDE DEF q
  <1>3. Typed(x) /\ x.bw = d /\ x.handles = q.handles
    BY <1>2, WithIs
  <1> HIDE DEF x
  <1>4. ~NoHandle.open /\ OwnKept(NoHandle)
    BY NoHandleIs
  <1>5. c # None => c # h /\ handles[c].told = Over /\ handles[c].open
    BY <1>1, Distinct DEF Good, Owned
  <1>6. \A g \in Handles : x.handles[g] = IF g = c THEN handles[c] ELSE NoHandle
    BY <1>1, <1>2, <1>3, <1>5 DEF Good, Owned
  <1>7. Owned(x)
    BY <1>1, <1>3, <1>4, <1>5, <1>6 DEF Good, Owned
  <1>8. Internal(x)
    BY <1>1, <1>4, <1>6 DEF Good, Internal
  <1>9. Shows(x)
    BY <1>1, <1>3, <1>5, <1>6, Distinct DEF Good, Shows
  <1>10. c # None => x.handles[c].told = Over
    BY <1>1, <1>5, <1>6
  <1> QED BY <1>3, <1>7, <1>8, <1>9, <1>10 DEF Idle, x, q, w

LEMMA ErrorKeeps ==
    ASSUME Settled, NEW h \in Handles, Error(h)
    PROVE  Settled'
  <1> DEFINE q == Released(Window, h)
             d == [bw EXCEPT !.loading_content = None, !.internal_nav = TRUE]
             x == With(q, d)
             p == [url |-> handles[h].url, add |-> TRUE]
  <1>1. /\ Good(Window) /\ Typed(Window) /\ bw \in Browser /\ None \notin Handles
        /\ Window.handles = handles /\ Window.bw = bw
    BY WindowIs, BrowserWindowAssumption DEF Settled, Good, Typed, Windows
  <1>2. /\ handles[h].url \in Urls /\ handles[h].asked \in Urls
        /\ h = bw.loading_content /\ ~Own(handles[h])
    BY Saying DEF Error
  <1>3. ~bw.internal_nav /\ bw.loading_parameters.url = handles[h].asked /\ ~bw.due
    BY <1>1, <1>2 DEF Good, Loads, Waits
  <1>4. d \in Browser
    BY <1>1 DEF Browser
  <1>5. /\ d.loading_content = None /\ d.current_content = bw.current_content
        /\ d.loading_parameters = bw.loading_parameters
        /\ d.current_parameters = bw.current_parameters
    BY <1>1 DEF Browser
  <1>6. d.internal_nav /\ ~d.due /\ (d.forgot <=> bw.forgot)
    BY <1>1, <1>3 DEF Browser
  <1>7. PICK kind \in {"error", "ssl", "auth"} : Becomes(Fetch(x, kind, p))
    <2>1. [q EXCEPT !.bw.loading_content = None, !.bw.internal_nav = TRUE] = x
      <3>1. q \in Windows /\ q.bw = bw
        BY <1>1, ReleasedIs DEF Typed
      <3> QED BY <3>1 DEF With, Windows
    <2> QED BY <2>1 DEF Error
  <1> HIDE DEF d
  <1>8. Idle(x) /\ x.bw = d
    BY <1>2, <1>4, <1>5, <1>6, GivenUp
  <1>9. p \in Parameters /\ p.url \in Urls /\ handles[h].asked # None
    BY <1>2, BrowserWindowAssumption DEF Parameters
  <1> HIDE DEF x, p
  <1>10. Fits(x, kind, p)
    BY <1>3, <1>5, <1>6, <1>8, <1>9 DEF Fits
  <1>11. Good(Fetch(x, kind, p))
    BY <1>8, <1>10, FetchIs
  <1> QED BY <1>7, <1>11, BecomesGood

LEMMA DownloadKeeps ==
    ASSUME Settled, NEW h \in Handles, Download(h)
    PROVE  Settled'
  <1> DEFINE q == Released(Window, h)
             d == [bw EXCEPT !.loading_content = None, !.throbbing = FALSE]
             x == With(q, d)
  <1>1. /\ Good(Window) /\ Typed(Window) /\ bw \in Browser /\ None \notin Handles
        /\ Window.handles = handles /\ Window.bw = bw
    BY WindowIs, BrowserWindowAssumption DEF Settled, Good, Typed, Windows
  <1>2. h = bw.loading_content /\ ~Own(handles[h])
    BY Saying DEF Download
  <1>3. ~bw.internal_nav /\ ~bw.due
    BY <1>1, <1>2 DEF Good, Loads, Waits
  <1>4. d \in Browser
    BY <1>1 DEF Browser
  <1>5. /\ d.loading_content = None /\ d.current_content = bw.current_content
        /\ d.loading_parameters = bw.loading_parameters
        /\ d.current_parameters = bw.current_parameters
    BY <1>1 DEF Browser
  <1>6. ~d.internal_nav /\ ~d.due /\ ~d.throbbing /\ (d.forgot <=> bw.forgot)
    BY <1>1, <1>3 DEF Browser
  <1>7. Becomes(x)
    <2>1. Converted(h) = x
      <3>1. q \in Windows /\ q.bw = bw
        BY <1>1, ReleasedIs DEF Typed
      <3> QED BY <3>1 DEF Converted, With, Windows
    <2> QED BY <2>1 DEF Download
  <1> HIDE DEF d
  <1>8. Idle(x) /\ x.bw = d
    BY <1>2, <1>4, <1>5, <1>6, GivenUp
  <1> HIDE DEF x
  <1>9. Good(x)
    BY <1>5, <1>6, <1>8, Distinct DEF Good, Idle, Asks, Loads, Throbs, Waits
  <1> QED BY <1>7, <1>9, BecomesGood

LEMMA RefreshKeeps ==
    ASSUME Settled, Refresh
    PROVE  Settled'
  <1> DEFINE w == Window
             u == handles[bw.current_content].url
             d == [bw EXCEPT !.due = FALSE]
             x == With(w, d)
             p == [url |-> RefreshTo[u], add |-> RefreshTo[u] = u]
             s == FALSE
  <1>1. /\ Good(w) /\ Typed(w) /\ bw \in Browser /\ w.handles = handles /\ w.bw = bw
        /\ bw.due
    BY WindowIs DEF Settled, Good, Typed, Windows, Refresh
  <1>2. u \in Urls
    BY <1>1, ShownIs DEF Good, Waits
  <1>3. x = [w EXCEPT !.bw.due = FALSE]
    BY <1>1 DEF With, Typed, Windows
  <1>4. \/ Becomes(x)
        \/ RefreshTo[u] # None /\ Becomes(Navigate(x, p, s))
    BY <1>3 DEF Refresh
  <1>5. d \in Browser
    BY <1>1 DEF Browser
  <1>6. /\ d.loading_content = bw.loading_content /\ d.current_content = bw.current_content
        /\ d.loading_parameters = bw.loading_parameters
        /\ d.current_parameters = bw.current_parameters
    BY <1>1 DEF Browser
  <1>7. /\ (d.internal_nav <=> bw.internal_nav) /\ (d.throbbing <=> bw.throbbing)
        /\ ~d.due /\ (d.wants <=> bw.wants) /\ (d.forgot <=> bw.forgot)
    BY <1>1 DEF Browser
  <1>8. s \in BOOLEAN
    OBVIOUS
  <1> HIDE DEF w, d, s
  <1>9. Typed(x) /\ x.bw = d /\ x.handles = w.handles
    BY <1>1, <1>5, WithIs
  <1> HIDE DEF x
  <1>10. Good(x)
    <2>1. Owned(x) /\ Internal(x)
      BY <1>1, <1>6, <1>9 DEF Good, Owned, Internal
    <2>2. Asks(x) /\ Waits(x)
      BY <1>1, <1>6, <1>7, <1>9 DEF Good, Asks, Waits
    <2>3. Loads(x) /\ Shows(x)
      BY <1>1, <1>6, <1>7, <1>9 DEF Good, Loads, Shows
    <2>4. Throbs(x)
      BY <1>1, <1>6, <1>7, <1>9 DEF Good, Throbs
    <2> QED BY <1>9, <2>1, <2>2, <2>3, <2>4 DEF Good
  <1>11. CASE RefreshTo[u] # None /\ Becomes(Navigate(x, p, s))
    <2>1. p \in Parameters /\ p.url \in Urls
      BY <1>2, <1>11, BrowserWindowAssumption DEF Parameters
    <2> HIDE DEF p
    <2>2. Good(Navigate(x, p, s))
      BY <1>8, <1>10, <2>1, NavigateIs
    <2> QED BY <1>11, <2>2, BecomesGood
  <1> QED BY <1>4, <1>10, <1>11, BecomesGood

LEMMA RedirectKeeps ==
    ASSUME Settled, NEW h \in Handles, Redirect(h)
    PROVE  Settled'
  <1> DEFINE w == Window
             u == RedirectTo[handles[h].url]
             r == [handles[h] EXCEPT !.url = u]
             H == [handles EXCEPT ![h] = r]
             x == [w EXCEPT !.handles = H]
             c == bw.current_content
  <1>1. /\ Good(w) /\ Typed(w) /\ w \in Windows /\ w.handles = handles /\ w.bw = bw
        /\ handles \in [Handles -> Handle] /\ bw \in Browser /\ None \notin Handles
    BY WindowIs, BrowserWindowAssumption DEF Settled, Good, Typed, Windows
  <1>2. /\ handles[h].open /\ handles[h].told = Nothing /\ u # None
        /\ handles[h].kind = "page"
    BY DEF Redirect, Nothing
  <1>3. /\ h = bw.loading_content /\ handles[h].url \in Urls /\ handles[h].asked \in Urls
        /\ h # c
    BY <1>1, <1>2, Distinct DEF Good, Owned
  <1>4. u \in Urls /\ handles[h].asked # Blank
    BY <1>1, <1>2, <1>3, BrowserWindowAssumption DEF Good, Internal, OwnKept
  <1>5. Becomes(x)
    <2>1. x = [w EXCEPT !.handles[h].url = RedirectTo[@]]
      BY <1>1
    <2> QED BY <2>1 DEF Redirect
  <1> HIDE DEF w, u
  <1>6. handles[h] \in Handle
    BY <1>1
  <1>7. /\ r \in Handle /\ r.url = u /\ r.kind = "page" /\ r.open = handles[h].open
        /\ r.asked = handles[h].asked /\ r.told = Nothing
        /\ (r.internal <=> handles[h].internal)
    BY <1>2, <1>4, <1>6 DEF Handle
  <1> HIDE DEF r
  <1>8. H \in [Handles -> Handle] /\ \A g \in Handles : H[g] = IF g = h THEN r ELSE handles[g]
    BY <1>1, <1>7
  <1> HIDE DEF H
  <1>9. x \in Windows /\ x.handles = H /\ x.bw = bw /\ x.history = w.history
    BY <1>1, <1>8 DEF Windows
  <1> HIDE DEF x
  <1>10. Typed(x)
    BY <1>1, <1>9 DEF Typed
  <1>11. c # None => c \in Handles /\ H[c] = handles[c]
    BY <1>1, <1>3, <1>8 DEF Browser
  <1>12. Owned(x)
    <2>1. \A g \in Handles : IF x.handles[g].open
                             THEN /\ g \in {h, c} /\ x.handles[g].url \in Urls
                                  /\ x.handles[g].asked \in Urls
                             ELSE x.handles[g] = NoHandle
      <3>1. x.handles[h].open /\ x.handles[h].url \in Urls /\ x.handles[h].asked \in Urls
        BY <1>2, <1>3, <1>4, <1>7, <1>8, <1>9
      <3>2. \A g \in Handles : g # h => x.handles[g] = handles[g]
        BY <1>8, <1>9
      <3>3. \A g \in Handles : IF handles[g].open
                               THEN /\ g \in {h, c} /\ handles[g].url \in Urls
                                    /\ handles[g].asked \in Urls
                               ELSE handles[g] = NoHandle
        BY <1>1, <1>3 DEF Good, Owned
      <3> QED BY <3>1, <3>2, <3>3
    <2>2. x.handles[h].open /\ x.handles[h].told = Nothing
      BY <1>2, <1>7, <1>8, <1>9
    <2>3. c # None => x.handles[c].open /\ x.handles[c].told = Over
      BY <1>1, <1>3, <1>9, <1>11 DEF Good, Owned
    <2> QED BY <1>3, <1>9, <2>1, <2>2, <2>3 DEF Owned
  <1>13. Internal(x)
    <2>1. OwnKept(H[h])
      BY <1>1, <1>2, <1>4, <1>7, <1>8 DEF Good, Internal, OwnKept, Own
    <2> QED BY <1>1, <1>8, <1>9, <2>1 DEF Good, Internal
  <1>14. Asks(x) /\ Shows(x) /\ Throbs(x) /\ Waits(x)
    BY <1>1, <1>9, <1>11 DEF Good, Asks, Shows, Throbs, Waits
  <1>15. Loads(x)
    BY <1>1, <1>2, <1>3, <1>7, <1>8, <1>9, Distinct DEF Good, Loads, Own
  <1> QED BY <1>5, <1>10, <1>12, <1>13, <1>14, <1>15, BecomesGood DEF Good

-----------------------------------------------------------------------------
(* The specification *)

LEMMA InitGood ==
    ASSUME Init
    PROVE  Settled
  <1> DEFINE w == Window
  <1>1. \A h \in Handles : handles[h] = NoHandle
    BY DEF Init
  <1>2. w.handles = handles /\ w.bw = bw /\ w.history = history
    BY WindowIs
  <1>3. ~NoHandle.open /\ OwnKept(NoHandle)
    BY NoHandleIs
  <1>4. /\ bw.loading_content = None /\ bw.current_content = None
        /\ ~bw.internal_nav /\ ~bw.throbbing /\ ~bw.due
    BY DEF Init
  <1>5. Typed(w)
    <2>1. handles \in [Handles -> Handle]
      BY NoHandleIs DEF Init
    <2>2. bw \in Browser
      BY DEF Init, Browser, Parameters, NoParameters
    <2>3. history \in Histories /\ Listed(history)
      BY DEF Init, Histories, Listed
    <2> QED BY <2>1, <2>2, <2>3 DEF Typed, Windows, Window
  <1> HIDE DEF w
  <1>6. Owned(w) /\ Internal(w)
    BY <1>1, <1>2, <1>3, <1>4 DEF Owned, Internal
  <1>7. Asks(w) /\ Loads(w) /\ Shows(w) /\ Throbs(w) /\ Waits(w)
    BY <1>2, <1>4 DEF Asks, Loads, Shows, Throbs, Waits
  <1> QED BY <1>5, <1>6, <1>7 DEF Good, Settled, w

LEMMA SettledIsBusy ==
    ASSUME Settled
    PROVE  BusyIsShown
  <1> DEFINE w == Window
             c == bw.current_content
  <1>1. Good(w) /\ w.handles = handles /\ w.bw = bw
    BY WindowIs DEF Settled
  <1> HIDE DEF w
  <1>2. c # None => (Last(w, c) = "READY" <=> w.handles[c].told = Laid)
    BY <1>1, LastIs DEF Good, Owned
  <1> QED BY <1>1, <1>2 DEF BusyIsShown, OnItsWay, Good, Throbs, w

\* Nothing but Abandoned follows once Back has barged in.
LEMMA NotAbandoned ==
    /\ UserActs \/ Refresh => ~bw.barged
    /\ \A h \in Handles : Event(h) \/ Redirect(h) => ~bw.barged
  <1>1. \A x : Becomes(x) => ~bw.barged
    BY DEF Becomes
  <1>2. Visit \/ Stop \/ Reload => ~bw.barged
    BY <1>1 DEF Visit, Stop, Reload
  <1>3. Back \/ Forward => ~bw.barged
    BY <1>1 DEF Back, Forward, Go
  <1>4. AnswerError \/ AnswerSsl \/ AnswerAuth => ~bw.barged
    BY <1>1 DEF AnswerError, AnswerSsl, AnswerAuth
  <1>5. Refresh => ~bw.barged
    BY <1>1 DEF Refresh
  <1>6. \A h \in Handles : Event(h) \/ Redirect(h) => ~bw.barged
    BY <1>1 DEF Event, Redirect, Loading, Ready, Done, Error, Download
  <1> QED BY <1>2, <1>3, <1>4, <1>5, <1>6 DEF UserActs

LEMMA NextGood ==
    ASSUME IInv, [Next]_vars
    PROVE  IInv'
  <1>1. CASE UserActs
    <2>1. Settled
      BY <1>1, NotAbandoned DEF IInv
    <2> QED BY <1>1, <2>1, VisitKeeps, StopKeeps, ReloadKeeps, BackKeeps, ForwardKeeps,
         AnswerErrorKeeps, AnswerSslKeeps, AnswerAuthKeeps DEF UserActs, IInv
  <1>2. ASSUME NEW h \in Handles, Event(h) \/ Redirect(h)
        PROVE  IInv'
    <2>1. Settled
      BY <1>2, NotAbandoned DEF IInv
    <2> QED BY <1>2, <2>1, LoadingKeeps, ReadyKeeps, DoneKeeps, ErrorKeeps, DownloadKeeps,
         RedirectKeeps DEF Event, IInv
  <1>3. CASE Refresh
    <2>1. Settled
      BY <1>3, NotAbandoned DEF IInv
    <2> QED BY <1>3, <2>1, RefreshKeeps DEF IInv
  <1>4. CASE UNCHANGED vars
    BY <1>4 DEF IInv, Settled, Window, vars, BusyIsShown, OnItsWay
  <1>5. CASE Abandoned
    BY <1>4, <1>5 DEF Abandoned
  <1> QED BY <1>1, <1>2, <1>3, <1>4, <1>5 DEF Next

(* What the window owns, how far each of its contents has come, and what   *)
(* was kept for each, holds whatever the user does and the contents tell,  *)
(* until Back loses what is on its way, in browser_window.c.               *)
THEOREM InductiveInvariant == Spec => []IInv
  <1>1. Init => IInv
    BY InitGood DEF IInv
  <1>2. IInv /\ [Next]_vars => IInv'
    BY NextGood
  <1> QED BY <1>1, <1>2, PTL DEF Spec

(* The assertions of browser_window_callback about which of its two        *)
(* contents calls it fail in one way only: when Back retrieves over what   *)
(* is still on its way.                                                    *)
THEOREM CallerIsKnown == Spec => []CallbackAsserts
  <1>1. IInv => CallbackAsserts
    <2> SUFFICES ASSUME Settled, NEW h \in Handles, handles[h].open
                 PROVE  IF Last(Window, h) \in {"NOTHING", "LOADING"}
                        THEN bw.loading_content = h ELSE bw.current_content = h
      BY DEF CallbackAsserts, IInv
    <2> DEFINE w == Window
    <2>1. Good(w) /\ w.handles = handles /\ w.bw = bw
      BY WindowIs DEF Settled
    <2> HIDE DEF w
    <2>2. bw.loading_content = h => Last(w, h) \in {"NOTHING", "LOADING"}
      <3>1. bw.loading_content = h => w.handles[h].told \in {Nothing, Begun}
        BY <2>1, BrowserWindowAssumption DEF Good, Owned
      <3> QED BY <3>1, LastIs
    <2>3. bw.current_content = h => Last(w, h) \in {"READY", "DONE"}
      <3>1. bw.current_content = h => w.handles[h].told \in {Laid, Over}
        BY <2>1, BrowserWindowAssumption DEF Good, Owned
      <3> QED BY <3>1, LastIs
    <2>4. bw.loading_content = h \/ bw.current_content = h
      BY <2>1 DEF Good, Owned
    <2> QED BY <2>2, <2>3, <2>4 DEF w
  <1> QED BY <1>1, InductiveInvariant, PTL

(* A refresh that browser_window_refresh will carry out is that of the     *)
(* page that is shown, done, with nothing else on the way.                 *)
THEOREM RefreshBelongs == Spec => []RefreshIsOwn
  <1>1. IInv => RefreshIsOwn
    BY WindowIs, LastIs DEF IInv, Settled, Good, Waits, Refreshes, RefreshIsOwn
  <1> QED BY <1>1, InductiveInvariant, PTL

(* The busy indicator tells whether there is something to wait for,        *)
(* whatever the user does.                                                 *)
THEOREM BusyAsShown == Spec => []BusyIsShown
  <1>1. IInv => BusyIsShown
    BY SettledIsBusy DEF IInv
  <1> QED BY <1>1, InductiveInvariant, PTL

(* The parameters of what is loaded and of what is shown are in step with  *)
(* the contents, wherever a server redirects, so that a retry or a way     *)
(* back finds the right ones, but for what Back gives up.                  *)
THEOREM ParametersFollow == Spec => []ParamsInStep
  <1>1. IInv => ParamsInStep
    <2> SUFFICES ASSUME Settled PROVE ParamsInStep
      BY DEF IInv, ParamsInStep
    <2> DEFINE w == Window
    <2>1. Good(w) /\ w.handles = handles /\ w.bw = bw /\ bw \in Browser
      BY WindowIs DEF Settled, Good, Typed, Windows
    <2>2. \A h \in Handles : handles[h] \in Handle
      BY <2>1 DEF Good, Typed, Windows
    <2> HIDE DEF w
    <2>3. bw.loading_content # None =>
            handles[bw.loading_content].internal = bw.internal_nav
      BY <2>1, <2>2 DEF Good, Loads, Browser, Handle
    <2> QED BY <2>1, <2>3 DEF ParamsInStep, Good, Loads, Shows, Own
  <1> QED BY <1>1, InductiveInvariant, PTL
=============================================================================
