--------------------------- MODULE FrontEndProofs ---------------------------
(***************************************************************************)
(* Theorems about the framebuffer front end.  FbWindow, for every size of  *)
(* window and document and every scroll: what is damaged is redrawn.       *)
(* MainLoop, for every set of callbacks, delays and limits: the list of    *)
(* callbacks implements the timers of Timers, and the wait for events does *)
(* not outlast them.                                                       *)
(***************************************************************************)
EXTENDS FbWindow, MainLoop, SequenceTheorems, NaturalsInduction,
        WellFoundedInduction, TLAPS


IntBox == [x0 : Int, y0 : Int, x1 : Int, y1 : Int]
OnWindow == [x0 : 0..Width, x1 : 0..Width, y0 : 0..Height, y1 : 0..Height]

\* A pending area, as WindowInv describes it.
PendingArea(q) == /\ q.required \in BOOLEAN
                  /\ IF q.required THEN q.box \in OnWindow ELSE q.box = NoBox

Covered(q) == IF q.required THEN In(q.box) ELSE {}

-----------------------------------------------------------------------------
LEMMA BoxTypes == /\ NoBox \in IntBox /\ Whole \in IntBox /\ Whole \in OnWindow
                  /\ OnWindow \subseteq IntBox
  BY WindowAssumption DEF NoBox, Whole, Box, IntBox, OnWindow

\* All of the window is in Whole.
LEMMA WholeIsAll == In(Whole) = Cells
  BY WindowAssumption DEF In, Whole, Box, Cells

LEMMA UnionCovers ==
    ASSUME NEW a \in IntBox, NEW b \in IntBox
    PROVE  /\ Union(a, b) \in IntBox
           /\ In(a) \cup In(b) \subseteq In(Union(a, b))
  <1>1. Union(a, b) \in IntBox
    BY DEF Union, Box, IntBox, Least, Greatest
  <1>2. ASSUME NEW c \in In(a) \cup In(b) PROVE c \in In(Union(a, b))
    BY <1>2, WindowAssumption
       DEF In, Cells, Union, Box, IntBox, Least, Greatest
  <1> QED BY <1>1, <1>2

\* Clipping takes nothing off the window.
LEMMA ClipKeeps ==
    ASSUME NEW b \in IntBox
    PROVE  /\ Outside(b) => In(b) = {}
           /\ Clipped(b) \in OnWindow
           /\ In(b) \subseteq In(Clipped(b))
  <1>1. ASSUME Outside(b) PROVE In(b) = {}
    BY <1>1, WindowAssumption DEF Outside, In, Cells, IntBox
  <1>2. Clipped(b) \in OnWindow
    BY WindowAssumption
       DEF Clipped, Clamp, Box, OnWindow, IntBox, Least, Greatest
  <1>3. ASSUME NEW c \in In(b) PROVE c \in In(Clipped(b))
    BY <1>3, WindowAssumption
       DEF In, Cells, Clipped, Clamp, Box, IntBox, Least, Greatest
  <1> QED BY <1>1, <1>2, <1>3

(* fb_queue_redraw forgets neither what is pending nor what is new.        *)
LEMMA QueueKeeps ==
    ASSUME NEW q, PendingArea(q), NEW b \in IntBox
    PROVE  /\ PendingArea(Queued(q, b))
           /\ Covered(q) \cup In(b) \subseteq Covered(Queued(q, b))
  <1> DEFINE u == Union(q.box, b)
  <1>1. q.box \in IntBox
    BY BoxTypes DEF PendingArea
  <1>2. u \in IntBox /\ In(q.box) \cup In(b) \subseteq In(u)
    BY <1>1, UnionCovers
  <1>3. Covered(q) \subseteq In(q.box)
    BY DEF Covered
  <1>4. CASE Outside(u)
    BY <1>2, <1>3, <1>4, ClipKeeps DEF Queued, PendingArea, Covered
  <1>5. CASE ~Outside(u)
    BY <1>2, <1>3, <1>5, ClipKeeps DEF Queued, PendingArea, Covered
  <1> QED BY <1>4, <1>5

LEMMA PendingNow == WindowInv => PendingArea(Pending) /\ Covered(Pending) = Damage
  BY DEF WindowInv, PendingArea, Pending, Covered, Damage, OnWindow

-----------------------------------------------------------------------------
(* The inductive invariant: DamageBoxed needs WindowInv's pending area.    *)
WindowIInv == WindowInv /\ DamageBoxed

LEMMA InitWindow == Init => WindowIInv
  <1> SUFFICES ASSUME Init PROVE WindowIInv
    OBVIOUS
  <1>1. redraw_box \in OnWindow
    BY BoxTypes DEF Init
  <1>2. redraw_required /\ ~pan_required /\ needed /\ redraw_required \in BOOLEAN
        /\ pan_required \in BOOLEAN
    BY DEF Init
  <1>3. panx = 0 /\ pany = 0 /\ scrollx = 0 /\ scrolly = 0
    BY DEF Init
  <1>4. extent \in Extents /\ stale \subseteq Cells
    BY DEF Init
  <1>5. WindowInv
    BY <1>1, <1>2, <1>3, <1>4 DEF WindowInv, OnWindow
  <1>6. DamageBoxed
    BY WholeIsAll DEF Init, DamageBoxed, Damage
  <1> QED BY <1>5, <1>6 DEF WindowIInv

LEMMA RoomIsInt ==
    ASSUME WindowInv, NEW scroll \in Int, NEW pan \in Int, NEW room \in Int
    PROVE  /\ PanWithin(scroll, pan, room) \in Int
           /\ scroll + PanWithin(scroll, pan, room) <= room
           /\ room >= 0 => scroll + PanWithin(scroll, pan, room) >= 0
  BY DEF PanWithin

LEMMA ExtentInt == WindowInv => /\ extent.h - Height \in Int
                                /\ extent.w - Width \in Int
  BY WindowAssumption DEF WindowInv

\* A scroll is only remembered: no pixel moves, no damage is added.
LEMMA ScrollWindow ==
    ASSUME WindowIInv, Scroll
    PROVE  WindowIInv'
  <1> USE DEF WindowIInv
  <1>1. DamageBoxed'
    BY DEF DamageBoxed, Damage, In, Scroll, ScrollX, ScrollY
  <1>2. ASSUME NEW pan \in Int, ScrollY(pan) PROVE WindowInv'
    <2>1. pany' \in Int
      BY <1>2, ExtentInt, RoomIsInt DEF ScrollY, WindowInv
    <2> QED BY <1>2, <2>1 DEF ScrollY, AskToPan, WindowInv
  <1>3. ASSUME NEW pan \in Int, ScrollX(pan) PROVE WindowInv'
    <2>1. panx' \in Int
      BY <1>3, ExtentInt, RoomIsInt DEF ScrollX, WindowInv
    <2> QED BY <1>3, <2>1 DEF ScrollX, AskToPan, WindowInv
  <1>4. \E pan \in Int : ScrollY(pan) \/ ScrollX(pan)
    <2>1. \A s \in Steps : pany + s \in Int /\ panx + s \in Int
      BY WindowAssumption DEF WindowInv
    <2>2. \A m \in Marks : m - scrolly \in Int /\ m - scrollx \in Int
      BY WindowAssumption DEF WindowInv
    <2> QED BY <2>1, <2>2 DEF Scroll
  <1> QED BY <1>1, <1>2, <1>3, <1>4

\* A change of the document is queued where the window shows it.
LEMMA QueueWindow ==
    ASSUME WindowIInv, NEW b \in IntBox, NEW e \in Extents, extent' = e,
           QueueRedraw(b), UNCHANGED <<scrollVars, moved>>,
           stale' \subseteq stale \cup In(b) \/ (In(b) = Cells /\ stale' = Cells)
    PROVE  WindowIInv'
  <1> DEFINE q == Queued(Pending, b)
  <1>1. PendingArea(q) /\ Damage \cup In(b) \subseteq Covered(q)
    BY PendingNow, QueueKeeps DEF WindowIInv
  <1>2. redraw_box' = q.box /\ redraw_required' = q.required
    BY DEF QueueRedraw
  <1>3. Damage' = Covered(q)
    BY <1>2 DEF Damage, Covered, In
  <1>4. stale' \subseteq Cells
    BY DEF WindowIInv, WindowInv, In
  <1>5. WindowInv'
    BY <1>1, <1>2, <1>4
       DEF WindowIInv, WindowInv, QueueRedraw, scrollVars, PendingArea, OnWindow,
           NoBox
  <1>6. DamageBoxed'
    BY <1>1, <1>3 DEF WindowIInv, DamageBoxed
  <1> QED BY <1>5, <1>6 DEF WindowIInv

-----------------------------------------------------------------------------
(* fb_pan on a window that was up to date: what it leaves stale, the strip *)
(* or strips it has exposed, is what it queues.                            *)
LEMMA PanQueuesStrips ==
    ASSUME WindowInv, stale = {}, ~redraw_required, panx # 0 \/ pany # 0
    PROVE  /\ PendingArea(QueuedByPan)
           /\ StaleAfterPan \subseteq Covered(QueuedByPan)
  <1> DEFINE down == Copied(stale, 0, pany)
             y == IF pany = 0 THEN Pending ELSE Queued(Pending, StripY)
  <1>0. panx \in Int /\ pany \in Int /\ Width \in Nat /\ Height \in Nat
    BY WindowAssumption DEF WindowInv
  <1>1. StripY \in IntBox /\ StripX \in IntBox
    BY <1>0 DEF StripY, StripX, Box, IntBox
  <1>2. PendingArea(Pending)
    BY PendingNow
  <1>3. PendingArea(y) /\ (pany # 0 => In(StripY) \subseteq Covered(y))
    BY <1>1, <1>2, QueueKeeps
  <1>4. CASE Redone
    <2>1. QueuedByPan = Queued(Pending, Whole) /\ StaleAfterPan = Cells
      BY <1>4 DEF QueuedByPan, StaleAfterPan
    <2> QED BY <2>1, <1>2, BoxTypes, QueueKeeps, WholeIsAll
  <1>5. CASE ~Redone
    <2>1. down \subseteq (IF pany = 0 THEN {} ELSE In(StripY))
      BY <1>0 DEF Copied, Cells, In, StripY, Box
    <2>2. down \subseteq Covered(y)
      BY <2>1, <1>3
    <2>3. CASE panx = 0
      <3>1. QueuedByPan = y
        BY <1>5, <2>3 DEF QueuedByPan
      <3>2. Copied(down, panx, 0) \subseteq down
        BY <1>0, <2>3 DEF Copied, Cells
      <3>3. StaleAfterPan \subseteq down
        BY <1>5, <3>2 DEF StaleAfterPan
      <3> QED BY <3>1, <3>3, <2>2, <1>3
    <2>4. CASE panx # 0
      <3>1. QueuedByPan = Queued(y, StripX)
        BY <1>5, <2>4 DEF QueuedByPan
      <3>2. /\ PendingArea(QueuedByPan)
            /\ Covered(y) \cup In(StripX) \subseteq Covered(QueuedByPan)
        BY <3>1, <1>1, <1>3, QueueKeeps
      <3>3. Copied(down, panx, 0) \subseteq
               In(StripX) \cup (IF pany = 0 THEN {} ELSE In(StripY))
        <4> SUFFICES ASSUME NEW c \in Copied(down, panx, 0), c \notin In(StripX)
                     PROVE  pany # 0 /\ c \in In(StripY)
          OBVIOUS
        <4>1. c \in Cells /\ <<c[1] + panx, c[2]>> \in Cells
          BY <1>0 DEF Copied, Cells, In, StripX, Box
        <4>2. <<c[1] + panx, c[2]>> \in down
          BY <4>1, <1>0 DEF Copied, Cells
        <4>3. pany # 0 /\ <<c[1] + panx, c[2]>> \in In(StripY)
          BY <4>2, <2>1
        <4> QED BY <4>1, <4>3, <1>0 DEF In, StripY, Box, Cells
      <3>4. StaleAfterPan = Copied(down, panx, 0)
        BY <1>5, <2>4 DEF StaleAfterPan
      <3> QED BY <3>2, <3>3, <3>4, <1>3
    <2> QED BY <2>3, <2>4
  <1> QED BY <1>4, <1>5

LEMMA RedrawWindow ==
    ASSUME WindowIInv, Redraw
    PROVE  WindowIInv'
  <1> USE DEF WindowIInv
  <1> DEFINE after == IF pan_required THEN StaleAfterPan ELSE stale
  <1>1. after \subseteq Cells /\ stale' = after \ In(Drawn)
    BY DEF Redraw, StaleAfterPan, Copied, WindowInv
  <1>2. WindowInv'
    <2>1. /\ scrollx' \in Int /\ scrolly' \in Int
          /\ panx' \in Int /\ pany' \in Int /\ pan_required' = FALSE
          /\ panx' = 0 /\ pany' = 0
      BY DEF Redraw, WindowInv, scrollVars
    <2>2. extent' \in Extents /\ stale' \subseteq Cells /\ Cells' = Cells
      BY <1>1 DEF Redraw, WindowInv, Cells
    <2>3. redraw_box' = NoBox /\ redraw_required' = FALSE
      BY DEF Redraw
    <2> QED BY <2>1, <2>2, <2>3 DEF WindowInv, NoBox
  <1>3. ASSUME ~moved' PROVE stale' = {}
    <2>1. CASE Drawn = Whole
      BY <1>1, <2>1, WholeIsAll
    <2>2. CASE Drawn # Whole
      <3>1. ~moved /\ ~(pan_required /\ redraw_required)
        BY <1>3, <2>2 DEF Redraw
      <3>2. stale \subseteq Damage
        BY <3>1 DEF DamageBoxed
      <3>3. CASE ~pan_required
        <4>1. Drawn = redraw_box /\ redraw_required
          BY <2>2, <3>3 DEF Drawn, Pending
        <4> QED BY <4>1, <3>2, <3>3, <1>1 DEF Damage
      <3>4. CASE pan_required
        <4>1. stale = {} /\ ~redraw_required
          BY <3>1, <3>2, <3>4 DEF Damage, WindowInv
        <4>2. CASE panx = 0 /\ pany = 0
          BY <4>1, <4>2, <3>4, <1>1 DEF StaleAfterPan
        <4>3. CASE panx # 0 \/ pany # 0
          <5>1. StaleAfterPan \subseteq Covered(QueuedByPan)
            BY <4>1, <4>3, PanQueuesStrips
          <5>2. Drawn = IF QueuedByPan.required THEN QueuedByPan.box ELSE Whole
            BY <3>4 DEF Drawn
          <5>3. StaleAfterPan \subseteq In(Drawn)
            BY <5>1, <5>2 DEF Covered
          <5> QED BY <5>3, <3>4, <1>1
        <4> QED BY <4>2, <4>3
      <3> QED BY <3>3, <3>4
    <2> QED BY <2>1, <2>2
  <1>4. DamageBoxed'
    BY <1>3 DEF DamageBoxed
  <1> QED BY <1>2, <1>4

LEMMA NextWindow == WindowIInv /\ [Next]_vars => WindowIInv'
  <1> SUFFICES ASSUME WindowIInv, [Next]_vars PROVE WindowIInv'
    OBVIOUS
  <1>1. CASE Scroll
    BY <1>1, ScrollWindow
  <1>2. CASE Redraw
    BY <1>2, RedrawWindow
  <1>3. CASE ToggleOsk \/ Expose
    BY <1>3 DEF ToggleOsk, Expose, WindowIInv, WindowInv, DamageBoxed, Damage,
                scrollVars, In, NoBox
  <1>4. ASSUME NEW r \in Rects, Invalidate(r) PROVE WindowIInv'
    <2>1. InWindow(r) \in IntBox
      BY WindowAssumption DEF InWindow, Box, IntBox, WindowIInv, WindowInv
    <2>2. extent' = extent /\ extent \in Extents
      BY <1>4 DEF Invalidate, WindowIInv, WindowInv
    <2> QED BY <1>4, <2>1, <2>2, QueueWindow DEF Invalidate
  <1>5. ASSUME NEW e \in Extents, NewExtent(e) PROVE WindowIInv'
    BY <1>5, BoxTypes, WholeIsAll, QueueWindow DEF NewExtent
  <1>6. CASE UNCHANGED vars
    BY <1>6 DEF vars, scrollVars, WindowIInv, WindowInv, DamageBoxed, Damage, In, NoBox
  <1> QED BY <1>1, <1>2, <1>3, <1>4, <1>5, <1>6 DEF Next

-----------------------------------------------------------------------------
(* Nothing is queued that no redraw will carry out, whatever the sizes.    *)
THEOREM WindowSafety == Spec => []WindowInv
  <1>1. WindowIInv => WindowInv
    BY DEF WindowIInv
  <1> QED BY <1>1, InitWindow, NextWindow, PTL DEF Spec

(* fb_queue_redraw and fb_pan lose no damage, unless the pan moves pixels  *)
(* that were waiting to be redrawn.                                        *)
THEOREM NoDamageLost == Spec => []DamageBoxed
  <1>1. WindowIInv => DamageBoxed
    BY DEF WindowIInv
  <1> QED BY <1>1, InitWindow, NextWindow, PTL DEF Spec

(* No scroll leads past the end of the document as it is then.             *)
THEOREM ScrollsEndWithin == Spec => WithinDocument
  <1> DEFINE Good == /\ (pany' # pany /\ pany' > 0) => scrolly + pany' + Height <= extent.h
                     /\ (panx' # panx /\ panx' > 0) => scrollx + panx' + Width <= extent.w
  <1>1. ASSUME WindowIInv, [Next]_vars PROVE [Good]_vars
    <2>0. /\ scrollx \in Int /\ scrolly \in Int /\ panx \in Int /\ pany \in Int
          /\ extent.h \in Nat /\ extent.w \in Nat /\ Height \in Nat /\ Width \in Nat
      BY <1>1, WindowAssumption DEF WindowIInv, WindowInv
    <2>1. ASSUME NEW pan \in Int, ScrollY(pan) PROVE Good
      <3>1. pany' \in Int /\ scrolly + pany' <= extent.h - Height /\ panx' = panx
        BY <1>1, <2>0, <2>1, ExtentInt, RoomIsInt DEF ScrollY, WindowIInv
      <3> QED BY <3>1, <2>0
    <2>2. ASSUME NEW pan \in Int, ScrollX(pan) PROVE Good
      <3>1. panx' \in Int /\ scrollx + panx' <= extent.w - Width /\ pany' = pany
        BY <1>1, <2>0, <2>2, ExtentInt, RoomIsInt DEF ScrollX, WindowIInv
      <3> QED BY <3>1, <2>0
    <2>3. CASE Scroll
      BY <2>0, <2>1, <2>2, <2>3, WindowAssumption DEF Scroll
    <2>4. CASE Redraw
      BY <2>4 DEF Redraw, scrollVars
    <2>5. ASSUME UNCHANGED scrollVars PROVE Good
      BY <2>5 DEF scrollVars
    <2>6. ASSUME Next, ~Scroll, ~Redraw PROVE UNCHANGED scrollVars
      BY <2>6 DEF Next, ToggleOsk, Expose, Invalidate, NewExtent
    <2> QED BY <1>1, <2>3, <2>4, <2>5, <2>6
  <1> QED BY <1>1, InitWindow, NextWindow, PTL DEF Spec, WithinDocument

DocumentsFill == \A e \in Extents : e.w >= Width /\ e.h >= Height

(* "dont pan off the top" is kept as long as no document is smaller than   *)
(* the window: the order of the two limits in widget_scroll_y matters only *)
(* then.                                                                   *)
THEOREM TopIsTheLimit == DocumentsFill => (Spec => []NotOffTop)
  <1> SUFFICES ASSUME DocumentsFill PROVE Spec => []NotOffTop
    OBVIOUS
  <1>1. Init => NotOffTop
    BY DEF Init, NotOffTop
  <1>2. ASSUME NotOffTop, WindowIInv, [Next]_vars PROVE NotOffTop'
    <2>0. /\ scrollx \in Int /\ scrolly \in Int /\ panx \in Int /\ pany \in Int
          /\ extent \in Extents
      BY <1>2 DEF WindowIInv, WindowInv
    <2>1. /\ extent.h - Height \in Int /\ extent.h - Height >= 0
          /\ extent.w - Width \in Int /\ extent.w - Width >= 0
      BY <2>0, WindowAssumption DEF DocumentsFill
    <2>2. ASSUME NEW pan \in Int, ScrollY(pan) PROVE NotOffTop'
      BY <1>2, <2>0, <2>1, <2>2, RoomIsInt DEF ScrollY, WindowIInv, NotOffTop
    <2>3. ASSUME NEW pan \in Int, ScrollX(pan) PROVE NotOffTop'
      BY <1>2, <2>0, <2>1, <2>3, RoomIsInt DEF ScrollX, WindowIInv, NotOffTop
    <2>4. CASE Scroll
      BY <2>0, <2>2, <2>3, <2>4, WindowAssumption DEF Scroll
    <2>5. CASE Redraw
      BY <1>2, <2>0, <2>5 DEF Redraw, scrollVars, NotOffTop
    <2>6. ASSUME UNCHANGED scrollVars PROVE NotOffTop'
      BY <1>2, <2>6 DEF scrollVars, NotOffTop
    <2>7. ASSUME Next, ~Scroll, ~Redraw PROVE UNCHANGED scrollVars
      BY <2>7 DEF Next, ToggleOsk, Expose, Invalidate, NewExtent
    <2>8. CASE UNCHANGED vars
      BY <2>6, <2>8 DEF vars
    <2> QED BY <1>2, <2>4, <2>5, <2>6, <2>7, <2>8
  <1> QED BY <1>1, <1>2, InitWindow, NextWindow, PTL DEF Spec
-----------------------------------------------------------------------------
(* MainLoop: the list of callbacks *)

Entry == [callback : Callback, at : Nat]

Entries(q) == {q[i] : i \in DOMAIN q}

\* A list with one entry for a callback at most
Keyed(q) == /\ q \in Seq(Entry)
            /\ \A i, j \in DOMAIN q : q[i].callback = q[j].callback => i = j

\* When the list q has callback c to be called, or None
TimeIn(q, c) == LET mine == {i \in DOMAIN q : q[i].callback = c}
                IN  IF mine = {} THEN None
                    ELSE q[CHOOSE i \in mine : TRUE].at

LEMMA TimeIs ==
    ASSUME NEW q, Keyed(q), NEW c
    PROVE  /\ \A e \in Entries(q) : e.callback = c => TimeIn(q, c) = e.at
           /\ (\A e \in Entries(q) : e.callback # c) => TimeIn(q, c) = None
  <1> DEFINE mine == {i \in DOMAIN q : q[i].callback = c}
             k == CHOOSE i \in mine : TRUE
  <1>1. ASSUME NEW e \in Entries(q), e.callback = c
        PROVE  TimeIn(q, c) = e.at
    <2>1. PICK i \in DOMAIN q : e = q[i]
      BY DEF Entries
    <2>2. i \in mine
      BY <1>1, <2>1
    <2>3. k \in mine
      BY <2>2
    <2>4. k = i
      BY <2>1, <2>3, <1>1 DEF Keyed
    <2>5. TimeIn(q, c) = q[k].at
      BY <2>2 DEF TimeIn
    <2> QED BY <2>1, <2>4, <2>5
  <1>2. ASSUME \A e \in Entries(q) : e.callback # c
        PROVE  TimeIn(q, c) = None
    <2>1. mine = {}
      BY <1>2 DEF Entries
    <2> QED BY <2>1 DEF TimeIn
  <1> QED BY <1>1, <1>2

\* A set of numbers has a least one.
LEMMA Smallest ==
    ASSUME NEW T \in SUBSET Nat, T # {}
    PROVE  \E s \in T : \A t \in T : s <= t
  <1> DEFINE less == {p \in Nat \X Nat : p[1] < p[2]}
  <1>1. IsWellFoundedOn(less, Nat)
    BY NatLessThanWellFounded, Zenon DEF OpToRel
  <1>2. PICK s \in T : \A t \in T : <<t, s>> \notin less
    BY <1>1, WFMin
  <1>3. ASSUME NEW t \in T PROVE s <= t
    <2>1. s \in Nat /\ t \in Nat
      BY <1>2
    <2>2. t < s => <<t, s>> \in less
      BY <2>1
    <2> QED BY <2>1, <2>2, <1>2
  <1> QED BY <1>3

-----------------------------------------------------------------------------
(* schedule_remove goes through the list once.  One turn of its walk: *)
Turn(q, c, n, w) == IF q[n].callback = c THEN w ELSE Append(w, q[n])

\* w is what is left of the first n entries.
LeftOf(q, c, n, w) ==
    /\ Keyed(w)
    /\ Entries(w) = {e \in {q[i] : i \in 1..n} : e.callback # c}

LEMMA TurnLeaves ==
    ASSUME NEW q, Keyed(q), NEW c, NEW n \in 1..Len(q), NEW w,
           LeftOf(q, c, n - 1, w)
    PROVE  LeftOf(q, c, n, Turn(q, c, n, w))
  <1>1. /\ q \in Seq(Entry) /\ Len(q) \in Nat /\ DOMAIN q = 1..Len(q)
        /\ q[n] \in Entry
    BY DEF Keyed
  <1>2. CASE q[n].callback = c
    <2>1. {e \in {q[i] : i \in 1..n} : e.callback # c}
          = {e \in {q[i] : i \in 1..(n - 1)} : e.callback # c}
      BY <1>1, <1>2
    <2> QED BY <1>2, <2>1 DEF LeftOf, Turn
  <1>3. CASE q[n].callback # c
    <2> DEFINE v == Append(w, q[n])
    <2>1. w \in Seq(Entry) /\ Len(w) \in Nat /\ DOMAIN w = 1..Len(w)
      BY DEF LeftOf, Keyed
    <2>2. /\ v \in Seq(Entry) /\ Len(v) = Len(w) + 1 /\ DOMAIN v = 1..(Len(w) + 1)
          /\ \A i \in 1..Len(w) : v[i] = w[i]
          /\ v[Len(w) + 1] = q[n]
      BY <1>1, <2>1, AppendProperties
    <2> HIDE DEF v
    <2>3. \A i \in 1..Len(w) : w[i].callback # q[n].callback
      <3> TAKE i \in 1..Len(w)
      <3>1. w[i] \in Entries(w)
        BY <2>1 DEF Entries
      <3>2. PICK j \in 1..(n - 1) : w[i] = q[j]
        BY <3>1 DEF LeftOf
      <3>3. j \in DOMAIN q /\ n \in DOMAIN q /\ j # n
        BY <1>1
      <3> QED BY <3>2, <3>3 DEF Keyed
    <2>4. Keyed(v)
      <3> SUFFICES ASSUME NEW i \in DOMAIN v, NEW j \in DOMAIN v,
                          v[i].callback = v[j].callback
                   PROVE  i = j
        BY <2>2 DEF Keyed
      <3>1. \A k \in DOMAIN v : k \in 1..Len(w) \/ k = Len(w) + 1
        BY <2>1, <2>2
      <3>2. CASE i \in 1..Len(w) /\ j \in 1..Len(w)
        BY <2>1, <2>2, <3>2 DEF LeftOf, Keyed
      <3>3. CASE i \in 1..Len(w) /\ j = Len(w) + 1
        BY <2>2, <2>3, <3>3
      <3>4. CASE j \in 1..Len(w) /\ i = Len(w) + 1
        BY <2>2, <2>3, <3>4
      <3> QED BY <3>1, <3>2, <3>3, <3>4
    <2>5. Entries(v) = Entries(w) \cup {q[n]}
      <3>1. \A k \in 1..(Len(w) + 1) : k \in 1..Len(w) \/ k = Len(w) + 1
        BY <2>1
      <3>2. \A k \in 1..Len(w) : k \in 1..(Len(w) + 1)
        BY <2>1
      <3>3. Len(w) + 1 \in 1..(Len(w) + 1)
        BY <2>1
      <3> QED BY <2>1, <2>2, <3>1, <3>2, <3>3 DEF Entries
    <2>6. {q[i] : i \in 1..n} = {q[i] : i \in 1..(n - 1)} \cup {q[n]}
      BY <1>1
    <2>7. Entries(v) = {e \in {q[i] : i \in 1..n} : e.callback # c}
      BY <1>3, <2>5, <2>6 DEF LeftOf
    <2> QED BY <1>3, <2>4, <2>7 DEF LeftOf, Turn, v
  <1> QED BY <1>2, <1>3

\* The walk has a value: take the first entry at which it would not.
LEMMA WalkOfList ==
    ASSUME NEW q, Len(q) \in Nat, NEW c
    PROVE  \E kept : /\ Others(q, c) = kept[Len(q)]
                     /\ kept = [n \in 0..Len(q) |->
                                  IF n = 0 THEN <<>>
                                  ELSE Turn(q, c, n, kept[n - 1])]
  <1> DEFINE L == Len(q)
             Solves(g, n) == g = [m \in 0..n |-> IF m = 0 THEN <<>>
                                                 ELSE Turn(q, c, m, g[m - 1])]
             Stuck == {n \in 0..L : ~\E g : Solves(g, n)}
             kept == CHOOSE g : Solves(g, L)
  <1>1. Others(q, c) = kept[L]
    BY DEF Others, Turn
  <1>2. Stuck = {}
    <2> SUFFICES ASSUME Stuck # {} PROVE FALSE
      OBVIOUS
    <2>1. Stuck \in SUBSET Nat
      OBVIOUS
    <2>2. PICK b \in Stuck : \A n \in Stuck : b <= n
      BY <2>1, Smallest
    <2>3. CASE b = 0
      <3> DEFINE g == [m \in 0..0 |-> <<>>]
      <3>1. Solves(g, 0)
        OBVIOUS
      <3> QED BY <3>1, <2>2, <2>3
    <2>4. CASE b # 0
      <3>1. b \in Nat /\ b - 1 \in 0..L /\ b - 1 \notin Stuck
        <4> HIDE DEF Solves
        <4>1. b \in 0..L
          BY <2>2
        <4> HIDE DEF Stuck
        <4> QED BY <4>1, <2>1, <2>2, <2>4
      <3>2. PICK g : Solves(g, b - 1)
        BY <3>1
      <3> DEFINE h == [m \in 0..b |-> IF m = b THEN Turn(q, c, b, g[b - 1]) ELSE g[m]]
      <3>3. \A m \in 0..b : h[m] = IF m = 0 THEN <<>> ELSE Turn(q, c, m, h[m - 1])
        <4> TAKE m \in 0..b
        <4>1. CASE m = b
          BY <4>1, <3>1, <2>4
        <4>2. CASE m # b
          <5>1. m \in 0..(b - 1) /\ h[m] = g[m]
            BY <4>2, <3>1
          <5>2. m # 0 => h[m - 1] = g[m - 1]
            BY <4>2, <3>1
          <5>3. g[m] = IF m = 0 THEN <<>> ELSE Turn(q, c, m, g[m - 1])
            BY <5>1, <3>2
          <5> QED BY <5>1, <5>2, <5>3
        <4> QED BY <4>1, <4>2
      <3>4. h = [m \in 0..b |-> h[m]]
        OBVIOUS
      <3> HIDE DEF h
      <3>5. Solves(h, b)
        BY <3>3, <3>4
      <3> QED BY <3>5, <2>2
    <2> QED BY <2>3, <2>4
  <1>3. \E g : Solves(g, L)
    BY <1>2
  <1>4. Solves(CHOOSE g : Solves(g, L), L)
    BY <1>3
  <1> QED BY <1>1, <1>4

(* schedule_remove removes what it is to remove, and nothing else. *)
LEMMA OthersFacts ==
    ASSUME NEW q, Keyed(q), NEW c
    PROVE  /\ Keyed(Others(q, c))
           /\ Entries(Others(q, c)) = {e \in Entries(q) : e.callback # c}
  <1>1. q \in Seq(Entry) /\ Len(q) \in Nat /\ DOMAIN q = 1..Len(q)
    BY DEF Keyed
  <1>2. PICK kept : /\ Others(q, c) = kept[Len(q)]
                    /\ kept = [n \in 0..Len(q) |->
                                 IF n = 0 THEN <<>>
                                 ELSE Turn(q, c, n, kept[n - 1])]
    BY <1>1, WalkOfList
  <1> DEFINE Bad == {n \in 0..Len(q) : ~LeftOf(q, c, n, kept[n])}
  <1>3. Bad = {}
    <2> SUFFICES ASSUME Bad # {} PROVE FALSE
      OBVIOUS
    <2>1. Bad \in SUBSET Nat
      BY <1>1
    <2>2. PICK b \in Bad : \A n \in Bad : b <= n
      BY <2>1, Smallest
    <2>3. CASE b = 0
      <3>1. kept[0] = <<>>
        BY <1>1, <1>2
      <3>2. Keyed(<<>>) /\ Entries(<<>>) = {}
        BY DEF Keyed, Entries
      <3>3. {e \in {q[i] : i \in 1..0} : e.callback # c} = {}
        OBVIOUS
      <3> QED BY <3>1, <3>2, <3>3, <2>2, <2>3 DEF LeftOf
    <2>4. CASE b # 0
      <3>1. b \in 1..Len(q) /\ b - 1 \in 0..Len(q) /\ b - 1 \notin Bad
        BY <2>2, <2>4, <1>1
      <3>2. kept[b] = Turn(q, c, b, kept[b - 1])
        BY <1>1, <1>2, <3>1, <2>4
      <3> QED BY <3>1, <3>2, <2>2, TurnLeaves
    <2> QED BY <2>3, <2>4
  <1>4. LeftOf(q, c, Len(q), Others(q, c))
    BY <1>1, <1>2, <1>3
  <1> QED BY <1>1, <1>4 DEF LeftOf, Entries

\* An entry in front, for a callback that is not in the list
LEMMA PutInFront ==
    ASSUME NEW q, Keyed(q), NEW f \in Entry,
           \A e \in Entries(q) : e.callback # f.callback
    PROVE  /\ Keyed(<<f>> \o q)
           /\ Entries(<<f>> \o q) = Entries(q) \cup {f}
  <1> DEFINE w == <<f>> \o q
  <1>1. q \in Seq(Entry) /\ Len(q) \in Nat /\ DOMAIN q = 1..Len(q)
    BY DEF Keyed
  <1>2. <<f>> \in Seq(Entry) /\ Len(<<f>>) = 1 /\ <<f>>[1] = f
    OBVIOUS
  <1>3. /\ w \in Seq(Entry) /\ Len(w) = Len(q) + 1
        /\ \A i \in 1..(Len(q) + 1) : w[i] = IF i = 1 THEN f ELSE q[i - 1]
    <2>1. /\ w \in Seq(Entry) /\ Len(w) = Len(<<f>>) + Len(q)
          /\ \A i \in 1..(Len(<<f>>) + Len(q)) :
                w[i] = IF i <= Len(<<f>>) THEN <<f>>[i] ELSE q[i - Len(<<f>>)]
      BY <1>1, <1>2, ConcatProperties
    <2> HIDE DEF w
    <2> QED BY <1>1, <1>2, <2>1
  <1>4. DOMAIN w = 1..(Len(q) + 1)
    BY <1>1, <1>3
  <1> HIDE DEF w
  <1>5. \A i \in 1..(Len(q) + 1) : i = 1 \/ (i - 1 \in 1..Len(q) /\ w[i] = q[i - 1])
    BY <1>1, <1>3
  <1>6. \A i \in 1..Len(q) : i + 1 \in 1..(Len(q) + 1) /\ w[i + 1] = q[i]
    BY <1>1, <1>3
  <1>7. 1 \in 1..(Len(q) + 1) /\ w[1] = f
    BY <1>1, <1>3
  <1>8. Entries(w) = Entries(q) \cup {f}
    <2>1. ASSUME NEW e \in Entries(w) PROVE e \in Entries(q) \cup {f}
      <3>1. PICK i \in 1..(Len(q) + 1) : e = w[i]
        BY <1>4 DEF Entries
      <3> QED BY <3>1, <1>1, <1>5, <1>7 DEF Entries
    <2>2. ASSUME NEW e \in Entries(q) PROVE e \in Entries(w)
      BY <1>1, <1>4, <1>6 DEF Entries
    <2>3. f \in Entries(w)
      BY <1>4, <1>7 DEF Entries
    <2> QED BY <2>1, <2>2, <2>3
  <1>9. \A i \in 1..Len(q) : q[i].callback # f.callback
    BY <1>1 DEF Entries
  <1>10. Keyed(w)
    <2> SUFFICES ASSUME NEW i \in 1..(Len(q) + 1), NEW j \in 1..(Len(q) + 1),
                        w[i].callback = w[j].callback
                 PROVE  i = j
      BY <1>3, <1>4 DEF Keyed
    <2>1. CASE i = 1 /\ j = 1
      BY <2>1
    <2>2. CASE i = 1 /\ j # 1
      BY <2>2, <1>5, <1>7, <1>9
    <2>3. CASE i # 1 /\ j = 1
      BY <2>3, <1>5, <1>7, <1>9
    <2>4. CASE i # 1 /\ j # 1
      <3>1. i - 1 = j - 1
        BY <2>4, <1>1, <1>5 DEF Keyed
      <3> QED BY <3>1
    <2> QED BY <2>1, <2>2, <2>3, <2>4
  <1> QED BY <1>8, <1>10 DEF w

\* schedule_run unlinks the entry that it is at.
LEMMA Unlinked ==
    ASSUME NEW q, Keyed(q), NEW k \in 1..Len(q)
    PROVE  LET w == SubSeq(q, 1, k - 1) \o SubSeq(q, k + 1, Len(q))
           IN  Keyed(w) /\ Entries(w) = Entries(q) \ {q[k]}
  <1> DEFINE a == SubSeq(q, 1, k - 1)
             b == SubSeq(q, k + 1, Len(q))
             w == a \o b
  <1>1. q \in Seq(Entry) /\ Len(q) \in Nat /\ DOMAIN q = 1..Len(q)
        /\ k \in Nat /\ k <= Len(q)
    BY DEF Keyed
  <1>2. /\ a \in Seq(Entry) /\ Len(a) = k - 1
        /\ \A i \in 1..(k - 1) : a[i] = q[i]
    BY <1>1
  <1>3. /\ b \in Seq(Entry) /\ Len(b) = Len(q) - k
        /\ \A i \in 1..(Len(q) - k) : b[i] = q[k + i]
    <2>1. k + 1 \in Int /\ Len(q) \in Int /\ \A i \in (k + 1)..Len(q) : q[i] \in Entry
      BY <1>1
    <2>2. /\ b \in Seq(Entry)
          /\ Len(b) = IF k + 1 <= Len(q) THEN Len(q) - (k + 1) + 1 ELSE 0
          /\ \A i \in 1..(Len(q) - (k + 1) + 1) : b[i] = q[(k + 1) + i - 1]
      BY <2>1, SubSeqProperties
    <2> HIDE DEF b
    <2>3. Len(b) = Len(q) - k
      <3>1. CASE k + 1 <= Len(q)
        <4>1. Len(b) = Len(q) - (k + 1) + 1
          BY <3>1, <2>2
        <4> QED BY ONLY <4>1, <1>1
      <3>2. CASE ~(k + 1 <= Len(q))
        <4>1. Len(b) = 0
          BY <3>2, <2>2
        <4>2. k = Len(q)
          <5>1. \A x, y \in Nat : x <= y /\ ~(x + 1 <= y) => x = y
            OBVIOUS
          <5>2. k \in Nat /\ Len(q) \in Nat /\ k <= Len(q) /\ ~(k + 1 <= Len(q))
            BY ONLY <3>2, <1>1
          <5> QED BY ONLY <5>1, <5>2, Zenon
        <4> QED BY ONLY <4>1, <4>2, <1>1
      <3> QED BY <3>1, <3>2
    <2>4. ASSUME NEW i \in 1..(Len(q) - k) PROVE b[i] = q[k + i]
      <3>1. i \in 1..(Len(q) - (k + 1) + 1) /\ (k + 1) + i - 1 = k + i
        BY <1>1
      <3>2. b[i] = q[(k + 1) + i - 1]
        BY <3>1, <2>2
      <3> QED BY <3>1, <3>2
    <2> QED BY <2>2, <2>3, <2>4
  <1> HIDE DEF a, b
  <1>4. /\ w \in Seq(Entry) /\ Len(w) = Len(q) - 1
        /\ \A i \in 1..(Len(q) - 1) : w[i] = IF i < k THEN q[i] ELSE q[i + 1]
    <2>1. /\ w \in Seq(Entry) /\ Len(w) = Len(a) + Len(b)
          /\ \A i \in 1..(Len(a) + Len(b)) :
                w[i] = IF i <= Len(a) THEN a[i] ELSE b[i - Len(a)]
      BY <1>2, <1>3, ConcatProperties
    <2> HIDE DEF w
    <2>2. Len(w) = Len(q) - 1
      BY <1>1, <1>2, <1>3, <2>1
    <2>3. ASSUME NEW i \in 1..(Len(q) - 1)
          PROVE  w[i] = IF i < k THEN q[i] ELSE q[i + 1]
      <3>0. Len(a) + Len(b) = Len(q) - 1 /\ i \in Int
        BY <1>1, <1>2, <1>3
      <3>1. CASE i < k
        <4>1. i <= Len(a) /\ i \in 1..(k - 1)
          BY <3>1, <1>1, <1>2
        <4>2. w[i] = a[i]
          BY <3>0, <4>1, <2>1
        <4> QED BY <3>1, <4>1, <4>2, <1>2
      <3>2. CASE i >= k
        <4>1. i - (k - 1) \in 1..(Len(q) - k) /\ k + (i - (k - 1)) = i + 1
          BY <3>2, <1>1
        <4>2. w[i] = b[i - (k - 1)]
          <5>1. ~(i <= Len(a)) /\ Len(a) = k - 1
            BY <3>2, <1>1, <1>2
          <5> QED BY <3>0, <5>1, <2>1
        <4> QED BY <3>2, <4>1, <4>2, <1>1, <1>3
      <3> QED BY <3>0, <3>1, <3>2, <1>1
    <2> QED BY <2>1, <2>2, <2>3
  <1> HIDE DEF w
  <1>5. DOMAIN w = 1..(Len(q) - 1)
    BY <1>1, <1>4
  <1>6. \A i \in 1..(Len(q) - 1) :
          IF i < k THEN i \in 1..Len(q) /\ w[i] = q[i]
                   ELSE i + 1 \in 1..Len(q) /\ w[i] = q[i + 1]
    BY <1>1, <1>4
  <1>7. \A i \in 1..Len(q) : \/ i = k
                             \/ i < k /\ i \in 1..(Len(q) - 1) /\ w[i] = q[i]
                             \/ i > k /\ i - 1 \in 1..(Len(q) - 1) /\ w[i - 1] = q[i]
    <2> TAKE i \in 1..Len(q)
    <2>1. CASE i < k
      <3>1. i \in 1..(Len(q) - 1)
        BY <2>1, <1>1
      <3> QED BY <2>1, <3>1, <1>4
    <2>2. CASE i > k
      <3>1. i - 1 \in 1..(Len(q) - 1) /\ ~(i - 1 < k) /\ (i - 1) + 1 = i
        BY <2>2, <1>1
      <3>2. w[i - 1] = q[(i - 1) + 1]
        BY <3>1, <1>4
      <3> QED BY <2>2, <3>1, <3>2
    <2> QED BY <2>1, <2>2, <1>1
  <1>8. \A i \in 1..Len(q) : i # k => q[i] # q[k]
    BY <1>1 DEF Keyed
  <1>9. Entries(w) = Entries(q) \ {q[k]}
    <2>1. ASSUME NEW e \in Entries(w) PROVE e \in Entries(q) /\ e # q[k]
      <3>1. PICK i \in 1..(Len(q) - 1) : e = w[i]
        BY <1>5 DEF Entries
      <3>2. CASE i < k
        BY <3>1, <3>2, <1>1, <1>6, <1>8 DEF Entries
      <3>3. CASE i >= k
        <4>1. i + 1 \in 1..Len(q) /\ w[i] = q[i + 1] /\ i + 1 # k
          BY <3>3, <1>1, <1>6
        <4> QED BY <3>1, <4>1, <1>1, <1>8 DEF Entries
      <3> QED BY <3>2, <3>3, <1>1
    <2>2. ASSUME NEW e \in Entries(q), e # q[k] PROVE e \in Entries(w)
      <3>1. PICK i \in 1..Len(q) : e = q[i]
        BY <1>1 DEF Entries
      <3> QED BY <3>1, <2>2, <1>5, <1>7 DEF Entries
    <2> QED BY <2>1, <2>2
  <1>10. Keyed(w)
    <2> SUFFICES ASSUME NEW i \in 1..(Len(q) - 1), NEW j \in 1..(Len(q) - 1),
                        w[i].callback = w[j].callback
                 PROVE  i = j
      BY <1>4, <1>5 DEF Keyed
    <2> DEFINE at(n) == IF n < k THEN n ELSE n + 1
    <2>1. \A n \in 1..(Len(q) - 1) : at(n) \in 1..Len(q) /\ w[n] = q[at(n)]
      BY <1>6
    <2> HIDE DEF at
    <2>2. at(i) = at(j)
      BY <2>1, <1>1 DEF Keyed
    <2> QED BY <2>2, <1>1 DEF at
  <1> QED BY <1>9, <1>10 DEF w, a, b

-----------------------------------------------------------------------------
(* The invariant of the main loop *)

\* The clock has been sampled, and e is not due by the sample.
Later(e) == tv <= e.at

\* nexttime is the soonest of the entries passed, or the first one.
Walking ==
    /\ schedule_list # <<>> /\ cur <= Len(schedule_list) + 1
    /\ cur = 1 => nexttime = schedule_list[1].at
    /\ cur > 1 => tv <= nexttime
    /\ \A i \in 1..(cur - 1) : nexttime <= schedule_list[i].at

\* What schedule_run has returned is not past the time of any entry.
Returned == \A e \in Entries(schedule_list) :
              timeout >= 0 /\ tv + TicksPerMs * timeout <= e.at

LoopTypes == /\ Keyed(schedule_list)
             /\ now \in Nat /\ tv \in Nat /\ tv <= now
             /\ cur \in Nat \ {0} /\ nexttime \in Nat /\ timeout \in Int
             /\ pc \in {"run", "walk", "callback", "poll", "wait", "event"}

LoopInv ==
    /\ LoopTypes
    /\ fb_complete => pc \in {"run", "event"}
    /\ pc = "walk" => Walking
    /\ pc \in {"walk", "callback"} =>
          \A e \in Entries(schedule_list) : e.callback \in called => Later(e)
    /\ pc = "poll" => Returned

LEMMA InitLoop == LoopInit => LoopInv
  <1> SUFFICES ASSUME LoopInit PROVE LoopInv
    OBVIOUS
  <1>1. Keyed(schedule_list)
    BY DEF LoopInit, Keyed
  <1>2. LoopTypes
    BY <1>1 DEF LoopInit, LoopTypes
  <1> QED BY <1>2 DEF LoopInit, LoopInv

\* The division of schedule_run rounds down.
LEMMA RoundedDown ==
    ASSUME NEW t \in Nat
    PROVE  t \div TicksPerMs \in Nat /\ TicksPerMs * (t \div TicksPerMs) <= t
  <1>1. TicksPerMs \in Nat \ {0}
    BY LoopAssumption
  <1> QED BY <1>1

LEMMA EntryTypes ==
    ASSUME NEW q, Keyed(q)
    PROVE  /\ q \in Seq(Entry) /\ Len(q) \in Nat /\ DOMAIN q = 1..Len(q)
           /\ \A i \in 1..Len(q) : /\ q[i] \in Entries(q)
                                   /\ q[i].callback \in Callback /\ q[i].at \in Nat
           /\ \A e \in Entries(q) : e \in Entry /\ e.callback \in Callback /\ e.at \in Nat
           /\ q # <<>> => Len(q) >= 1
  <1>1. q \in Seq(Entry) /\ Len(q) \in Nat /\ DOMAIN q = 1..Len(q)
    BY DEF Keyed
  <1>2. \A i \in 1..Len(q) : q[i] \in Entry /\ q[i] \in Entries(q)
    BY <1>1 DEF Entries
  <1>3. \A e \in Entries(q) : e \in Entry
    BY <1>1, <1>2 DEF Entries
  <1>4. \A e \in Entry : e.callback \in Callback /\ e.at \in Nat
    BY DEF Entry
  <1>5. q # <<>> => Len(q) >= 1
    BY <1>1
  <1> QED BY <1>1, <1>2, <1>3, <1>4, <1>5

-----------------------------------------------------------------------------
(* Every step keeps it. *)

LEMMA RunStartStep == LoopInv /\ RunStart => LoopInv'
  <1> SUFFICES ASSUME LoopInv, RunStart PROVE LoopInv'
    OBVIOUS
  <1>1. /\ schedule_list' = schedule_list /\ now' = now /\ tv' = now
        /\ cur' = 1 /\ nexttime' = schedule_list[1].at /\ called' = {}
        /\ pc' = "walk" /\ timeout' = timeout /\ schedule_list # <<>>
        /\ ~fb_complete /\ ~fb_complete'
    BY DEF RunStart, Restart, LoopInv, LoopTypes
  <1>2. Keyed(schedule_list) /\ now \in Nat /\ timeout \in Int
    BY DEF LoopInv, LoopTypes
  <1>3. Len(schedule_list) \in Nat /\ Len(schedule_list) >= 1 /\ schedule_list[1].at \in Nat
    BY <1>1, <1>2, EntryTypes
  <1>4. LoopTypes'
    BY <1>1, <1>2, <1>3 DEF LoopTypes, Keyed
  <1>5. Walking'
    BY <1>1, <1>3 DEF Walking
  <1> QED BY <1>1, <1>4, <1>5 DEF LoopInv

LEMMA CallStep == LoopInv /\ Call =>
                     /\ LoopInv' /\ ~fb_complete /\ running' \in Callback
                     /\ running' \notin called
                     /\ \E e \in Entries(schedule_list) :
                          /\ e.callback = running' /\ e.at < now
                          /\ Entries(schedule_list') = Entries(schedule_list) \ {e}
  <1> SUFFICES ASSUME LoopInv, Call
               PROVE  /\ LoopInv' /\ ~fb_complete /\ running' \in Callback
                      /\ running' \notin called
                      /\ \E e \in Entries(schedule_list) :
                           /\ e.callback = running' /\ e.at < now
                           /\ Entries(schedule_list') = Entries(schedule_list) \ {e}
    OBVIOUS
  <1> DEFINE q == schedule_list
             e == schedule_list[cur]
  <1>1. /\ pc = "walk" /\ cur <= Len(q) /\ tv > e.at /\ running' = e.callback
        /\ called' = called \cup {e.callback} /\ pc' = "callback"
        /\ schedule_list' = SubSeq(q, 1, cur - 1) \o SubSeq(q, cur + 1, Len(q))
        /\ now' = now /\ tv' = tv /\ cur' = cur /\ nexttime' = nexttime
        /\ timeout' = timeout /\ fb_complete' = fb_complete
    BY DEF Call, Due
  <1>2. /\ Keyed(q) /\ cur \in Nat \ {0} /\ now \in Nat /\ tv \in Nat /\ tv <= now
        /\ nexttime \in Nat /\ timeout \in Int
        /\ ~fb_complete
        /\ \A f \in Entries(q) : f.callback \in called => Later(f)
    BY <1>1 DEF LoopInv, LoopTypes
  <1>3. Len(q) \in Nat /\ cur \in 1..Len(q)
    BY <1>1, <1>2, EntryTypes
  <1>4. e \in Entries(q) /\ e.callback \in Callback /\ e.at \in Nat
    BY <1>2, <1>3, EntryTypes
  <1>5. Keyed(schedule_list') /\ Entries(schedule_list') = Entries(q) \ {e}
    BY <1>1, <1>2, <1>3, Unlinked
  <1>6. \A f \in Entries(q) : f.callback = e.callback => f = e
    BY <1>2, <1>3 DEF Keyed, Entries
  <1> HIDE DEF e, q
  <1>7. e.at < now /\ e.callback \notin called
    BY <1>1, <1>2, <1>4 DEF Later
  <1>8. LoopTypes'
    BY <1>1, <1>2, <1>5 DEF LoopTypes
  <1>9. \A f \in Entries(schedule_list') : f.callback \in called' => tv' <= f.at
    BY <1>1, <1>2, <1>5, <1>6 DEF Later
  <1>10. LoopInv'
    BY <1>1, <1>2, <1>8, <1>9 DEF LoopInv, Later
  <1> QED BY <1>1, <1>2, <1>4, <1>5, <1>7, <1>10 DEF q

LEMMA CallbackReturnsStep == LoopInv /\ CallbackReturns => LoopInv'
  <1> SUFFICES ASSUME LoopInv, CallbackReturns PROVE LoopInv'
    OBVIOUS
  <1>1. /\ pc = "callback" /\ schedule_list' = schedule_list /\ now' = now /\ tv' = tv
        /\ called' = called /\ fb_complete' = fb_complete
    BY DEF CallbackReturns
  <1>2. /\ Keyed(schedule_list) /\ now \in Nat /\ tv \in Nat /\ tv <= now
        /\ cur \in Nat \ {0} /\ nexttime \in Nat /\ timeout \in Int
        /\ ~fb_complete
        /\ \A f \in Entries(schedule_list) : f.callback \in called => Later(f)
    BY <1>1 DEF LoopInv, LoopTypes
  <1>3. CASE /\ schedule_list = <<>> /\ timeout' = -1 /\ pc' = "poll"
             /\ UNCHANGED <<cur, nexttime>>
    <2>1. LoopTypes'
      BY <1>1, <1>2, <1>3 DEF LoopTypes, Keyed
    <2>2. Entries(schedule_list') = {}
      BY <1>1, <1>3 DEF Entries
    <2> QED BY <1>1, <1>2, <1>3, <2>1, <2>2 DEF LoopInv, Returned
  <1>4. CASE schedule_list # <<>> /\ Restart /\ pc' = "walk" /\ UNCHANGED timeout
    <2>1. /\ Len(schedule_list) \in Nat /\ Len(schedule_list) >= 1
          /\ schedule_list[1].at \in Nat
      BY <1>2, <1>4, EntryTypes
    <2>2. LoopTypes'
      BY <1>1, <1>2, <1>4, <2>1 DEF LoopTypes, Keyed, Restart
    <2>3. Walking'
      BY <1>1, <1>4, <2>1 DEF Walking, Restart
    <2> QED BY <1>1, <1>2, <1>4, <2>2, <2>3 DEF LoopInv, Later
  <1> QED BY <1>3, <1>4 DEF CallbackReturns

LEMMA StepOverStep == LoopInv /\ StepOver => LoopInv'
  <1> SUFFICES ASSUME LoopInv, StepOver PROVE LoopInv'
    OBVIOUS
  <1> DEFINE e == schedule_list[cur]
  <1>1. /\ pc = "walk" /\ pc' = "walk" /\ cur <= Len(schedule_list) /\ ~(tv > e.at)
        /\ nexttime' = IF nexttime > e.at THEN e.at ELSE nexttime
        /\ cur' = cur + 1 /\ schedule_list' = schedule_list /\ now' = now /\ tv' = tv
        /\ called' = called /\ timeout' = timeout /\ fb_complete' = fb_complete
    BY DEF StepOver, Due, Sooner
  <1>2. /\ Keyed(schedule_list) /\ now \in Nat /\ tv \in Nat /\ tv <= now
        /\ cur \in Nat \ {0} /\ nexttime \in Nat /\ timeout \in Int
        /\ ~fb_complete /\ Walking
        /\ \A f \in Entries(schedule_list) : f.callback \in called => Later(f)
    BY <1>1 DEF LoopInv, LoopTypes
  <1>3. /\ Len(schedule_list) \in Nat /\ cur \in 1..Len(schedule_list)
        /\ \A i \in 1..Len(schedule_list) : schedule_list[i].at \in Nat
    BY <1>1, <1>2, EntryTypes
  <1>4. e.at \in Nat /\ tv <= e.at
    BY <1>1, <1>2, <1>3
  <1>5. /\ nexttime' \in Nat /\ nexttime' <= nexttime /\ nexttime' <= e.at
        /\ nexttime' = e.at \/ nexttime' = nexttime
    BY <1>1, <1>2, <1>4
  <1>6. tv <= nexttime'
    <2>1. CASE cur = 1
      <3>1. nexttime = e.at
        BY <2>1, <1>2 DEF Walking
      <3> QED BY <3>1, <1>4, <1>5
    <2>2. CASE cur > 1
      BY <2>2, <1>2, <1>4, <1>5 DEF Walking
    <2> QED BY <2>1, <2>2, <1>2
  <1>7. ASSUME NEW i \in 1..cur PROVE nexttime' <= schedule_list[i].at
    <2>1. CASE i = cur
      BY <2>1, <1>5
    <2>2. CASE i \in 1..(cur - 1)
      <3>1. nexttime <= schedule_list[i].at /\ schedule_list[i].at \in Nat
        BY <2>2, <1>2, <1>3 DEF Walking
      <3> QED BY <3>1, <1>2, <1>5
    <2> QED BY <2>1, <2>2, <1>2
  <1> HIDE DEF e
  <1>8. LoopTypes'
    BY <1>1, <1>2, <1>5 DEF LoopTypes, Keyed
  <1>9. Walking'
    <2>1. cur' - 1 = cur /\ cur' # 1 /\ cur' <= Len(schedule_list) + 1
      BY <1>1, <1>2, <1>3
    <2> QED BY <1>1, <1>2, <1>6, <1>7, <2>1 DEF Walking
  <1> QED BY <1>1, <1>2, <1>8, <1>9 DEF LoopInv, Later

LEMMA RunReturnsStep == LoopInv /\ RunReturns => LoopInv'
  <1> SUFFICES ASSUME LoopInv, RunReturns PROVE LoopInv'
    OBVIOUS
  <1> DEFINE t == (nexttime - tv) \div TicksPerMs
  <1>1. /\ pc = "walk" /\ pc' = "poll" /\ cur > Len(schedule_list) /\ timeout' = t
        /\ schedule_list' = schedule_list /\ now' = now /\ tv' = tv /\ cur' = cur
        /\ nexttime' = nexttime /\ fb_complete' = fb_complete
    BY DEF RunReturns, walkVars
  <1>2. /\ Keyed(schedule_list) /\ now \in Nat /\ tv \in Nat /\ tv <= now
        /\ cur \in Nat \ {0} /\ nexttime \in Nat
        /\ ~fb_complete /\ Walking
    BY <1>1 DEF LoopInv, LoopTypes
  <1>3. Len(schedule_list) \in Nat /\ Len(schedule_list) >= 1
    BY <1>2, EntryTypes DEF Walking
  <1>4. tv <= nexttime /\ nexttime - tv \in Nat
    BY <1>1, <1>2, <1>3 DEF Walking
  <1>5. t \in Nat /\ TicksPerMs * t <= nexttime - tv
    BY <1>4, RoundedDown
  <1>6. TicksPerMs \in Nat
    BY LoopAssumption
  <1> HIDE DEF t
  <1>7. tv + TicksPerMs * t <= nexttime
    <2>1. TicksPerMs * t \in Nat
      BY <1>5, <1>6
    <2> QED BY <1>2, <1>5, <2>1
  <1>8. ASSUME NEW e \in Entries(schedule_list) PROVE tv + TicksPerMs * t <= e.at
    <2>1. PICK i \in 1..Len(schedule_list) : e = schedule_list[i]
      BY <1>2, EntryTypes DEF Entries
    <2>2. i \in 1..(cur - 1) /\ e.at \in Nat
      BY <2>1, <1>1, <1>2, <1>3, EntryTypes
    <2>3. nexttime <= e.at
      BY <2>1, <2>2, <1>2 DEF Walking
    <2>4. tv + TicksPerMs * t \in Int
      BY <1>2, <1>5, <1>6
    <2> QED BY <1>2, <1>7, <2>2, <2>3, <2>4
  <1>9. LoopTypes'
    BY <1>1, <1>2, <1>5 DEF LoopTypes, Keyed
  <1> QED BY <1>1, <1>2, <1>5, <1>8, <1>9 DEF LoopInv, Returned

\* framebuffer_schedule, as it changes the entries of the list
Rescheduled(c, d) ==
    LET rest == {e \in Entries(schedule_list) : e.callback # c}
    IN  IF d < 0 THEN rest ELSE rest \cup {[callback |-> c, at |-> now + d * TicksPerMs]}

LEMMA ScheduledIs ==
    ASSUME LoopInv, NEW c \in Callback, NEW d \in Delays
    PROVE  /\ Keyed(Scheduled(c, d))
           /\ Entries(Scheduled(c, d)) = Rescheduled(c, d)
           /\ d >= 0 => now + d * TicksPerMs \in Nat /\ now + d * TicksPerMs >= now
           /\ d \in Int
  <1> DEFINE o == Others(schedule_list, c)
             f == [callback |-> c, at |-> now + d * TicksPerMs]
  <1>1. Keyed(schedule_list) /\ now \in Nat
    BY DEF LoopInv, LoopTypes
  <1>2. Keyed(o) /\ Entries(o) = {e \in Entries(schedule_list) : e.callback # c}
    BY <1>1, OthersFacts
  <1>3. d \in Int /\ (d >= 0 => d \in Nat)
    BY LoopAssumption
  <1>4. d >= 0 => now + d * TicksPerMs \in Nat /\ now + d * TicksPerMs >= now
    <2> SUFFICES ASSUME d >= 0
                 PROVE  now + d * TicksPerMs \in Nat /\ now + d * TicksPerMs >= now
      OBVIOUS
    <2>1. d * TicksPerMs \in Nat
      BY <1>3, LoopAssumption
    <2> QED BY <2>1, <1>1
  <1> HIDE DEF o
  <1>5. CASE d < 0
    BY <1>2, <1>3, <1>4, <1>5 DEF Scheduled, Rescheduled, o
  <1>6. CASE d >= 0
    <2>1. f \in Entry /\ f.callback = c
      BY <1>4, <1>6 DEF Entry
    <2>2. \A e \in Entries(o) : e.callback # f.callback
      BY <2>1, <1>2
    <2>3. Scheduled(c, d) = <<f>> \o o
      BY <1>3, <1>6 DEF Scheduled, o
    <2> HIDE DEF f
    <2>4. Keyed(<<f>> \o o) /\ Entries(<<f>> \o o) = Entries(o) \cup {f}
      BY <1>2, <2>1, <2>2, PutInFront
    <2>5. Entries(o) \cup {f} = Rescheduled(c, d)
      BY <1>2, <1>3, <1>6 DEF Rescheduled, f
    <2> QED BY <1>3, <1>4, <2>3, <2>4, <2>5
  <1> QED BY <1>3, <1>5, <1>6

LEMMA ScheduleStep ==
    ASSUME LoopInv, NEW c \in Callback, NEW d \in Delays, framebuffer_schedule(c, d)
    PROVE  LoopInv'
  <1>1. /\ pc \in {"callback", "event"} /\ pc' = pc /\ schedule_list' = Scheduled(c, d)
        /\ now' = now /\ tv' = tv /\ cur' = cur /\ nexttime' = nexttime
        /\ called' = called /\ timeout' = timeout /\ fb_complete' = fb_complete
    BY DEF framebuffer_schedule, InHandler, walkVars
  <1>2. /\ now \in Nat /\ tv \in Nat /\ tv <= now
        /\ cur \in Nat \ {0} /\ nexttime \in Nat /\ timeout \in Int
        /\ fb_complete => pc \in {"run", "event"}
        /\ pc = "callback" =>
             \A f \in Entries(schedule_list) : f.callback \in called => Later(f)
    BY DEF LoopInv, LoopTypes
  <1>3. /\ Keyed(schedule_list') /\ Entries(schedule_list') = Rescheduled(c, d)
        /\ d >= 0 => now + d * TicksPerMs \in Nat /\ now + d * TicksPerMs >= now
        /\ d \in Int
    BY <1>1, ScheduledIs
  <1>4. LoopTypes'
    BY <1>1, <1>2, <1>3 DEF LoopTypes
  <1>5. ASSUME pc = "callback", NEW e \in Entries(schedule_list'), e.callback \in called
        PROVE  tv <= e.at
    <2>1. CASE e \in Entries(schedule_list)
      BY <1>2, <1>5, <2>1 DEF Later
    <2>2. CASE e \notin Entries(schedule_list)
      <3>1. d >= 0 /\ e = [callback |-> c, at |-> now + d * TicksPerMs]
        BY <1>3, <1>5, <2>2 DEF Rescheduled
      <3> HIDE DEF Rescheduled
      <3>2. e.at = now + d * TicksPerMs
        BY <3>1
      <3> QED BY <3>1, <3>2, <1>2, <1>3
    <2> QED BY <2>1, <2>2
  <1> QED BY <1>1, <1>2, <1>4, <1>5 DEF LoopInv, Later

\* The steps that leave the list and its walk alone
Resting == UNCHANGED <<schedule_list, tv, cur, nexttime, called>>

LEMMA RestingStep ==
    ASSUME LoopInv, Resting, now' \in Nat, now' >= now, timeout' \in Int,
           pc' \in {"run", "walk", "callback", "poll", "wait", "event"},
           fb_complete' => pc' \in {"run", "event"},
           pc' \in {"walk", "callback"} => pc' = pc,
           pc' = "poll" => Returned'
    PROVE  LoopInv'
  <1>1. /\ Keyed(schedule_list) /\ now \in Nat /\ tv \in Nat /\ tv <= now
        /\ cur \in Nat \ {0} /\ nexttime \in Nat
    BY DEF LoopInv, LoopTypes
  <1>2. LoopTypes'
    BY <1>1 DEF LoopTypes, Resting, Keyed
  <1>3. pc' = "walk" => Walking'
    BY DEF LoopInv, Walking, Resting
  <1>4. pc' \in {"walk", "callback"} =>
           \A e \in Entries(schedule_list') : e.callback \in called' => tv' <= e.at
    BY DEF LoopInv, Later, Resting
  <1> QED BY <1>2, <1>3, <1>4 DEF LoopInv, Later

LEMMA OtherSteps ==
    ASSUME LoopInv,
           \/ RunNothing \/ Poll \/ Expire \/ fbtk_redraw \/ RequestRedraw
           \/ Event \/ Quit \/ Tick \/ UNCHANGED loopVars
    PROVE  LoopInv' /\ schedule_list' = schedule_list
  <1>0. /\ now \in Nat /\ timeout \in Int /\ LoopAssumption
        /\ pc \in {"run", "walk", "callback", "poll", "wait", "event"}
        /\ fb_complete => pc \in {"run", "event"}
        /\ pc = "poll" => Returned
    BY LoopAssumption DEF LoopInv, LoopTypes
  <1>1. CASE RunNothing
    <2>1. /\ Resting /\ now' = now /\ timeout' = -1 /\ pc' = "poll" /\ ~fb_complete'
          /\ Entries(schedule_list') = {} /\ schedule_list' = schedule_list
      BY <1>1 DEF RunNothing, Resting, walkVars, Entries
    <2>2. Returned'
      BY <2>1 DEF Returned
    <2> QED BY <2>1, <2>2, <1>0, RestingStep
  <1>2. CASE Poll
    <2>1. /\ Resting /\ now' = now /\ timeout' = timeout /\ pc' = "wait"
          /\ pc = "poll" /\ fb_complete' = fb_complete
      BY <1>2 DEF Poll, Resting, walkVars
    <2> QED BY <2>1, <1>0, RestingStep DEF Resting
  <1>3. CASE Expire \/ Event
    <2>1. /\ Resting /\ now' = now /\ timeout' = timeout /\ pc' = "event"
      BY <1>3 DEF Expire, Event, Resting, walkVars
    <2> QED BY <2>1, <1>0, RestingStep DEF Resting
  <1>4. CASE fbtk_redraw
    <2>1. /\ Resting /\ now' = now /\ timeout' = timeout /\ pc' = "run"
      BY <1>4 DEF fbtk_redraw, Resting, walkVars
    <2> QED BY <2>1, <1>0, RestingStep DEF Resting
  <1>5. CASE Quit
    <2>1. /\ Resting /\ now' = now /\ timeout' = timeout /\ pc' = "event"
      BY <1>5 DEF Quit, Resting, walkVars
    <2> QED BY <2>1, <1>0, RestingStep DEF Resting
  <1>6. CASE RequestRedraw \/ Tick \/ UNCHANGED loopVars
    <2>1. /\ Resting /\ timeout' = timeout /\ pc' = pc /\ fb_complete' = fb_complete
          /\ schedule_list' = schedule_list
      BY <1>6 DEF RequestRedraw, Tick, loopVars, Resting, walkVars
    <2>2. now' \in Nat /\ now' >= now
      BY <1>0, <1>6 DEF RequestRedraw, Tick, loopVars
    <2>3. Returned => Returned'
      BY <2>1 DEF Returned, Resting
    <2> QED BY <2>1, <2>2, <2>3, <1>0, RestingStep
  <1> QED BY <1>1, <1>2, <1>3, <1>4, <1>5, <1>6

LEMMA NextLoop == LoopInv /\ [LoopNext]_loopVars => LoopInv'
  <1> SUFFICES ASSUME LoopInv, [LoopNext]_loopVars PROVE LoopInv'
    OBVIOUS
  <1>1. CASE RunStart
    BY <1>1, RunStartStep
  <1>2. CASE Call
    BY <1>2, CallStep
  <1>3. CASE CallbackReturns
    BY <1>3, CallbackReturnsStep
  <1>4. CASE StepOver
    BY <1>4, StepOverStep
  <1>5. CASE RunReturns
    BY <1>5, RunReturnsStep
  <1>6. ASSUME NEW c \in Callback, NEW d \in Delays, framebuffer_schedule(c, d)
        PROVE  LoopInv'
    BY <1>6, ScheduleStep
  <1>7. CASE \/ RunNothing \/ Poll \/ Expire \/ fbtk_redraw \/ RequestRedraw
             \/ Event \/ Quit \/ Tick \/ UNCHANGED loopVars
    BY <1>7, OtherSteps
  <1> QED BY <1>1, <1>2, <1>3, <1>4, <1>5, <1>6, <1>7 DEF LoopNext, RunNext, HandlerNext

(* The list, its walk and what schedule_run returns are in step, whatever  *)
(* callbacks and event handlers schedule and cancel meanwhile.             *)
THEOREM LoopSafety == LoopSpec => []LoopInv
  <1> QED BY InitLoop, NextLoop, PTL DEF LoopSpec

(* A pass of schedule_run calls no callback twice.                         *)
THEOREM CallsOnce == LoopSpec => OncePerPass
  <1>1. LoopInv /\ [LoopNext]_loopVars =>
          [(pc = "walk" /\ pc' = "callback") => running' \notin called]_loopVars
    <2> SUFFICES ASSUME LoopInv, LoopNext, pc = "walk", pc' = "callback"
                 PROVE  running' \notin called
      OBVIOUS
    <2>1. CASE Call
      BY <2>1, CallStep
    <2>2. CASE RunNothing \/ RunStart \/ CallbackReturns
      BY <2>2 DEF RunNothing, RunStart, CallbackReturns
    <2>3. CASE StepOver \/ RunReturns
      BY <2>3 DEF StepOver, RunReturns
    <2>4. CASE Poll \/ Expire \/ fbtk_redraw \/ Event \/ Quit \/ Tick
      BY <2>4 DEF Poll, Expire, fbtk_redraw, Event, Quit, Tick
    <2>5. CASE HandlerNext
      BY <2>5 DEF HandlerNext, framebuffer_schedule, RequestRedraw
    <2> QED BY <2>1, <2>2, <2>3, <2>4, <2>5 DEF LoopNext, RunNext
  <1> QED BY <1>1, LoopSafety, PTL DEF LoopSpec, OncePerPass

LEMMA SoonestIs ==
    ASSUME Keyed(schedule_list), schedule_list # <<>>
    PROVE  \E e \in Entries(schedule_list) : Soonest = e.at
  <1> DEFINE ats == {schedule_list[i].at : i \in DOMAIN schedule_list}
  <1>1. /\ DOMAIN schedule_list = 1..Len(schedule_list) /\ Len(schedule_list) \in Nat
        /\ Len(schedule_list) >= 1
        /\ \A i \in 1..Len(schedule_list) : schedule_list[i].at \in Nat
    BY EntryTypes
  <1>2. ats \in SUBSET Nat /\ ats # {}
    BY <1>1
  <1>3. \E t \in ats : \A u \in ats : t <= u
    BY <1>2, Smallest
  <1>4. Soonest \in ats
    BY <1>3 DEF Soonest
  <1> QED BY <1>4 DEF Entries

\* The wait is no longer than schedule_run has said.
LEMMA CappedIs ==
    ASSUME NEW t \in Nat, NEW u \in {0, t}
    PROVE  Capped(u) \in Nat /\ TicksPerMs * Capped(u) <= TicksPerMs * t
  <1>1. MaxPoll \in Nat /\ TicksPerMs \in Nat
    BY LoopAssumption
  <1>2. Capped(u) \in Nat /\ Capped(u) <= t
    BY <1>1 DEF Capped
  <1>3. \A m, n, k \in Nat : m <= n => k * m <= k * n
    OBVIOUS
  <1> QED BY <1>1, <1>2, <1>3

(* The wait for events ends in time for the next callback, but for what    *)
(* the callbacks of this pass have taken.                                  *)
THEOREM LateByNoMore == LoopSpec => LateByCallbacks
  <1>1. LoopInv /\ [LoopNext]_loopVars =>
          [(pc = "poll" /\ pc' = "wait" /\ schedule_list # <<>>) =>
              wake' <= Soonest + (now - tv)]_loopVars
    <2> SUFFICES ASSUME LoopInv, LoopNext, pc = "poll", pc' = "wait",
                        schedule_list # <<>>
                 PROVE  wake' <= Soonest + (now - tv)
      OBVIOUS
    <2>1. Poll
      <3>1. ~RunNothing /\ ~RunStart /\ ~Call /\ ~CallbackReturns
        BY DEF RunNothing, RunStart, Call, CallbackReturns
      <3>2. ~StepOver /\ ~RunReturns /\ ~Expire /\ ~fbtk_redraw /\ ~Event /\ ~Quit
        BY DEF StepOver, RunReturns, Expire, fbtk_redraw, Event, Quit
      <3>3. ~Tick /\ ~HandlerNext
        BY DEF Tick, HandlerNext, framebuffer_schedule, RequestRedraw, InHandler
      <3> QED BY <3>1, <3>2, <3>3 DEF LoopNext, RunNext
    <2>2. /\ Keyed(schedule_list) /\ now \in Nat /\ tv \in Nat /\ timeout \in Int
          /\ Returned
      BY DEF LoopInv, LoopTypes
    <2>3. PICK e \in Entries(schedule_list) : Soonest = e.at
      BY <2>2, SoonestIs
    <2>4. /\ timeout \in Nat /\ tv + TicksPerMs * timeout <= e.at /\ e.at \in Nat
      BY <2>2, <2>3, EntryTypes DEF Returned
    <2> DEFINE u == IF redraw THEN 0 ELSE timeout
    <2>5. u \in {0, timeout}
      OBVIOUS
    <2>6. wake' = now + TicksPerMs * Capped(u)
      BY <2>1 DEF Poll
    <2> HIDE DEF u
    <2>7. Capped(u) \in Nat /\ TicksPerMs * Capped(u) <= TicksPerMs * timeout
      BY <2>4, <2>5, CappedIs
    <2>8. TicksPerMs * Capped(u) \in Nat /\ TicksPerMs * timeout \in Nat
      BY <2>4, <2>7, LoopAssumption
    <2> QED BY <2>2, <2>3, <2>4, <2>6, <2>7, <2>8
  <1> QED BY <1>1, LoopSafety, PTL DEF LoopSpec, LateByCallbacks

-----------------------------------------------------------------------------
(* The list as timers *)

LEMMA SameTime ==
    ASSUME NEW p, Keyed(p), NEW q, Keyed(q), NEW k,
           \A e : e.callback = k => (e \in Entries(p) <=> e \in Entries(q))
    PROVE  TimeIn(p, k) = TimeIn(q, k)
  <1>1. CASE \E e \in Entries(p) : e.callback = k
    <2>1. PICK e \in Entries(p) : e.callback = k
      BY <1>1
    <2>2. e \in Entries(q)
      BY <2>1
    <2> QED BY <2>1, <2>2, TimeIs
  <1>2. CASE \A e \in Entries(p) : e.callback # k
    <2>1. \A e \in Entries(q) : e.callback # k
      BY <1>2
    <2> QED BY <1>2, <2>1, TimeIs
  <1> QED BY <1>1, <1>2

Times(q) == [c \in Callback |-> TimeIn(q, c)]

LEMMA DueIsTimes ==
    /\ [c \in Callback |-> At(c)] = Times(schedule_list)
    /\ [c \in Callback |-> At(c)]' = Times(schedule_list')
  BY DEF At, Times, TimeIn

\* The timers when one callback's entry has changed
LEMMA TimesChanged ==
    ASSUME NEW p, Keyed(p), NEW q, Keyed(q), NEW c \in Callback,
           \A e : e.callback # c => (e \in Entries(p) <=> e \in Entries(q))
    PROVE  Times(q) = [Times(p) EXCEPT ![c] = TimeIn(q, c)]
  <1>1. ASSUME NEW k \in Callback, k # c PROVE TimeIn(q, k) = TimeIn(p, k)
    BY <1>1, SameTime
  <1> QED BY <1>1 DEF Times

\* A callback is running exactly while the main thread is in it.
ClientInv == running # None <=> pc = "callback"

LEMMA ClientStep == LoopInv /\ ClientInv /\ [LoopNext]_loopVars => ClientInv'
  <1> SUFFICES ASSUME LoopInv, ClientInv, [LoopNext]_loopVars PROVE ClientInv'
    OBVIOUS
  <1>1. CASE Call
    <2>1. running' \in Callback /\ pc' = "callback"
      BY <1>1, CallStep DEF Call
    <2> QED BY <2>1, LoopAssumption DEF ClientInv
  <1>2. CASE CallbackReturns
    BY <1>2 DEF CallbackReturns, ClientInv
  <1>3. CASE RunNothing \/ RunStart \/ StepOver \/ RunReturns \/ Poll \/ Expire
             \/ fbtk_redraw
    BY <1>3 DEF RunNothing, RunStart, StepOver, RunReturns, Poll, Expire,
                fbtk_redraw, walkVars, ClientInv
  <1>4. CASE HandlerNext
    BY <1>4 DEF HandlerNext, framebuffer_schedule, RequestRedraw, walkVars, ClientInv
  <1>5. CASE Event \/ Quit \/ Tick \/ UNCHANGED loopVars
    BY <1>5 DEF Event, Quit, Tick, loopVars, walkVars, ClientInv
  <1> QED BY <1>1, <1>2, <1>3, <1>4, <1>5 DEF LoopNext, RunNext

LEMMA CallFires ==
    LoopInv /\ ClientInv /\ Call => \E c \in Callback : Abs!Fire(c)
  <1> SUFFICES ASSUME LoopInv, ClientInv, Call
               PROVE  \E c \in Callback : Abs!Fire(c)
    OBVIOUS
  <1> DEFINE p == schedule_list
             q == schedule_list'
             c == running'
  <1>1. Keyed(p) /\ Keyed(q) /\ now \in Nat
    BY CallStep DEF LoopInv, LoopTypes
  <1>2. PICK e \in Entries(p) : /\ e.callback = c /\ e.at < now
                                /\ Entries(q) = Entries(p) \ {e}
    BY CallStep
  <1>3. c \in Callback /\ ~fb_complete
    BY CallStep
  <1>4. now' = now /\ fb_complete' = fb_complete
    BY DEF Call
  <1>5. e.at \in Nat /\ TimeIn(p, c) = e.at /\ e.at # None
    BY <1>1, <1>2, EntryTypes, TimeIs, LoopAssumption
  <1>6. \A f \in Entries(q) : f.callback # c
    <2>1. \A f, g \in Entries(p) : f.callback = g.callback => f = g
      BY <1>1 DEF Keyed, Entries
    <2> QED BY <1>2, <2>1
  <1>7. TimeIn(q, c) = None
    BY <1>1, <1>6, TimeIs
  <1>8. Times(q) = [Times(p) EXCEPT ![c] = None]
    <2>1. \A f : f.callback # c => (f \in Entries(p) <=> f \in Entries(q))
      BY <1>2
    <2> HIDE DEF c, p, q
    <2> QED BY <1>1, <1>3, <1>7, <2>1, TimesChanged
  <1>9. Times(p)[c] = e.at
    BY <1>3, <1>5 DEF Times
  <1>10. Abs!Fire(c)
    <2> DEFINE d == [k \in Callback |-> At(k)]
    <2>1. d = Times(p) /\ d' = Times(q)
      BY DueIsTimes
    <2> HIDE DEF d
    <2>2. /\ d[c] # None /\ d[c] < now
          /\ d' = [d EXCEPT ![c] = None]
      BY <2>1, <1>2, <1>5, <1>8, <1>9
    <2>3. Client = None /\ Client' = c
      <3>1. pc = "walk" /\ pc' = "callback"
        BY DEF Call
      <3> QED BY <3>1 DEF ClientInv, Client
    <2> QED BY <2>2, <2>3, <1>3, <1>4 DEF Abs!Fire, Abs!Overdue, d
  <1> QED BY <1>3, <1>10

LEMMA ScheduleSets ==
    ASSUME LoopInv, ClientInv, NEW c \in Callback, NEW d \in Delays,
           framebuffer_schedule(c, d)
    PROVE  IF d < 0 THEN Abs!Clear(c)
           ELSE Abs!Set(c) /\ At(c)' = now + d * TicksPerMs
  <1> DEFINE p == schedule_list
             q == schedule_list'
             at == now + d * TicksPerMs
             dues == [k \in Callback |-> At(k)]
  <1>1. /\ q = Scheduled(c, d) /\ now' = now /\ fb_complete' = fb_complete
        /\ Keyed(p) /\ now \in Nat
    BY DEF framebuffer_schedule, LoopInv, LoopTypes
  <1>0. Client # None /\ Client' = Client
    BY LoopAssumption DEF framebuffer_schedule, InHandler, walkVars, ClientInv, Client
  <1>2. /\ Keyed(q) /\ Entries(q) = Rescheduled(c, d)
        /\ d >= 0 => at \in Nat /\ at >= now
        /\ d \in Int
    BY <1>1, ScheduledIs
  <1>3. \A e : e.callback # c => (e \in Entries(p) <=> e \in Entries(q))
    BY <1>2 DEF Rescheduled
  <1>4. dues = Times(p) /\ dues' = Times(q)
    BY DueIsTimes
  <1>5. Times(q) = [Times(p) EXCEPT ![c] = TimeIn(q, c)]
    <2> HIDE DEF p, q
    <2> QED BY <1>1, <1>2, <1>3, TimesChanged
  <1>6. CASE d < 0
    <2>1. \A e \in Entries(q) : e.callback # c
      BY <1>2, <1>6 DEF Rescheduled
    <2>2. TimeIn(q, c) = None
      BY <1>2, <2>1, TimeIs
    <2>3. dues' = [dues EXCEPT ![c] = None]
      <3> HIDE DEF dues, p, q
      <3> QED BY <1>4, <1>5, <2>2
    <2>4. Abs!Clear(c)
      <3> HIDE DEF dues
      <3>1. dues' = [dues EXCEPT ![c] = None]
        BY <2>3
      <3> QED BY <3>1, <1>0, <1>1 DEF Abs!Clear, dues
    <2> QED BY <1>6, <2>4
  <1>7. CASE d >= 0
    <2> DEFINE f == [callback |-> c, at |-> at]
    <2>1. f \in Entries(q) /\ f.callback = c /\ f.at = at
      BY <1>2, <1>7 DEF Rescheduled
    <2>2. TimeIn(q, c) = at
      BY <1>2, <2>1, TimeIs
    <2>3. /\ dues' = [dues EXCEPT ![c] = at] /\ dues'[c] = at
      <3>1. Times(q)[c] = TimeIn(q, c)
        BY DEF Times
      <3> HIDE DEF dues, p, q, at
      <3> QED BY <1>4, <1>5, <2>2, <3>1
    <2>4. /\ dues'[c] \in Nat /\ dues'[c] >= now
          /\ dues' = [dues EXCEPT ![c] = dues'[c]]
      <3> HIDE DEF dues, at
      <3> QED BY <1>2, <1>7, <2>3
    <2>5. Abs!Set(c)
      <3> HIDE DEF at
      <3> QED BY <2>4, <1>0, <1>1 DEF Abs!Set
    <2>6. At(c)' = at
      BY <2>3
    <2> HIDE DEF dues, p, q, f
    <2> QED BY <1>2, <1>7, <2>5, <2>6
  <1> QED BY <1>2, <1>6, <1>7

\* What neither calls nor schedules anything
LEMMA OthersMapped ==
    ASSUME LoopInv, ClientInv, [LoopNext]_loopVars, ~Call, ~HandlerNext
    PROVE  [Abs!TimersNext]_(Abs!timers)
  <1>1. schedule_list' = schedule_list
    <2>1. CASE RunNothing \/ RunStart \/ CallbackReturns \/ StepOver
      BY <2>1 DEF RunNothing, RunStart, CallbackReturns, StepOver
    <2>2. CASE RunReturns \/ Poll \/ Expire \/ fbtk_redraw
      BY <2>2 DEF RunReturns, Poll, Expire, fbtk_redraw
    <2>3. CASE Event \/ Quit \/ Tick \/ UNCHANGED loopVars
      BY <2>3 DEF Event, Quit, Tick, loopVars
    <2> QED BY <2>1, <2>2, <2>3 DEF LoopNext, RunNext
  <1>2. [c \in Callback |-> At(c)]' = [c \in Callback |-> At(c)]
    BY <1>1, DueIsTimes
  <1>3. CASE Tick
    <2>1. now' > now /\ fb_complete' = fb_complete /\ Client' = Client
      BY <1>3 DEF Tick, LoopInv, LoopTypes, walkVars, Client
    <2> QED BY <2>1, <1>2 DEF Abs!TimersNext, Abs!Pass
  <1>4. CASE Quit
    <2>1. fb_complete' = TRUE /\ now' = now /\ Client' = Client
      BY <1>4 DEF Quit, walkVars, Client
    <2>2. Abs!Stop
      BY <2>1, <1>2 DEF Abs!Stop
    <2> QED BY <2>2 DEF Abs!TimersNext
  <1>5. CASE Event \/ Expire
    <2>1. /\ Client = None /\ Client' = "event"
          /\ now' = now /\ fb_complete' = fb_complete
      BY <1>5 DEF Event, Expire, walkVars, ClientInv, Client
    <2>2. Abs!Handle
      BY <2>1, <1>2 DEF Abs!Handle
    <2> QED BY <2>2 DEF Abs!TimersNext
  <1>6. CASE CallbackReturns \/ fbtk_redraw
    <2>1. /\ Client # None /\ Client' = None
          /\ now' = now /\ fb_complete' = fb_complete
      <3>1. CASE CallbackReturns
        BY <3>1 DEF CallbackReturns, ClientInv, Client
      <3>2. CASE fbtk_redraw
        BY <3>2, LoopAssumption DEF fbtk_redraw, walkVars, ClientInv, Client
      <3> QED BY <1>6, <3>1, <3>2
    <2>2. Abs!Return
      BY <2>1, <1>2 DEF Abs!Return
    <2> QED BY <2>2 DEF Abs!TimersNext
  <1>7. CASE \/ RunNothing \/ RunStart \/ StepOver \/ RunReturns \/ Poll
             \/ UNCHANGED loopVars
    <2>1. Client' = Client /\ now' = now /\ fb_complete' = fb_complete
      <3>1. CASE RunNothing \/ RunStart \/ StepOver
        BY <3>1 DEF RunNothing, RunStart, StepOver, walkVars, Client
      <3>2. CASE RunReturns \/ Poll \/ UNCHANGED loopVars
        BY <3>2 DEF RunReturns, Poll, walkVars, loopVars, Client
      <3> QED BY <1>7, <3>1, <3>2
    <2> QED BY <2>1, <1>2 DEF Abs!timers
  <1> QED BY <1>3, <1>4, <1>5, <1>6, <1>7 DEF LoopNext, RunNext

(* The list with its walk implements one-shot timers: a callback is called *)
(* once for a request, after the time that it named and not before, and    *)
(* not if it was cancelled meanwhile; no entry goes without its call; and  *)
(* framebuffer_schedule sets or clears the callback it names and no other. *)
(* (That an overdue callback is called in the end is what TLC checks.)     *)
THEOREM RefinesTimers == LoopSpec => Abs!TimersOrder /\ AsRequested
  <1>1. LoopInit => Abs!TimersInit /\ ClientInv
    <2> SUFFICES ASSUME LoopInit PROVE Abs!TimersInit /\ ClientInv
      OBVIOUS
    <2>1. \A c \in Callback : At(c) = None
      BY DEF LoopInit, At
    <2>2. Client = None
      BY DEF LoopInit, Client
    <2> QED BY <2>1, <2>2 DEF LoopInit, Abs!TimersInit, ClientInv
  <1> DEFINE Requests == \A c \in Callback, d \in Delays : framebuffer_schedule(c, d) =>
                            IF d < 0 THEN Abs!Clear(c)
                            ELSE Abs!Set(c) /\ At(c)' = now + d * TicksPerMs
  <1>2. LoopInv /\ ClientInv /\ [LoopNext]_loopVars => [Requests]_loopVars
    <2> SUFFICES ASSUME LoopInv, ClientInv PROVE Requests
      OBVIOUS
    <2> QED BY ScheduleSets
  <1>3. LoopInv /\ ClientInv /\ [LoopNext]_loopVars => [Abs!TimersNext]_(Abs!timers)
    <2> SUFFICES ASSUME LoopInv, ClientInv, [LoopNext]_loopVars
                 PROVE  [Abs!TimersNext]_(Abs!timers)
      OBVIOUS
    <2>1. CASE Call
      BY <2>1, CallFires DEF Abs!TimersNext
    <2>2. ASSUME NEW c \in Callback, NEW d \in Delays, framebuffer_schedule(c, d)
          PROVE  Abs!TimersNext
      <3>1. Abs!Set(c) \/ Abs!Clear(c)
        BY <2>2, ScheduleSets
      <3> QED BY <3>1 DEF Abs!TimersNext
    <2>3. CASE RequestRedraw
      <3>1. /\ schedule_list' = schedule_list /\ Client' = Client
            /\ now' = now /\ fb_complete' = fb_complete
        BY <2>3 DEF RequestRedraw, walkVars, Client
      <3> QED BY <3>1, DueIsTimes DEF Abs!timers
    <2>4. CASE ~Call /\ ~HandlerNext
      BY <2>4, OthersMapped
    <2> QED BY <2>1, <2>2, <2>3, <2>4 DEF HandlerNext
  <1>4. LoopSpec => [](LoopInv /\ ClientInv)
    <2>1. LoopInv /\ ClientInv /\ [LoopNext]_loopVars => ClientInv'
      BY ClientStep
    <2> QED BY <1>1, <2>1, LoopSafety, PTL DEF LoopSpec
  <1>5. LoopSpec => Abs!TimersOrder
    BY <1>1, <1>3, <1>4, PTL DEF LoopSpec, Abs!TimersOrder
  <1>6. LoopSpec => AsRequested
    BY <1>2, <1>4, PTL DEF LoopSpec, AsRequested
  <1> QED BY <1>5, <1>6
=============================================================================
