------------------------------ MODULE FbWindow ------------------------------
(***************************************************************************)
(* The browser widget of framebuffer/gui.c: how scrolling, invalidation    *)
(* and redraws are queued by the handlers of one turn of the main loop and *)
(* carried out together when the toolkit redraws the widget.               *)
(*                                                                         *)
(* A cell of the window is stale while it does not show the document at    *)
(* the present scroll position.  A move of pixels moves staleness with     *)
(* them.  The widget is mapped.                                            *)
(***************************************************************************)
EXTENDS Integers

CONSTANTS Width, Height,   \* of the widget
          Extents,         \* sizes the document may have, [w, h]
          Steps,           \* relative scrolls
          Marks,           \* absolute scrolls, a scroll bar's positions
          Rects,           \* document areas the core invalidates
          Far              \* INT_MAX

ASSUME WindowAssumption == /\ Width \in Nat \ {0} /\ Height \in Nat \ {0}
                           /\ Far \in Nat /\ Width < Far /\ Height < Far
                           /\ Extents \subseteq [w : Nat, h : Nat]
                           /\ Steps \subseteq Int /\ Marks \subseteq Nat
                           /\ Rects \subseteq [x0 : Int, y0 : Int, x1 : Int, y1 : Int]

VARIABLES extent,           \* browser_window_get_extents
          scrollx, scrolly, panx, pany, pan_required,
          redraw_box, redraw_required,
          needed,           \* the toolkit is to redraw the widget
          osk_mapped,       \* the on-screen keyboard covers part of it
          stale,
          moved             \* pixels were moved while damage was pending

scrollVars == <<scrollx, scrolly, panx, pany, pan_required>>
vars == <<extent, scrollVars, redraw_box, redraw_required, needed,
          osk_mapped, stale, moved>>

-----------------------------------------------------------------------------
Cells == (0..(Width - 1)) \X (0..(Height - 1))

Box(x0, y0, x1, y1) == [x0 |-> x0, y0 |-> y0, x1 |-> x1, y1 |-> y1]
NoBox == Box(Far, Far, -Far, -Far)
Whole == Box(0, 0, Width, Height)

In(b) == {c \in Cells : b.x0 <= c[1] /\ c[1] < b.x1 /\ b.y0 <= c[2] /\ c[2] < b.y1}

Least(a, b) == IF a < b THEN a ELSE b
Greatest(a, b) == IF a > b THEN a ELSE b

\* fbtk_clip_to_widget; the far edges count as inside.
Outside(b) == b.x1 < 0 \/ b.x0 > Width - 1 \/ b.y1 < 0 \/ b.y0 > Height - 1

Clamp(v, top) == Least(Greatest(v, 0), top)

Clipped(b) == Box(Clamp(b.x0, Width), Clamp(b.y0, Height),
                  Clamp(b.x1, Width), Clamp(b.y1, Height))

\* MUTANT: a new area replaces the pending one.
Newest(a, b) == b

Union(a, b) == Box(Least(a.x0, b.x0), Least(a.y0, b.y0),
                   Greatest(a.x1, b.x1), Greatest(a.y1, b.y1))

\* fb_queue_redraw, on the pending area q; the toolkit is asked as well.
Queued(q, b) ==
    LET u == Union(q.box, b)
    IN  IF Outside(u) THEN [box |-> NoBox, required |-> FALSE]
        ELSE [box |-> Clipped(u), required |-> TRUE]

Pending == [box |-> redraw_box, required |-> redraw_required]

QueueRedraw(b) ==
    LET q == Queued(Pending, b)
    IN  /\ redraw_box' = q.box
        /\ redraw_required' = q.required
        /\ needed' = (needed \/ q.required)

-----------------------------------------------------------------------------
(* widget_scroll_x, widget_scroll_y *)
\* First not off the top, then not off the bottom.
PanWithin(scroll, pan, room) ==
    LET p == IF scroll + pan < 0 THEN -scroll ELSE pan
    IN  IF scroll + p > room THEN room - scroll ELSE p

\* MUTANT: the toolkit is not asked for a redraw.
AskNobody(pan) == /\ pan_required' = (pan_required \/ pan # 0)
                  /\ needed' = needed

AskToPan(pan) == /\ pan_required' = (pan_required \/ pan # 0)
                 /\ needed' = (needed \/ pan # 0)

ScrollY(pan) ==
    /\ pany' = PanWithin(scrolly, pan, extent.h - Height)
    /\ AskToPan(pany')
    /\ UNCHANGED <<extent, scrollx, scrolly, panx, redraw_box,
                   redraw_required, osk_mapped, stale, moved>>

ScrollX(pan) ==
    /\ panx' = PanWithin(scrollx, pan, extent.w - Width)
    /\ AskToPan(panx')
    /\ UNCHANGED <<extent, scrollx, scrolly, pany, redraw_box,
                   redraw_required, osk_mapped, stale, moved>>

\* Keys and the wheel add to what is pending; scroll bars and
\* gui_window_set_scroll replace it.
Scroll == \/ \E s \in Steps : ScrollY(pany + s) \/ ScrollX(panx + s)
          \/ \E m \in Marks : ScrollY(m - scrolly) \/ ScrollX(m - scrollx)

-----------------------------------------------------------------------------
(* fb_window_invalidate_area: the core's document has changed in r. *)
InWindow(r) == Box(r.x0 - scrollx, r.y0 - scrolly, r.x1 - scrollx, r.y1 - scrolly)

Invalidate(r) ==
    /\ stale' = stale \cup In(InWindow(r))
    /\ QueueRedraw(InWindow(r))
    /\ UNCHANGED <<extent, scrollVars, osk_mapped, moved>>

\* A new document, or a new layout of the old one: all of it is invalidated.
NewExtent(e) ==
    /\ extent' = e /\ e # extent
    /\ stale' = Cells
    /\ QueueRedraw(Whole)
    /\ UNCHANGED <<scrollVars, osk_mapped, moved>>

\* map_osk, unmap_osk: the keyboard is drawn over the window, which is
\* redrawn when the keyboard goes.
ToggleOsk ==
    /\ osk_mapped' = ~osk_mapped
    /\ needed' = (needed \/ osk_mapped)
    /\ UNCHANGED <<extent, scrollVars, redraw_box, redraw_required, stale,
                   moved>>

\* The toolkit redraws the widget for reasons of its own.
Expose == /\ ~needed /\ needed' = TRUE
          /\ UNCHANGED <<extent, scrollVars, redraw_box, redraw_required,
                         osk_mapped, stale, moved>>

-----------------------------------------------------------------------------
(* fb_pan *)
TooFar == \/ pany >= Height \/ pany <= -Height
          \/ panx >= Width \/ panx <= -Width

\* nsfb_plot_copy: what was at c + (dx, dy) is now at c; the rest stays.
Copied(s, dx, dy) ==
    {c \in Cells : LET from == <<c[1] + dx, c[2] + dy>>
                   IN  from \in Cells => from \in s}

\* MUTANT: the newly exposed strip is a row too thin.
ThinStripY == IF pany < 0 THEN Box(0, 0, Width, -pany - 1)
              ELSE Box(0, Height - pany + 1, Width, Height)

StripY == IF pany < 0 THEN Box(0, 0, Width, -pany)
          ELSE Box(0, Height - pany, Width, Height)

StripX == IF panx < 0 THEN Box(0, 0, -panx, Height)
          ELSE Box(Width - panx, 0, Width, Height)

Redone == osk_mapped \/ TooFar

\* The vertical move comes first; a redone window is stale all over.
StaleAfterPan ==
    LET down == Copied(stale, 0, pany)
    IN  IF panx = 0 /\ pany = 0 THEN stale
        ELSE IF Redone THEN Cells
        ELSE Copied(down, panx, 0)

QueuedByPan ==
    LET y == IF pany = 0 THEN Pending ELSE Queued(Pending, StripY)
    IN  IF Redone THEN Queued(Pending, Whole)
        ELSE IF panx = 0 THEN y ELSE Queued(y, StripX)

\* The area to draw once the pan is done: all of it if none is pending.
Drawn == LET q == IF pan_required THEN QueuedByPan ELSE Pending
         IN  IF q.required THEN q.box ELSE Whole

(* fb_browser_window_redraw, then fb_redraw: the pending area, or all of   *)
(* the window if nothing is pending.                                       *)
Redraw ==
    /\ needed
    /\ stale' = (IF pan_required THEN StaleAfterPan ELSE stale) \ In(Drawn)
    /\ moved' = (Drawn # Whole
                 /\ (moved \/ (pan_required /\ redraw_required)))
    /\ IF pan_required
       THEN /\ scrollx' = scrollx + panx /\ scrolly' = scrolly + pany
            /\ panx' = 0 /\ pany' = 0 /\ pan_required' = FALSE
       ELSE UNCHANGED scrollVars
    /\ redraw_box' = NoBox /\ redraw_required' = FALSE
    /\ needed' = FALSE
    /\ UNCHANGED <<extent, osk_mapped>>

Init == /\ extent \in Extents
        /\ scrollx = 0 /\ scrolly = 0 /\ panx = 0 /\ pany = 0
        /\ pan_required = FALSE
        /\ redraw_box = Whole /\ redraw_required = TRUE /\ needed = TRUE
        /\ osk_mapped = FALSE
        /\ stale = Cells /\ moved = FALSE

Next == \/ Scroll \/ Redraw \/ ToggleOsk \/ Expose
        \/ \E r \in Rects : Invalidate(r)
        \/ \E e \in Extents : NewExtent(e)

Spec == Init /\ [][Next]_vars

\* The main loop redraws whenever a redraw is pending.
FairSpec == Spec /\ WF_vars(Redraw)

-----------------------------------------------------------------------------
Damage == IF redraw_required THEN In(redraw_box) ELSE {}

(* Types, an area is pending or none is, and the toolkit is asked for a    *)
(* redraw as long as a pan or damage is pending: nothing is queued that no *)
(* redraw will carry out.                                                  *)
WindowInv ==
    /\ extent \in Extents
    /\ scrollx \in Int /\ scrolly \in Int /\ panx \in Int /\ pany \in Int
    /\ stale \subseteq Cells
    /\ redraw_required \in BOOLEAN /\ pan_required \in BOOLEAN
    /\ IF redraw_required
       THEN redraw_box \in [x0 : 0..Width, x1 : 0..Width,
                           y0 : 0..Height, y1 : 0..Height]
       ELSE redraw_box = NoBox
    /\ (panx # 0 \/ pany # 0) => pan_required
    /\ (pan_required \/ redraw_required) => needed

(* "Area requiring redraw": every cell that does not show the document is  *)
(* in the pending area, unless a pan moved it while it was pending.        *)
DamageBoxed == ~moved => stale \subseteq Damage

(* "dont pan off the top": neither the scroll position nor where the       *)
(* pending pan leads is before the document, in a document that fills the  *)
(* window.                                                                 *)
NotOffTop == /\ scrollx >= 0 /\ scrollx + panx >= 0
             /\ scrolly >= 0 /\ scrolly + pany >= 0

(* A scroll never leads past the end of the document as it is then.        *)
WithinDocument ==
    [][/\ (pany' # pany /\ pany' > 0) => scrolly + pany' + Height <= extent.h
       /\ (panx' # panx /\ panx' > 0) => scrollx + panx' + Width <= extent.w]_vars

(* Every cell is brought up to date, unless a pan moved its damage.        *)
BroughtUpToDate ==
    \A c \in Cells : c \in stale ~> (c \notin stale \/ moved)
=============================================================================
