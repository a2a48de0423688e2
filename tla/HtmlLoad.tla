------------------------------ MODULE HtmlLoad ------------------------------
(***************************************************************************)
(* The loading of an HTML document in NetSurf, from its source to DONE:    *)
(* content/handlers/html (html.c, css.c, object.c) on the status machine   *)
(* of content/content.c.                                                   *)
(*                                                                         *)
(* A document waits for its source and its style sheets, then turns its    *)
(* DOM into boxes slice by slice from the scheduler, and in doing so       *)
(* fetches its objects, some of which are documents again.  base.active    *)
(* counts what it waits for, and everything that ends (a sheet, an object, *)
(* the source, the boxes) may be the last, and takes the document further. *)
(*                                                                         *)
(* Everything runs in one thread; messages go to the user of a content at  *)
(* once, up the tree of documents, so a step here is one event with the    *)
(* callbacks that it sets off.  The environment is the caches below, which *)
(* end what is fetched, and the browser window that holds the root.        *)
(*                                                                         *)
(* Scripts are off (scripts/build.sh), so nothing pauses the parser, and   *)
(* memory does not run out.  What is in a document is found in any order.  *)
(* A document that its page has let go of is not followed any further.     *)
(***************************************************************************)
EXTENDS Integers, FiniteSets

CONSTANTS Docs, Images,    \* contents that are HTML, and that are not
          Root,            \* the document in the browser window
          Parent,          \* the document that each of the others is in
          Speculative,     \* images fetched for <img> before there are boxes
          Sheets, Base,    \* style sheets of a document; the default one
          Initial,         \* Base and the user's: asked for from the start
          Styles, Empty,   \* those that are <style> elements; without text
          Quirks,          \* the sheet of documents in quirks mode
          Has,             \* the sheets that each document may have
          Refreshing,      \* objects whose documents ask to be refreshed
          Prompt,          \* may boxes take longer than a refresh waits?
          MaxRefresh       \* bound: objects refreshed

Objects == (Docs \ {Root}) \cup Images

ASSUME HtmlAssumption ==
    /\ Root \in Docs /\ Docs \cap Images = {} /\ IsFiniteSet(Docs \cup Images)
    /\ Parent \in [Objects -> Docs]
    /\ \E depth \in [Docs -> 0..Cardinality(Docs)] :  \* documents form a tree
          \A d \in Docs \ {Root} : depth[d] = depth[Parent[d]] + 1
    /\ Speculative \subseteq Images /\ Refreshing \subseteq Docs \ {Root}
    /\ Base \in Initial /\ Initial \subseteq Sheets /\ IsFiniteSet(Sheets)
    /\ Sheets \cap Objects = {}
    /\ Styles \subseteq Sheets \ Initial /\ Empty \subseteq Styles
    /\ Quirks \subseteq Sheets \ (Initial \cup Styles)
    /\ Has \in [Docs -> SUBSET Sheets]
    /\ Prompt \in BOOLEAN /\ MaxRefresh \in Nat

VARIABLES docs,     \* the documents
          timers,   \* objects with an html_object_refresh pending
          window,   \* does the browser window hold the root?
          refreshed \* objects refreshed so far

vars == <<docs, timers, window, refreshed>>

-----------------------------------------------------------------------------
(* A document.  stage: what is next: its source, its sheets, its boxes; or *)
(* it is laid out.  objs: an object is "going", "done", "gone" (its handle *)
(* is NULL again) or not asked for yet.  told (ghost): the last message of *)
(* READY, DONE and ERROR to its user.                                      *)
Absent == [status |-> "NONE", stage |-> "source", locked |-> FALSE,
           active |-> 0, aborted |-> FALSE, sheets |-> [s \in Sheets |-> "none"],
           modified |-> {}, styles |-> FALSE,
           objs |-> [o \in Objects |-> "none"], told |-> "none"]

\* html_create: the document itself and the first sheets are being fetched
New == [Absent EXCEPT !.status = "LOADING", !.active = 1 + Cardinality(Initial),
                      !.sheets = [s \in Sheets |-> IF s \in Initial THEN "going"
                                                   ELSE "none"]]

Init == /\ docs = [d \in Docs |-> IF d = Root THEN New ELSE Absent]
        /\ timers = {}
        /\ window = TRUE /\ refreshed = 0

Held(D, d) == IF d = Root THEN window ELSE D[Parent[d]].objs[d] \in {"going", "done"}
Boxed(d) == {o \in Objects : Parent[o] = d} \ Speculative
Kids(d) == {k \in Docs \ {Root} : Parent[k] = d}
Going(D, d) == {o \in Boxed(d) : D[d].objs[o] = "going"}

\* d or a document that it is in, at any distance
Within[d \in Docs] == IF d = Root THEN {Root} ELSE {d} \cup Within[Parent[d]]

\* The documents on the way up from d to q, which is one of them
Between(d, q) == {r \in Within[d] : q \in Within[r]}

\* What its page has let go of is not followed, and what was in it is not.
Gone(D, O) == [d \in Docs |-> IF Within[d] \cap O # {} THEN Absent ELSE D[d]]

-----------------------------------------------------------------------------
(* content_set_done: the user is told, and that may be the last thing that *)
(* a page was waiting for.  d is READY with nothing active.                *)
Done(D, d) ==
    LET ends(q) == /\ q \in Within[d]
                   /\ \A r \in Between(d, q) :
                        /\ r # d => D[r].status = "READY" /\ D[r].active = 1
                        /\ r # q => Held(D, r)
        told(q) == {k \in Kids(q) : Held(D, k) /\ ends(k)}
    IN [q \in Docs |->
          LET r == [D[q] EXCEPT
                      !.active = @ - Cardinality(told(q)),
                      !.objs = [o \in Objects |-> IF o \in told(q) THEN "done" ELSE @[o]]]
          IN IF ends(q) THEN [r EXCEPT !.status = "DONE", !.told = "DONE"] ELSE r]

MaybeDone(D, d) ==
    IF D[d].status = "READY" /\ D[d].active = 0 THEN Done(D, d) ELSE D

\* html_object_callback: object o of d is over.
Settled(D, d, o, how) ==
    MaybeDone([D EXCEPT ![d].active = @ - 1, ![d].objs[o] = how], d)

\* MUTANT: the page is not told.
FailQuietly(D, d) == [D EXCEPT ![d].told = IF Held(D, d) THEN "ERROR" ELSE @]

\* CONTENT_MSG_ERROR: whoever uses d lets go of it.
Fail(D, d) ==
    LET E == [D EXCEPT ![d].told = IF Held(D, d) THEN "ERROR" ELSE @]
    IN IF d # Root /\ Held(D, d) THEN Settled(E, Parent[d], d, "gone") ELSE E

\* MUTANT: the content stays locked.
SetErrorLocked(D, d) == [D EXCEPT ![d].status = "ERROR"]

SetError(D, d) == [D EXCEPT ![d].status = "ERROR", ![d].locked = FALSE]

WindowAfter(D) == window /\ D[Root].told # "ERROR"

Becomes(D) == docs' = D /\ window' = WindowAfter(D) /\ UNCHANGED refreshed

-----------------------------------------------------------------------------
(* Style sheets, and what they hold up *)
Requested(r, S) ==
    [r EXCEPT !.active = @ + Cardinality(S),
              !.sheets = [s \in Sheets |-> IF s \in S THEN "going" ELSE @[s]]]

Unasked(D, d, S) == {s \in Has[d] \cap S : D[d].sheets[s] = "none"}

\* html_css_process_link asks for a sheet, or says that it cannot, which sets
\* no status and which the parser ignores; html_css_update_style finds the text
\* of a <style> element, or more of it.
Finds(D, d) ==
    {[D EXCEPT ![d] = Requested(@, {s})] : s \in Unasked(D, d, Sheets \ (Styles \cup Quirks))}
    \cup {[D EXCEPT ![d].modified = @ \cup {s}, ![d].styles = TRUE] : s \in Has[d] \cap Styles}
    \cup {Fail(D, d)}

CanBegin(r) == r.active = 0 /\ r.modified = {}

\* html_object_free_objects: every handle is released.
Freed(r) == [r EXCEPT !.objs = [o \in Objects |-> IF @[o] \in {"going", "done"}
                                                  THEN "gone" ELSE @[o]]]

FreeObjects(D, d) == Gone([D EXCEPT ![d] = Freed(@)], Kids(d))

(* html_begin_conversion, when CanBegin and the parse is complete.  The    *)
(* document may have no root or a form an action that is no URL; the boxes *)
(* need the default sheet.  The first failures are told but set no status. *)
Began(D, d) ==
    IF ~CanBegin(D[d]) THEN {D}
    ELSE {Fail(D, d),
          IF D[d].aborted THEN Fail(SetError(D, d), d)
          ELSE IF D[d].sheets[Base] = "failed" THEN SetError(Fail(D, d), d)
          ELSE [D EXCEPT ![d].stage = "boxes"]}

\* Completing the parse may find more of the document, or fail.
Begin(D, d) ==
    IF D[d].stage = "parsed" THEN Began(D, d)
    ELSE UNION {{Fail(E, d)} \cup Began([E EXCEPT ![d].stage = "parsed"], d) :
                  E \in {D} \cup Finds(D, d)}

MayBegin(D, d) ==
    IF D[d].stage \in {"sheets", "parsed"} /\ CanBegin(D[d]) THEN Begin(D, d) ELSE {D}

-----------------------------------------------------------------------------
(* The source of document d *)
Loading(d, stage) == docs[d].status = "LOADING" /\ docs[d].stage = stage

\* html_process_data finds a sheet or an <img>, or cannot parse the data:
\* content_llcache_callback.
ProcessData(d) ==
    /\ Loading(d, "source")
    /\ \/ \E D \in Finds(docs, d) : Becomes(D)
       \/ \E o \in Speculative :
            /\ Parent[o] = d /\ docs[d].objs[o] = "none" /\ ~docs[d].aborted
            /\ Becomes([docs EXCEPT ![d].objs[o] = "going"])
       \/ Becomes(SetError(Fail(docs, d), d))
    /\ UNCHANGED timers

\* html_process_inserted_meta: CONTENT_MSG_REFRESH reaches html_object_callback.
FindRefresh(d) ==
    /\ Loading(d, "source") /\ d \in Refreshing \ timers
    /\ Held(docs, d)
    /\ timers' = timers \cup {d}
    /\ UNCHANGED <<docs, window, refreshed>>

\* LLCACHE_EVENT_ERROR
SourceError(d) ==
    /\ Loading(d, "source") /\ ~docs[d].aborted
    /\ Becomes(Fail(SetError(docs, d), d))
    /\ UNCHANGED timers

\* html_begin_conversion has failed and set no status.
Failed(D, d) == D[d].status = "LOADING" /\ CanBegin(D[d]) /\ D[d].stage # "boxes"

\* LLCACHE_EVENT_DONE: content_convert and html_convert, which asks for the
\* quirks sheet if it has to, and if it can.
Convert(d) ==
    /\ Loading(d, "source")
    /\ \E q \in {{}, Unasked(docs, d, Quirks)} :
         LET r == [Requested(docs[d], q) EXCEPT !.stage = "sheets", !.locked = TRUE,
                                               !.active = @ - 1]
         IN \E D \in MayBegin([docs EXCEPT ![d] = r], d) :
              Becomes(IF Failed(D, d) THEN SetError(D, d) ELSE D)
    /\ UNCHANGED timers

-----------------------------------------------------------------------------
(* html_convert_css_callback *)
SheetDone(d, s) ==
    /\ docs[d].sheets[s] = "going"
    /\ \E D \in MayBegin([docs EXCEPT ![d].sheets[s] = "done", ![d].active = @ - 1], d) :
         Becomes(D)
    /\ UNCHANGED timers

SheetError(d, s) ==
    /\ docs[d].sheets[s] = "going"
    /\ \E D \in MayBegin([docs EXCEPT ![d].sheets[s] = "failed", ![d].active = @ - 1], d) :
         Becomes(D)
    /\ UNCHANGED timers

\* MUTANT: the sheet that is given up stays counted.
ProcessModifiedStylesUncounted(d) ==
    LET now == docs[d].modified \ Empty
    IN /\ docs[d].styles
       /\ docs' = [docs EXCEPT ![d] = Requested([@ EXCEPT !.modified = {}, !.styles = FALSE],
                                               now)]
       /\ UNCHANGED <<timers, window, refreshed>>

\* html_css_process_modified_styles: a sheet still on its way is given up.
ProcessModifiedStyles(d) ==
    LET now == docs[d].modified \ Empty
        old == {s \in now : docs[d].sheets[s] = "going"}
        r == [docs[d] EXCEPT !.active = @ - Cardinality(old), !.modified = {},
                             !.styles = FALSE]
    IN /\ docs[d].styles
       /\ docs' = [docs EXCEPT ![d] = Requested(r, now)]
       /\ UNCHANGED <<timers, window, refreshed>>

-----------------------------------------------------------------------------
(* Boxes, and the objects in them *)

\* html_fetch_object, for a box
FetchObject(d, o) ==
    /\ Loading(d, "boxes") /\ ~docs[d].aborted
    /\ o \in Boxed(d) /\ docs[d].objs[o] = "none"
    /\ docs' = [x \in Docs |->
                  IF x = d THEN [docs[d] EXCEPT !.objs[o] = "going", !.active = @ + 1]
                  ELSE IF x = o THEN New ELSE docs[x]]
    /\ UNCHANGED <<timers, window, refreshed>>

\* MUTANT: the objects may all have arrived before the boxes were done.
StayReady(D, d) == D

\* html_proceed_to_done
ProceedToDone(D, d) == MaybeDone(D, d)

\* content_set_ready: the user, told, shows the document.
SetReady(D, d) == [D EXCEPT ![d].status = "READY", ![d].locked = FALSE,
                            ![d].stage = "laid",
                            ![d].told = IF Held(D, d) THEN "READY" ELSE @]

\* html_box_convert_done.  A document without a root keeps its objects.
BoxConvertDone(d, success) ==
    /\ Loading(d, "boxes")
    /\ IF success /\ ~docs[d].aborted
       THEN /\ \/ Becomes(ProceedToDone(SetReady(docs, d), d))
               \/ Becomes(SetError(Fail(docs, d), d))
            /\ UNCHANGED timers
       ELSE /\ Becomes(SetError(Fail(FreeObjects(docs, d), d), d))
            /\ timers' = timers \ {k \in Kids(d) : Held(docs, k)}

\* html_object_callback and html_object_nobox_callback, for an image
ImageDone(o) ==
    /\ docs[Parent[o]].objs[o] = "going"
    /\ Becomes(IF o \in Speculative THEN [docs EXCEPT ![Parent[o]].objs[o] = "done"]
               ELSE Settled(docs, Parent[o], o, "done"))
    /\ UNCHANGED timers

ImageError(o) ==
    /\ docs[Parent[o]].objs[o] = "going"
    /\ Becomes(IF o \in Speculative THEN [docs EXCEPT ![Parent[o]].objs[o] = "gone"]
               ELSE Settled(docs, Parent[o], o, "gone"))
    /\ UNCHANGED timers

-----------------------------------------------------------------------------
(* Refreshes, and stopping *)

\* The documents that html_replace_object counts the new object in: its own
\* and, once that has been opened, the pages that that is in.
Counted(d) == {q \in Within[d] : \A r \in Between(d, q) \ {q} :
                                   docs[Parent[r]].stage = "laid"}

\* html_object_refresh, html_replace_object.  It asserts that there is a
\* document to refresh; what follows when there is none is not followed.
RefreshObject(o) ==
    LET p == Parent[o]
        E == Gone(docs, {o})
        was == IF docs[o].status # "DONE" THEN 1 ELSE 0
        now(d) == [E[d] EXCEPT !.status = "READY",
                               !.active = @ + 1 - (IF d = p THEN was ELSE 0),
                               !.objs[o] = IF d = p THEN "going" ELSE @]
    IN /\ o \in timers /\ Held(docs, o)
       /\ Prompt \/ docs[p].stage = "laid"
       /\ docs' = [d \in Docs |-> IF d = o THEN New
                                  ELSE IF d \in Counted(p) THEN now(d) ELSE E[d]]
       /\ timers' = timers \ {o}
       /\ refreshed < MaxRefresh /\ refreshed' = refreshed + 1
       /\ UNCHANGED window

\* MUTANT: the documents in it are not stopped.
StoppedShallow(D, d) ==
    LET loose == {o \in Objects : /\ Parent[o] = d /\ D[d].objs[o] = "going"
                                  /\ o \in Docs => D[o].status # "READY"}
    IN MaybeDone(Gone([D EXCEPT ![d].active = @ - Cardinality(loose \cap Boxed(d)),
                                ![d].objs = [o \in Objects |-> IF o \in loose
                                                               THEN "gone" ELSE @[o]]],
                      loose), d)

(* html_stop, html_object_abort_objects: objects that are not READY are    *)
(* let go of; documents that are READY are stopped themselves, and if that *)
(* makes them DONE they tell the page they are in.                         *)
Stopped(D, d) ==
    LET on(q) == d \in Within[q] /\ \A r \in Between(q, d) :
                    D[r].status = "READY" /\ (r # d => Held(D, r))
        loose(q) == {o \in Objects : /\ Parent[o] = q /\ D[q].objs[o] = "going"
                                     /\ o \in Docs => D[o].status # "READY"}
        left[q \in Docs] == D[q].active - Cardinality(loose(q) \cap Boxed(q))
                            - Cardinality({k \in Kids(q) : on(k) /\ left[k] = 0})
        after(q) == LET r == [D[q] EXCEPT
                                !.active = left[q],
                                !.objs = [o \in Objects |->
                                            IF o \in loose(q) THEN "gone"
                                            ELSE IF o \in Kids(q) /\ on(o) /\ left[o] = 0
                                            THEN "done" ELSE @[o]]]
                    IN IF left[q] = 0 THEN [r EXCEPT !.status = "DONE", !.told = "DONE"]
                       ELSE r
    IN Gone([q \in Docs |-> IF on(q) THEN after(q) ELSE D[q]],
            UNION {loose(q) : q \in {x \in Docs : on(x)}})

\* browser_window_stop: what is not shown yet is let go of.
Stop ==
    /\ window
    /\ \/ /\ docs[Root].status = "LOADING"
          /\ docs' = [docs EXCEPT ![Root].aborted = TRUE]
          /\ window' = FALSE
       \/ /\ docs[Root].status = "READY"
          /\ docs' = Stopped(docs, Root)
          /\ UNCHANGED window
    /\ UNCHANGED <<timers, refreshed>>

\* html_close, html_object_close_objects: another document is shown.
Leave ==
    /\ window /\ docs[Root].stage = "laid"
    /\ window' = FALSE
    /\ timers' = {o \in timers : ~Held(docs, o)}
    /\ UNCHANGED <<docs, refreshed>>

\* hlcache_clean, content_destroy, html_destroy
Destroy ==
    /\ ~window /\ docs[Root].status \notin {"NONE", "LOADING"}
    /\ docs' = [d \in Docs |-> Absent]
    /\ timers' = {o \in timers : ~Held(docs, o)}
    /\ UNCHANGED <<window, refreshed>>

-----------------------------------------------------------------------------
SourceEnds(d) == SourceError(d) \/ Convert(d)
SheetEnds(d) == \E s \in Sheets : SheetDone(d, s) \/ SheetError(d, s)
ImageEnds == \E o \in Images : ImageDone(o) \/ ImageError(o)
BoxesEnd(d) == \E success \in BOOLEAN : BoxConvertDone(d, success)

Next == \/ \E d \in Docs : \/ ProcessData(d) \/ FindRefresh(d) \/ SourceEnds(d)
                           \/ SheetEnds(d) \/ ProcessModifiedStyles(d) \/ BoxesEnd(d)
                           \/ \E o \in Objects : FetchObject(d, o)
        \/ ImageEnds
        \/ \E o \in Docs \ {Root} : RefreshObject(o)
        \/ Stop \/ Leave \/ Destroy

\* As long as something is being fetched something comes of it, and the
\* scheduler runs what is due.
Fairness == /\ \A d \in Docs : /\ WF_vars(SourceEnds(d)) /\ WF_vars(SheetEnds(d))
                               /\ WF_vars(ProcessModifiedStyles(d))
                               /\ WF_vars(BoxesEnd(d))
            /\ WF_vars(ImageEnds)

Spec == Init /\ [][Next]_vars /\ Fairness

-----------------------------------------------------------------------------
(* The states of a document hang together: it is locked exactly from its   *)
(* source to its layout (content.c:87, "Conversion to the READY state will *)
(* unlock the content"), and it is shown and reformatted, which needs its  *)
(* boxes, exactly when it is READY or DONE.                                *)
ReadyIsLaidOut ==
    \A d \in Docs :
      /\ docs[d].locked => docs[d].status = "LOADING"
      /\ docs[d].status \in {"READY", "DONE"} <=> docs[d].stage = "laid"
      /\ docs[d].status = "LOADING" /\ docs[d].stage # "source" => docs[d].locked

(* base.active counts what the document waits for: itself, its sheets, and *)
(* the objects that have a box (every ++ and -- of html.c, css.c,          *)
(* object.c), and a document is DONE when that is nothing.                 *)
WaitsFor(d) == {s \in Sheets : docs[d].sheets[s] = "going"} \cup Going(docs, d)

ActiveCounts ==
    \A d \in Docs : docs[d].status \in {"LOADING", "READY", "DONE"} =>
      /\ docs[d].active = Cardinality(WaitsFor(d))
                          + (IF docs[d].stage = "source" THEN 1 ELSE 0)
      /\ docs[d].status = "DONE" <=> docs[d].stage = "laid" /\ docs[d].active = 0

(* A page does not wait for an object that it has not got: what it counts  *)
(* as going is a live document that will tell it.                          *)
AwaitedIsAlive ==
    \A d \in Docs : \A k \in Kids(d) :
      docs[d].objs[k] = "going" => docs[k].status \in {"LOADING", "READY"}

(* Stopping a page that is shown ends its loading there and then           *)
(* (html_stop: "transition to the DONE state").                            *)
StopsAtOnce ==
    [][Stop /\ docs[Root].status = "READY" => docs'[Root].status = "DONE"]_vars

(* What the window waits for comes: the document is DONE or has failed.    *)
Settles ==
    window /\ docs[Root].status \in {"LOADING", "READY"}
      ~> \/ ~window
         \/ docs[Root].told \in {"DONE", "ERROR"}
=============================================================================
