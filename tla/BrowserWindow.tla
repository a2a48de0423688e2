--------------------------- MODULE BrowserWindow ---------------------------
(***************************************************************************)
(* A window of the browser, desktop/browser_window.c, with its history,    *)
(* desktop/browser_history.c: what the user asks of it, what the handles   *)
(* of its contents tell it, and the query pages that it shows by itself    *)
(* when a page cannot be fetched.                                          *)
(*                                                                         *)
(* The handles are those of module HlCache, of which the window relies on  *)
(* what ContentUser promises and on nothing else.  A query page (about:    *)
(* query/...) and about:blank are made by the browser and do not fail.     *)
(*                                                                         *)
(* Frames, fragments, favicons, "save link" and what is drawn are left     *)
(* out.  Memory does not run out, which is how a login can fail before its *)
(* query page is asked for (browser_window__handle_login).                 *)
(***************************************************************************)
EXTENDS Integers, Sequences

CONSTANTS Handles,
          Urls, Blank,   \* about:blank is one of them
          RefreshTo,     \* where a page with a <meta> refresh goes
          RedirectTo,    \* where a server may send what is retrieved
          Foreign,       \* URLs without a fetcher, which are launched
          MaxEntries,    \* bound: the entries in the history
          None

ASSUME BrowserWindowAssumption ==
    /\ Blank \in Urls /\ None \notin Urls \cup Handles
    /\ RefreshTo \in [Urls -> Urls \cup {None}]
    /\ Foreign \subseteq Urls \ {Blank}
    /\ RedirectTo \in [Urls -> (Urls \ Foreign) \cup {None}]
    /\ RefreshTo[Blank] = None /\ RedirectTo[Blank] = None \* the browser makes it
    /\ \A g, h \in Handles \cup {None} : Handles \ {g, h} # {} \* one is to be had
    /\ MaxEntries \in Nat \ {0}

VARIABLES handles,  \* the handles of contents
          bw,       \* struct browser_window
          history   \* struct history

vars == <<handles, bw, history>>

-----------------------------------------------------------------------------
(* url: hlcache_handle_get_url, what it has been redirected to; asked      *)
(* (ghost): the URL that was retrieved; kind: "page", or which query page  *)
(* it is, about url; internal (ghost): internal_nav when it was retrieved; *)
(* told: what its user was told.                                           *)
NoHandle == [open |-> FALSE, url |-> None, asked |-> None, kind |-> "page",
             internal |-> FALSE, told |-> <<>>]

\* struct browser_fetch_parameters: add is BW_NAVIGATE_HISTORY.
NoParameters == [url |-> None, add |-> FALSE]

(* due: browser_window_refresh is scheduled; wants: refresh_interval # -1. *)
(* Two ghosts of Back, below: barged, it retrieved something over what is  *)
(* still on its way; forgot, it gave up the parameters of what is shown.   *)
Init ==
    /\ handles = [h \in Handles |-> NoHandle]
    /\ bw = [loading_content |-> None, current_content |-> None,
             loading_parameters |-> NoParameters, current_parameters |-> NoParameters,
             internal_nav |-> FALSE, history_add |-> FALSE, throbbing |-> FALSE,
             wants |-> FALSE, due |-> FALSE, barged |-> FALSE, forgot |-> FALSE]
    /\ history = [entries |-> <<>>, current |-> 0]

Window == [handles |-> handles, bw |-> bw, history |-> history]

\* What follows once Back has barged in is not followed.
Becomes(w) == /\ ~bw.barged
              /\ handles' = w.handles /\ bw' = w.bw /\ history' = w.history

Abandoned == bw.barged /\ UNCHANGED vars

User == INSTANCE ContentUser WITH
    told <- [h \in Handles |-> handles[h].told],
    open <- {h \in Handles : handles[h].open}

Last(w, h) == LET t == w.handles[h].told IN IF t = <<>> THEN "NOTHING" ELSE t[Len(t)]

-----------------------------------------------------------------------------
(* browser_window_history_update: the entry takes the title, the thumbnail *)
(* and the scroll offset of content h.                                     *)
Updated(w, h) ==
    IF w.history.current = 0 THEN w
    ELSE [w EXCEPT !.history.entries[w.history.current].shows =
                      IF w.handles[h].kind = "page" THEN w.handles[h].url ELSE None]

\* browser_window_history_add: forward_pref of the current entry is the new.
Added(w, h) ==
    LET hist == w.history
        url == w.handles[h].url
        new == Len(hist.entries) + 1
        entry == [url |-> url, shows |-> url, back |-> hist.current, forward_pref |-> 0]
    IN IF hist.current # 0 /\ hist.entries[hist.current].url = url THEN Updated(w, h)
       ELSE [w EXCEPT !.history =
               [entries |-> Append(IF hist.current = 0 THEN hist.entries
                                   ELSE [hist.entries EXCEPT
                                           ![hist.current].forward_pref = new], entry),
                current |-> new]]

-----------------------------------------------------------------------------
\* hlcache_handle_release
Released(w, h) == IF h = None THEN w ELSE [w EXCEPT !.handles[h] = NoHandle]

\* browser_window_content_done
ContentDone(w) ==
    LET u == IF w.bw.internal_nav THEN w ELSE Updated(w, w.bw.current_content)
    IN [u EXCEPT !.bw.throbbing = FALSE, !.bw.due = @ \/ w.bw.wants]

\* hlcache_handle_abort of a READY content: html_stop (HtmlLoad, StopsAtOnce)
Aborted(w) ==
    LET c == w.bw.current_content
    IN IF c = None \/ Last(w, c) # "READY" THEN w
       ELSE ContentDone([w EXCEPT !.handles[c].told = Append(@, "DONE")])

\* MUTANT: the refresh is unscheduled before the page is stopped.
StoppedLast(w) ==
    LET u == Released(w, w.bw.loading_content)
    IN Aborted([u EXCEPT !.bw.loading_content = None, !.bw.due = FALSE,
                         !.bw.throbbing = FALSE])

\* MUTANT: what is being loaded goes on.
StoppedCurrent(w) == [Aborted(w) EXCEPT !.bw.due = FALSE, !.bw.throbbing = FALSE]

\* browser_window_stop
Stopped(w) ==
    LET u == Released(w, w.bw.loading_content)
    IN [Aborted([u EXCEPT !.bw.loading_content = None])
          EXCEPT !.bw.due = FALSE, !.bw.throbbing = FALSE]

-----------------------------------------------------------------------------
(* navigate_internal_real, of a page or a query page; hlcache gives a      *)
(* handle that is not in use.                                              *)
Fetch(w, kind, p) ==
    IF kind = "page" /\ p.url \in Foreign THEN [w EXCEPT !.bw.history_add = p.add]
    ELSE LET h == CHOOSE h \in Handles : ~w.handles[h].open
         IN [w EXCEPT !.handles[h] = [open |-> TRUE, url |-> p.url, asked |-> p.url,
                                      kind |-> kind, internal |-> w.bw.internal_nav,
                                      told |-> <<>>],
                      !.bw.loading_content = h, !.bw.history_add = p.add,
                      !.bw.throbbing = TRUE]

\* browser_window_navigate, to what is not a query page
Navigate(w, p, suppress) ==
    LET u == IF w.bw.current_content # None /\ ~suppress
             THEN Updated(w, w.bw.current_content) ELSE w
    IN Fetch([Stopped(u) EXCEPT !.bw.internal_nav = FALSE, !.bw.loading_parameters = p],
             "page", p)

\* browser_window__reload_current_parameters
ReloadCurrent(w) ==
    LET c == w.bw.current_parameters.url
        p == [url |-> IF c = None THEN Blank ELSE c, add |-> FALSE]
    IN Fetch([w EXCEPT !.bw.internal_nav = FALSE, !.bw.loading_parameters = p,
                       !.bw.current_parameters = NoParameters], "page", p)

\* MUTANT: the retry still counts as internal.
LoadInternal(w) == Fetch(w, "page", w.bw.loading_parameters)

\* "navigate to the original loading parameters"
LoadAgain(w) == Fetch([w EXCEPT !.bw.internal_nav = FALSE], "page", w.bw.loading_parameters)

-----------------------------------------------------------------------------
(* The user *)
Shown(kinds) == bw.current_content # None /\ handles[bw.current_content].kind \in kinds

\* browser_window_create, fb_url_enter, a link
Visit == \E url \in Urls :
    /\ Len(history.entries) < MaxEntries
    /\ Becomes(Navigate(Window, [url |-> url, add |-> TRUE], FALSE))

Stop == Becomes(Stopped(Window))

\* browser_window_reload: a query page is refused (NSERROR_NEED_DATA).
Reload ==
    /\ Shown({"page"}) /\ bw.loading_content = None
    /\ Becomes(Navigate(Window, [url |-> handles[bw.current_content].url, add |-> FALSE],
                        FALSE))

\* browser_window_history_go
Go(e) ==
    LET u == IF bw.current_content = None THEN Window
             ELSE Updated(Window, bw.current_content)
    IN Becomes(Navigate([u EXCEPT !.history.current = e],
                        [url |-> history.entries[e].url, add |-> FALSE], TRUE))

\* Something is being loaded, or waits for its objects.
OnItsWay == \/ bw.loading_content # None
            \/ bw.current_content # None /\ Last(Window, bw.current_content) = "READY"

(* browser_window_history_back.  From a query page, and from about:blank   *)
(* after a login, it reloads what was shown before, without a call of      *)
(* browser_window_stop.                                                    *)
Back ==
    \/ /\ bw.internal_nav /\ bw.current_parameters.url # None
       /\ Becomes(ReloadCurrent([Window EXCEPT
                     !.bw.barged = OnItsWay,
                     !.bw.forgot = bw.current_content # None
                                   /\ ~handles[bw.current_content].internal]))
    \/ /\ bw.internal_nav /\ bw.current_parameters.url = None
       /\ Len(history.entries) < MaxEntries
       /\ Becomes(Navigate(Window, [url |-> Blank, add |-> TRUE], FALSE))
    \/ /\ ~bw.internal_nav /\ history.current # 0
       /\ history.entries[history.current].back # 0
       /\ Go(history.entries[history.current].back)

\* browser_window_history_forward
Forward ==
    /\ history.current # 0
    /\ history.entries[history.current].forward_pref # 0
    /\ Go(history.entries[history.current].forward_pref)

\* The user answers a query page: browser_window_navigate, to that page.
Asked == [Stopped(Window) EXCEPT !.bw.internal_nav = TRUE]

\* navigate_internal_query_fetcherror, navigate_internal_query_timeout
AnswerError ==
    /\ Shown({"error"})
    /\ Becomes(ReloadCurrent(Asked)) \/ Becomes(LoadAgain(Asked))

\* navigate_internal_query_ssl
AnswerSsl ==
    /\ Shown({"ssl"})
    /\ LET w == [Asked EXCEPT !.bw.loading_parameters.url = handles[bw.current_content].url]
       IN Becomes(ReloadCurrent(w)) \/ Becomes(LoadAgain(w))

\* navigate_internal_query_auth: login, or cancel
AnswerAuth ==
    /\ Shown({"auth"})
    /\ LET blank == [url |-> Blank, add |-> FALSE]
       IN \/ Becomes(LoadAgain(Asked))
          \/ Becomes(Fetch([Asked EXCEPT !.bw.loading_parameters = blank], "page", blank))

-----------------------------------------------------------------------------
(* browser_window_callback: handle h tells its user what it may say next.  *)
MaySay(h, m) == /\ handles[h].open
                /\ Append(handles[h].told, m) \in User!Beginnings
                /\ m \in {"ERROR", "DOWNLOAD"} => handles[h].kind = "page" /\ handles[h].url # Blank

Says(h, m) == [Window EXCEPT !.handles[h].told = Append(@, m)]

\* CONTENT_MSG_LOADING, and CONTENT_MSG_REFRESH while the page is parsed
Loading(h) ==
    /\ MaySay(h, "LOADING")
    /\ Becomes([Says(h, "LOADING") EXCEPT
                  !.bw.wants = handles[h].kind = "page" /\ RefreshTo[handles[h].url] # None])

\* CONTENT_MSG_REDIRECT, of which the location bar is shown the new URL
Redirect(h) ==
    /\ handles[h].open /\ handles[h].told = <<>> /\ handles[h].kind = "page"
    /\ RedirectTo[handles[h].url] # None
    /\ Becomes([Window EXCEPT !.handles[h].url = RedirectTo[@]])

\* browser_window_content_ready
Ready(h) ==
    /\ MaySay(h, "READY")
    /\ LET w == Released(Says(h, "READY"), bw.current_content)
           u == [w EXCEPT !.bw.current_content = bw.loading_content,
                          !.bw.loading_content = None]
           v == [u EXCEPT !.bw.current_parameters = bw.loading_parameters,
                          !.bw.loading_parameters = NoParameters,
                          !.bw.forgot = FALSE]
       IN Becomes(IF bw.internal_nav THEN u ELSE IF bw.history_add THEN Added(v, h) ELSE v)

Done(h) == MaySay(h, "DONE") /\ Becomes(ContentDone(Says(h, "DONE")))

\* browser_window__handle_error: the query page is about h.
Error(h) ==
    /\ MaySay(h, "ERROR")
    /\ \E kind \in {"error", "ssl", "auth"} :
         Becomes(Fetch([Released(Window, h) EXCEPT !.bw.loading_content = None,
                                                   !.bw.internal_nav = TRUE],
                       kind, [url |-> handles[h].url, add |-> TRUE]))

\* MUTANT: the busy indicator goes on after a download has begun.
Removed(h) == [Released(Window, h) EXCEPT !.bw.loading_content = None]

\* browser_window_convert_to_download
Converted(h) == [Released(Window, h) EXCEPT !.bw.loading_content = None,
                                            !.bw.throbbing = FALSE]

Download(h) == MaySay(h, "DOWNLOAD") /\ Becomes(Converted(h))

\* browser_window_refresh
Refresh ==
    LET url == handles[bw.current_content].url
        w == [Window EXCEPT !.bw.due = FALSE]
    IN /\ bw.due
       /\ \/ RefreshTo[url] = None /\ Becomes(w)
          \/ /\ RefreshTo[url] # None /\ Len(history.entries) < MaxEntries
             /\ Becomes(Navigate(w, [url |-> RefreshTo[url], add |-> RefreshTo[url] = url],
                                 FALSE))

Event(h) == Loading(h) \/ Ready(h) \/ Done(h) \/ Error(h) \/ Download(h)

UserActs == \/ Visit \/ Stop \/ Reload \/ Back \/ Forward
            \/ AnswerError \/ AnswerSsl \/ AnswerAuth

Next == \/ UserActs
        \/ \E h \in Handles : Event(h) \/ Redirect(h)
        \/ Refresh
        \/ Abandoned

\* The handles keep the promise of ContentUser, and refreshes come due.
Spec == /\ Init /\ [][Next]_vars
        /\ \A h \in Handles : WF_vars(Event(h))
        /\ WF_vars(Refresh)

-----------------------------------------------------------------------------
(* What the callback asserts of its handle ("assert(bw->loading_content == *)
(* c)", "assert(bw->current_content == c)") holds of every handle that may *)
(* still call it: a handle is owned by the window until it is released.    *)
(* The one exception: Back, pressed while the browser fetches a query page *)
(* by itself, loses its handle (browser_window__reload_current_parameters, *)
(* which does not stop what is being loaded).                              *)
CallbackAsserts ==
    bw.barged \/ \A h \in Handles : handles[h].open =>
      IF Last(Window, h) \in {"NOTHING", "LOADING"} THEN bw.loading_content = h
      ELSE bw.current_content = h

(* A refresh that is scheduled is that of the page that is shown, which    *)
(* has one, and is done, while the user is not on the way to another       *)
(* (browser_window_refresh, browser_window_stop).                          *)
RefreshIsOwn ==
    bw.due => /\ bw.loading_content = None /\ bw.current_content # None
              /\ Last(Window, bw.current_content) = "DONE"
              /\ RefreshTo[handles[bw.current_content].url] # None

(* The window is busy when something is being loaded, or a page waits for  *)
(* its objects, and at no other time (browser_window_start_throbber,       *)
(* browser_window_stop_throbber).                                          *)
BusyIsShown == bw.throbbing <=> OnItsWay

(* The parameters go with the contents: those of what is being loaded are  *)
(* kept for the query page that may have to offer a retry, and those of    *)
(* the page that is shown are there to come back to it                     *)
(* (browser_window_content_ready: "Transfer the fetch parameters").  They  *)
(* have the URL that was asked for, also when the content has another one  *)
(* after a redirect.  They are gone when Back was pressed after a query    *)
(* page was stopped, until the page that is shown has come again.          *)
ParamsInStep ==
    LET c == bw.current_content
        l == bw.loading_content
        Own(h) == handles[h].kind # "page" \/ handles[h].asked = Blank
    IN bw.barged \/
       /\ l # None => /\ handles[l].internal = bw.internal_nav
                      /\ bw.internal_nav => Own(l) /\ bw.loading_parameters.url # None
                      /\ ~bw.internal_nav => handles[l].asked = bw.loading_parameters.url
       /\ c # None => IF Own(c) THEN handles[c].kind # "page" => bw.loading_parameters.url # None
                      ELSE bw.forgot \/ bw.current_parameters.url = handles[c].asked

(* An entry of the history keeps what was seen of its own page, its title, *)
(* its thumbnail and how far it was scrolled (desktop/browser_private.h,   *)
(* browser_window_history_update: "content for current entry").            *)
HistoryShowsItsPage ==
    \A e \in DOMAIN history.entries : history.entries[e].shows = history.entries[e].url

(* The window does not stay busy for ever when the user leaves it alone:   *)
(* every story of a handle ends in browser_window_stop_throbber.  It may   *)
(* once Back has lost a handle.                                            *)
Rests == []<>~bw.throbbing \/ []<><<UserActs>>_vars \/ <>bw.barged
=============================================================================
