------------------------------ MODULE HlCache -------------------------------
(***************************************************************************)
(* The high-level cache of NetSurf, content/hlcache.c, on the users and    *)
(* the status of content/content.c: from a retrieval, through the context  *)
(* that waits for the type of what is fetched, to a content that several   *)
(* handles may share.                                                      *)
(*                                                                         *)
(* Below it is the low-level cache, module LlCache, of which only what the *)
(* contexts and contents hold of it is kept: objects that are still being  *)
(* fetched, are complete or have failed, and what aborting one of several  *)
(* users does.  Above it are the clients; they release their handle when   *)
(* they are told of an error or a download, in the callback (html/css.c,   *)
(* html/object.c, css/css.c, desktop/browser_window.c), and otherwise      *)
(* release and abort between two events.                                   *)
(*                                                                         *)
(* A content is an "image", which is converted at once, a "sheet", which   *)
(* may wait for its imports, or a "page", which may wait for its sheets    *)
(* and objects and is never shared; type "none" is anything else.  Memory  *)
(* does not run out, and the cache is not finalised.                       *)
(***************************************************************************)
EXTENDS Integers, Sequences, FiniteSets

CONSTANTS Handles, Contents, Objects, \* bounds: how many there are at a time
          Urls, TypeOf,               \* what is fetched, and its type
          Quirks,                     \* modes that a document may be in
          Requests,                   \* bound: what the clients retrieve
          None

\* The cache and its users are in memory: there are finitely many.
ASSUME HlCacheAssumption ==
    /\ IsFiniteSet(Handles) /\ IsFiniteSet(Contents) /\ Handles \cap Contents = {}
    /\ TypeOf \in [Urls -> {"image", "sheet", "page", "none"}]
    /\ None \notin Handles \cup Contents \cup Objects
    /\ Requests \subseteq [url : Urls, quirks : Quirks, welcome : BOOLEAN]

VARIABLES handles,   \* the handles
          contents,  \* the contents in the cache's list
          objects    \* the low-level objects that are in use

vars == <<handles, contents, objects>>

-----------------------------------------------------------------------------
(* A handle is "free", has a retrieval context ("ctx") or a content, or    *)
(* has neither any more: it was aborted ("bare").  told (ghost): what its  *)
(* user was told, until it gives up; aborted (ghost): it was aborted.      *)
(* welcome: the types that its user accepts include what will come, or it  *)
(* may be downloaded if it is of no known type.                            *)
NoHandle == [at |-> "free", obj |-> None, content |-> None, quirks |-> None,
             welcome |-> FALSE, told |-> <<>>, aborted |-> FALSE]

(* source: its low-level handle has not been told that the object is done. *)
(* lost (ghost): its conversion failed, and it is LOADING for ever.        *)
NoContent == [status |-> "NONE", type |-> "none", obj |-> None, source |-> FALSE,
              users |-> {}, quirks |-> None, lost |-> FALSE]

\* cut (ghost): its fetch was aborted, and part of it is missing.
NoObject == [state |-> "none", url |-> None, usable |-> FALSE, cut |-> FALSE]

Init == /\ handles = [h \in Handles |-> NoHandle]
        /\ contents = [c \in Contents |-> NoContent]
        /\ objects = [o \in Objects |-> NoObject]

Cached == {c \in Contents : contents[c].status # "NONE"}
Nascent == {h \in Handles : handles[h].at = "ctx"}
UnusedContents == Contents \ Cached
Lost == {c \in Contents : contents[c].lost}

(* What is lost takes up Contents: this bound leaves one of them for every *)
(* handle that is open then.                                               *)
Room == Cardinality({h \in Handles : handles[h].at \in {"ctx", "content"}})
          + Cardinality(Lost) < Cardinality(Contents)

\* The low-level handles on object o are those of contexts and of contents.
Holders(H, C, o) == {h \in Handles : H[h].at = "ctx" /\ H[h].obj = o}
                    \cup {c \in Contents : C[c].status # "NONE" /\ C[c].obj = o}

\* llcache_clean, for objects that nobody may be given any more
Swept(H, C, O) == [o \in Objects |->
    IF Holders(H, C, o) = {} /\ (~O[o].usable \/ O[o].state = "failed")
    THEN NoObject ELSE O[o]]

Becomes(H, C, O) == handles' = H /\ contents' = C /\ objects' = Swept(H, C, O)

-----------------------------------------------------------------------------
(* llcache_handle_abort, for the holder of r, a context or a content: one  *)
(* of several users gets a snapshot of its own, the only one ends the      *)
(* fetch.  The result is the object that the holder has then.              *)
CutOff(O, o) == [O EXCEPT ![o].state = "complete", ![o].usable = FALSE,
                          ![o].cut = @ \/ O[o].state = "going"]

Snapshots(O, o) == {n \in Objects : O[n].state = "none"}

Alone(o) == Cardinality(Holders(handles, contents, o)) = 1

-----------------------------------------------------------------------------
(* content_broadcast: every user of content c.  A user that is told of an  *)
(* error releases its handle.                                              *)
Tell(H, U, messages) ==
    [h \in Handles |->
       IF h \notin U THEN H[h]
       ELSE LET t == [H[h] EXCEPT !.told = @ \o messages]
            IN IF "ERROR" \in {messages[i] : i \in DOMAIN messages}
               THEN [NoHandle EXCEPT !.told = t.told] ELSE t]

\* hlcache_handle_retrieve: a fresh object, or a new one
Retrieve(h, q) ==
    /\ handles[h].at = "free" /\ (Lost = {} \/ Room)
    /\ \E o \in Objects :
         /\ \/ objects[o].usable /\ objects[o].url = q.url /\ objects[o].state # "failed"
            \/ objects[o].state = "none"
         /\ Becomes([handles EXCEPT ![h] = [NoHandle EXCEPT
                       !.at = "ctx", !.obj = o, !.quirks = q.quirks, !.welcome = q.welcome]],
                    contents,
                    IF objects[o].state = "none"
                    THEN [objects EXCEPT ![o] = [NoObject EXCEPT
                            !.state = "going", !.url = q.url, !.usable = TRUE]]
                    ELSE objects)

Matching(h) ==
    {c \in Cached : /\ contents[c].type # "page"
                    /\ contents[c].type = "sheet" => contents[c].quirks = handles[h].quirks
                    /\ contents[c].obj = handles[h].obj}

\* MUTANT: a content that is still loading is not shared.
SuitableLoaded(h) == {c \in Matching(h) : contents[c].status \notin {"LOADING", "ERROR"}}

\* hlcache_find_content: "Search list of cached contents for a suitable one"
Suitable(h) == {c \in Matching(h) : contents[c].status # "ERROR"}

\* MUTANT: a user that comes late is told where the content is, once.
ToldStatus(status) == IF status = "LOADING" THEN <<"LOADING">> ELSE <<"LOADING", status>>

\* "Catch handle up with state of content"
CaughtUp(status) == CASE status = "LOADING" -> <<"LOADING">>
                      [] status = "READY" -> <<"LOADING", "READY">>
                      [] status = "DONE" -> <<"LOADING", "READY", "DONE">>

Joins(h, c, status) ==
    Tell([handles EXCEPT ![h] = [NoHandle EXCEPT !.at = "content", !.content = c]], {h},
         CaughtUp(status))

(* hlcache_llcache_callback, once there is enough to tell the type, and    *)
(* hlcache_migrate_ctx.                                                    *)
Migrate(h) ==
    LET r == handles[h]
        type == TypeOf[objects[r.obj].url]
    IN /\ h \in Nascent /\ objects[r.obj].state # "failed"
       /\ \/ /\ r.welcome /\ type # "none" /\ Suitable(h) = {}
             /\ \E c \in UnusedContents :
                  Becomes(Joins(h, c, "LOADING"),
                          [contents EXCEPT ![c] = [status |-> "LOADING", type |-> type,
                             obj |-> r.obj, source |-> TRUE, users |-> {h},
                             quirks |-> r.quirks, lost |-> FALSE]],
                          objects)
          \/ /\ r.welcome /\ type # "none"
             /\ \E c \in Suitable(h) :
                  Becomes(Joins(h, c, contents[c].status),
                          [contents EXCEPT ![c].users = @ \cup {h}], objects)
          \/ /\ r.welcome /\ type = "none" \* llcache_handle_force_stream
             /\ Becomes([handles EXCEPT ![h] = [NoHandle EXCEPT !.told = <<"DOWNLOAD">>]],
                        contents, [objects EXCEPT ![r.obj].usable = FALSE])
          \/ /\ ~r.welcome
             /\ Becomes(Tell(handles, {h}, <<"ERROR">>), contents,
                        IF Alone(r.obj) THEN CutOff(objects, r.obj) ELSE objects)

\* LLCACHE_EVENT_ERROR, to a context
ContextError(h) ==
    /\ h \in Nascent /\ objects[handles[h].obj].state = "failed"
    /\ Becomes(Tell(handles, {h}, <<"ERROR">>), contents, objects)

-----------------------------------------------------------------------------
(* Contents *)
Moves(c, status, messages) ==
    /\ contents' = [contents EXCEPT ![c].status = status, ![c].source = FALSE,
                                    ![c].users = IF status = "ERROR" THEN {} ELSE @]
    /\ handles' = Tell(handles, contents[c].users, messages)

\* content_convert, when the source is done
Convert(c) ==
    /\ contents[c].source /\ contents[c].status = "LOADING"
    /\ objects[contents[c].obj].state = "complete"
    /\ \/ contents[c].type # "image" /\ Moves(c, "LOADING", <<>>)
       \/ contents[c].type # "page" /\ Moves(c, "DONE", <<"READY", "DONE">>)
       \/ Moves(c, "ERROR", <<"ERROR">>)
    /\ UNCHANGED objects

\* content_set_ready, content_set_done: what it waited for has come.
Advance(c) ==
    /\ ~contents[c].source /\ ~contents[c].lost
    /\ \/ contents[c].status = "LOADING" /\ Moves(c, "ERROR", <<"ERROR">>)
       \/ /\ contents[c].status = "LOADING" /\ contents[c].type = "sheet"
          /\ Moves(c, "DONE", <<"READY", "DONE">>)
       \/ /\ contents[c].status = "LOADING" /\ contents[c].type = "page"
          /\ Moves(c, "READY", <<"READY">>)
       \/ contents[c].status = "READY" /\ Moves(c, "DONE", <<"DONE">>)
    /\ UNCHANGED objects

(* content_broadcast_error for a page that keeps its status: either it is  *)
(* being parsed, and a sheet that it links to cannot be fetched            *)
(* (html_css_process_link), or the last sheet that it waited for has come, *)
(* and html_convert_css_callback ignores that html_begin_conversion fails. *)
ErrorIgnored(c) ==
    /\ contents[c].type = "page" /\ contents[c].status = "LOADING" /\ ~contents[c].lost
    /\ contents[c].source \/ contents[c].users # {} \/ Room
    /\ contents' = [contents EXCEPT ![c].users = {}, ![c].lost = ~contents[c].source]
    /\ handles' = Tell(handles, contents[c].users, <<"ERROR">>)
    /\ UNCHANGED objects

\* content_llcache_callback, LLCACHE_EVENT_ERROR
SourceError(c) ==
    /\ contents[c].source /\ contents[c].status = "LOADING"
    /\ objects[contents[c].obj].state = "failed"
    /\ Moves(c, "ERROR", <<"ERROR">>)
    /\ UNCHANGED objects

\* The object of content c of C once that was aborted: its own from then on.
CutOffContent(C, c, H) ==
    LET o == C[c].obj IN
    IF Cardinality(Holders(H, C, o)) = 1 THEN Becomes(H, C, CutOff(objects, o))
    ELSE \E n \in Snapshots(objects, o) :
           Becomes(H, [C EXCEPT ![c].obj = n],
                   CutOff([objects EXCEPT ![n] = objects[o]], n))

\* The handler's process_data fails.
ProcessFails(c) ==
    /\ contents[c].source /\ contents[c].status = "LOADING"
    /\ objects[contents[c].obj].state # "failed"
    /\ CutOffContent([contents EXCEPT ![c].status = "ERROR", ![c].users = {}], c,
                     Tell(handles, contents[c].users, <<"ERROR">>))

-----------------------------------------------------------------------------
(* Calls of the clients *)
AbortContext(h, H) ==
    LET o == handles[h].obj
    IN Becomes(H, contents, IF Alone(o) THEN CutOff(objects, o) ELSE objects)

\* hlcache_handle_release
Release(h) ==
    LET H == [handles EXCEPT ![h] = NoHandle] IN
    \/ handles[h].at = "bare" /\ Becomes(H, contents, objects)
    \/ h \in Nascent /\ AbortContext(h, H)
    \/ /\ handles[h].at = "content"
       /\ Becomes(H, [contents EXCEPT ![handles[h].content].users = @ \ {h}], objects)

\* MUTANT: a content is aborted for all of its users.
NeverShared(c) == TRUE

Unshared(c) == Cardinality(contents[c].users) = 1

(* hlcache_handle_abort; content_clone when there are other users;         *)
(* content_abort.  The clients abort what is not DONE; sheets are aborted  *)
(* only for <style> elements (html/css.c:282), which share no URL.         *)
Abort(h) ==
    LET c == handles[h].content IN
    \/ /\ h \in Nascent
       /\ AbortContext(h, [handles EXCEPT ![h] = [NoHandle EXCEPT !.at = "bare"]])
    \/ /\ handles[h].at = "content" /\ contents[c].status \in {"LOADING", "READY"}
       /\ ~handles[h].aborted /\ Unshared(c)
       /\ LET H == [handles EXCEPT ![h].aborted = TRUE] IN
          \/ CutOffContent(contents, c, H)
          \/ /\ contents[c].status = "READY" \* html_stop
             /\ CutOffContent([contents EXCEPT ![c].status = "DONE"], c,
                              Tell(H, {h}, <<"DONE">>))
    \/ /\ handles[h].at = "content" /\ contents[c].status \in {"LOADING", "READY"}
       /\ ~Unshared(c) /\ contents[c].type # "sheet"
       /\ \E n \in UnusedContents :
            CutOffContent([contents EXCEPT ![n] = [contents[c] EXCEPT !.users = {h}],
                                           ![c].users = @ \ {h}], n,
                          [handles EXCEPT ![h].aborted = TRUE, ![h].content = n])

-----------------------------------------------------------------------------
(* The fetchers, time, and the cleaning of the cache *)
FetchEnds(o) ==
    /\ objects[o].state = "going"
    /\ \E state \in {"complete", "failed"} :
         Becomes(handles, contents, [objects EXCEPT ![o].state = state])

Stale(o) ==
    /\ objects[o].usable
    /\ Becomes(handles, contents, [objects EXCEPT ![o].usable = FALSE])

\* MUTANT: contents that are used are destroyed.
NotLoading(c) == contents[c].status # "LOADING"

\* MUTANT: contents that failed are kept.
UnusedDone(c) == contents[c].users = {} /\ contents[c].status \in {"READY", "DONE"}

Disposable(c) == contents[c].users = {} /\ contents[c].status # "LOADING"

\* hlcache_clean, which schedules itself again
Clean == Becomes(handles,
                 [c \in Contents |-> IF Disposable(c) THEN NoContent ELSE contents[c]],
                 objects)

Next == \/ \E h \in Handles : \/ \E q \in Requests : Retrieve(h, q)
                              \/ Migrate(h) \/ ContextError(h) \/ Release(h) \/ Abort(h)
        \/ \E c \in Contents : \/ Convert(c) \/ Advance(c) \/ SourceError(c)
                              \/ ProcessFails(c) \/ ErrorIgnored(c)
        \/ \E o \in Objects : FetchEnds(o) \/ Stale(o)
        \/ Clean

(* Fetches end, the low-level cache is scheduled until everybody has been  *)
(* told, pages that are not lost settle (HtmlLoad, Settles), and cleaning  *)
(* is scheduled.                                                           *)
(* Migrate is strongly fair because the bound on contents may disable it.  *)
Fairness ==
    /\ \A h \in Handles : SF_vars(Migrate(h) \/ ContextError(h))
    /\ \A c \in Contents : WF_vars(Convert(c) \/ Advance(c) \/ SourceError(c))
    /\ \A o \in Objects : WF_vars(FetchEnds(o))
    /\ WF_vars(Clean)

Spec == Init /\ [][Next]_vars /\ Fairness

-----------------------------------------------------------------------------
(* The two sides of a handle agree: it is in the list of users of exactly  *)
(* the content it has (hlcache_handle_abort and hlcache_find_content move  *)
(* it), that content has not failed, and has a low-level object; a handle  *)
(* with a context has one too.                                             *)
HlCacheInv ==
    /\ \A h \in Handles, c \in Contents :
         h \in contents[c].users <=> handles[h].at = "content" /\ handles[h].content = c
    /\ \A c \in Cached : /\ objects[contents[c].obj].state # "none"
                         /\ contents[c].users # {} => contents[c].status # "ERROR"
    /\ \A h \in Nascent : objects[handles[h].obj].state # "none"

(* Contents are shared: what may be converted once for all is not kept     *)
(* twice (hlcache_find_content).                                           *)
ConvertedOnce ==
    \A c, d \in Cached :
      (/\ c # d /\ contents[c].obj = contents[d].obj
       /\ {contents[c].status, contents[d].status} \cap {"ERROR"} = {})
      => contents[c].type = "page" \/ contents[c].quirks # contents[d].quirks

(* A user gets the whole of what it asked for, unless it aborts it itself: *)
(* that another user aborts it, or its content, takes nothing from it      *)
(* (hlcache_handle_abort, "We are not the only user of 'c' so clone it").  *)
WholeForOthers ==
    \A h \in Handles :
      /\ h \in Nascent => ~objects[handles[h].obj].cut
      /\ handles[h].at = "content" /\ ~handles[h].aborted
         => ~objects[contents[handles[h].content].obj].cut

(* A content that nobody uses any more is destroyed, or used again, unless *)
(* it is a page whose conversion failed when its last sheet had come: the  *)
(* failure is ignored (html/css.c:138), and the page stays LOADING, which  *)
(* hlcache_clean leaves alone.  Nothing else is left behind so.            *)
UnusedGo == \A c \in Contents :
    []<>(c \notin Cached \/ contents[c].users # {} \/ contents[c].lost)

\* What every user of a handle may rely on
User == INSTANCE ContentUser WITH
    told <- [h \in Handles |-> handles[h].told],
    open <- {h \in Handles : handles[h].at \in {"ctx", "content"}}

(* The users of handles are told what ContentUser promises: LOADING, READY *)
(* and DONE, each once and in this order, or an error or a download, and   *)
(* in the end one that is final.                                           *)
ToldAsPromised == User!Spec
=============================================================================
