------------------------------ MODULE LlCache ------------------------------
(***************************************************************************)
(* The low-level cache of NetSurf, content/llcache.c: the objects being    *)
(* fetched or kept, the handles ("users") that clients hold on them, and   *)
(* the pass that catches every user up with its object.                    *)
(*                                                                         *)
(* It runs in one thread, but it calls its clients back in the middle of a *)
(* pass, and a client may do what it likes there: release or abort its own *)
(* handle or somebody else's, retrieve, turn to streaming.  A pass is      *)
(* therefore a walk, one step for each callback, and the clients' actions  *)
(* are enabled between two walks and inside a callback.                    *)
(*                                                                         *)
(* The environment is the fetchers, which end a fetch or send one of their *)
(* messages between two walks, and time, which makes an object stale.      *)
(* Dates are left out: any object of the right URL may be the newest.  An  *)
(* object's cache control data are "void" (invalidated), "live", "stale"   *)
(* (its lifetime is over, or a client has marked it: both are validated    *)
(* before use, once) or "always" (to be validated).                        *)
(* Sizes are left out: cleaning drops any number of the fresh objects.     *)
(* Memory does not run out.  The framebuffer front end registers no        *)
(* backing store (desktop/gui_factory.c:811), so objects live in RAM only. *)
(***************************************************************************)
EXTENDS Integers, Sequences, FiniteSets, Functions

CONSTANTS Users,          \* handles
          Objects,        \* bound: objects at one time
          Urls,
          None, Tomb,     \* no object or user; a record that lost its handle
          FetchAttempts,  \* llcache->fetch_attempts
          RedirectLimit,  \* REDIRECT_LIMIT
          MaxLen,         \* bound: chunks of data in an object
          MaxCount,       \* bound: objects with one candidate
          MaxCalls,       \* bound: calls by the clients
          Answers         \* what a client's callback may return

ASSUME LlCacheAssumption ==
    /\ {None, Tomb} \cap (Users \cup Objects \cup Urls) = {} /\ None # Tomb
    /\ FetchAttempts \in Nat \ {0}
    /\ RedirectLimit \in Nat /\ MaxLen \in Nat /\ MaxCount \in Nat /\ MaxCalls \in Nat
    /\ Answers \subseteq {"ok", "need", "error"}

VARIABLES cached, uncached,  \* the two lists of objects
          objs,              \* the objects
          users,             \* what each user was told
          pending,           \* ~all_caught_up: a pass is scheduled
          walk,              \* the pass, or the event being sent
          cut,               \* ghost: the latest pass left users out
          calls              \* calls of the clients so far

vars == <<cached, uncached, objs, users, pending, walk, cut, calls>>

-----------------------------------------------------------------------------
(* llcache_fetch_state *)
INIT == 0
HEADERS == 1
DATA == 2
COMPLETE == 3

IndexOf(s, x) == CHOOSE i \in DOMAIN s : s[i] = x

AtHead(x, s) == <<x>> \o s

\* A list from which x is unlinked
Without(s, x) ==
    IF x \in Range(s)
    THEN SubSeq(s, 1, IndexOf(s, x) - 1) \o SubSeq(s, IndexOf(s, x) + 1, Len(s))
    ELSE s

First(s) == IF s = <<>> THEN None ELSE s[1]
After(s, x) == IF IndexOf(s, x) < Len(s) THEN s[IndexOf(s, x) + 1] ELSE None

(* An object.  cond: its fetch asked whether the candidate is still good;  *)
(* short (ghost): its fetch was aborted on behalf of a client; lent        *)
(* (ghost): it was a candidate and was found good.                         *)
NoObject == [url |-> None, users |-> <<>>, state |-> INIT, fetch |-> FALSE,
             len |-> 0, candidate |-> None, count |-> 0, cache |-> "void",
             cond |-> FALSE, forced |-> FALSE, stream |-> FALSE,
             redirects |-> 0, retries |-> 0, short |-> FALSE,
             lent |-> FALSE]

(* state: below DATA, it was told nothing yet (INIT and HEADERS only       *)
(* differ in that the certificates were passed on); asked (ghost): its     *)
(* client waits for the whole object.                                      *)
NoUser == [state |-> INIT, bytes |-> 0, asked |-> FALSE]

(* A walk is at a user of an object; with an event, its client is running. *)
(* doomed: queued_for_delete.  seen: the object's state when its user's    *)
(* turn began.  orig: the bytes the user had before this event.            *)
Idle == [kind |-> "none", list |-> "cached", obj |-> None, user |-> None,
         event |-> "none", doomed |-> FALSE, seen |-> INIT, orig |-> 0,
         to |-> None]

Alive == Range(cached) \cup Range(uncached)
NewObjects == Objects \ Alive
HasUser(o, u) == u \in Range(objs[o].users)
Listed(u) == \E o \in Alive : HasUser(o, u)
ObjectOf(u) == CHOOSE o \in Alive : HasUser(o, u)
Held(u) == Listed(u) /\ ~(walk.user = u /\ walk.doomed)

\* MUTANT: a user with users after it in the list is taken to be alone.
FirstOfAll(u) == First(objs[ObjectOf(u)].users) = u

Alone(u) == objs[ObjectOf(u)].users = <<u>>

MayCall == walk.kind = "none" \/ walk.event # "none"

Init == /\ cached = <<>> /\ uncached = <<>>
        /\ objs = [o \in Objects |-> NoObject]
        /\ users = [u \in Users |-> NoUser]
        /\ pending = FALSE /\ walk = Idle /\ cut = FALSE
        /\ calls = 0

-----------------------------------------------------------------------------
(* Operations on the objects h *)
AddUser(h, o, u) == [h EXCEPT ![o].users = AtHead(u, @)]

RemoveUser(h, o, u) == [h EXCEPT ![o].users = Without(@, u)]

\* llcache_invalidate_cache_control_data
Invalidated(r) == [r EXCEPT !.cache = "void"]

\* "Release candidate, if any"
WithoutCandidate(h, o) ==
    IF h[o].candidate = None THEN h
    ELSE [h EXCEPT ![h[o].candidate].count = @ - 1,
                   ![o] = [@ EXCEPT !.candidate = None, !.cond = FALSE]]

\* The fetch is over: there are no other attempts, and no redirects to count.
Ended(r) == [r EXCEPT !.fetch = FALSE, !.state = COMPLETE, !.retries = 0,
                      !.redirects = 0]

Stopped(r) == Ended(Invalidated(r))

\* llcache_object_refetch
Refetched(r) ==
    [Invalidated(r) EXCEPT !.cond = (r.candidate # None /\ r.cache # "void"),
                           !.state = INIT, !.fetch = TRUE]

\* llcache_object_fetch, for a new object
Fetching(url, forced, stream, redirects) ==
    [NoObject EXCEPT !.url = url, !.fetch = TRUE, !.forced = forced,
                     !.stream = stream, !.redirects = redirects,
                     !.retries = FetchAttempts]

\* llcache_object_rfc2616_remaining_lifetime, llcache_object_is_fresh
HasLifetime(r) == r.cache = "live"
IsFresh(r) == HasLifetime(r) \/ (r.cache # "always" /\ r.state # COMPLETE)

\* The new object o is fetched to find out if m is still good.
Validating(h, o, m) == [h EXCEPT ![o].candidate = m,
                                 ![o].cond = (h[m].cache # "void"),
                                 ![m].count = @ + 1]

(* llcache_object_retrieve: what it may make of the cache, and the object  *)
(* it finds or makes.                                                      *)
Outcome(c, u, h, o) == [cached |-> c, uncached |-> u, objs |-> h, found |-> o]

Retrievals(url, forced, stream, redirects) ==
    LET with(o) == [objs EXCEPT ![o] = Fetching(url, forced, stream, redirects)]
        matches == {m \in Range(cached) : objs[m].url = url}
        fresh == {m \in matches : IsFresh(objs[m])}
        old == {m \in matches \ fresh : objs[m].count < MaxCount}
    IN  IF forced
        THEN {Outcome(cached, AtHead(o, uncached), with(o), o) : o \in NewObjects}
        ELSE IF matches = {}
        THEN {Outcome(AtHead(o, cached), uncached, with(o), o) : o \in NewObjects}
        ELSE {Outcome(cached, uncached, objs, m) : m \in fresh}
             \cup {Outcome(AtHead(o, cached), uncached, Validating(with(o), o, m), o) :
                      o \in NewObjects, m \in old}

-----------------------------------------------------------------------------
(* What clients do, between two walks or in a callback *)

(* llcache_handle_retrieve.  Downloads are forced and streamed. *)
Retrieve(u, url, forced, stream) ==
    /\ MayCall /\ ~Listed(u) /\ (stream => forced)
    /\ \E r \in Retrievals(url, forced, stream, 0) :
          /\ cached' = r.cached /\ uncached' = r.uncached
          /\ objs' = AddUser(r.objs, r.found, u)
    /\ users' = [users EXCEPT ![u] = [NoUser EXCEPT !.asked = TRUE]]
    /\ pending' = TRUE
    /\ UNCHANGED <<walk, cut>>

(* llcache_handle_release *)
Release(u) ==
    /\ MayCall /\ Held(u)
    /\ IF walk.user = u
       THEN /\ walk' = [walk EXCEPT !.doomed = TRUE]
            /\ users' = [users EXCEPT ![u].asked = FALSE]
            /\ UNCHANGED objs
       ELSE /\ objs' = RemoveUser(objs, ObjectOf(u), u)
            /\ users' = [users EXCEPT ![u] = NoUser]
            /\ UNCHANGED walk
    /\ UNCHANGED <<cached, uncached, pending, cut>>

(* llcache_object_snapshot *)
Snapshot(r) == [NoObject EXCEPT !.url = r.url, !.len = r.len,
                                !.state = COMPLETE, !.short = TRUE,
                                !.lent = r.lent]

(* llcache_handle_abort *)
AbortAlone(u, o) ==
    /\ objs' = [objs EXCEPT ![o] = IF @.fetch THEN [Stopped(@) EXCEPT !.short = TRUE]
                                              ELSE Invalidated(@)]
    /\ UNCHANGED <<uncached, walk>>

\* The record in the walk stays in its list, without its handle.
AbortApart(u, o) ==
    \E n \in NewObjects :
        /\ objs' = [(IF walk.user = u
                     THEN [objs EXCEPT ![o].users =
                             [i \in DOMAIN @ |-> IF @[i] = u THEN Tomb ELSE @[i]]]
                     ELSE RemoveUser(objs, o, u))
                   EXCEPT ![n] = [Snapshot(objs[o]) EXCEPT !.users = <<u>>]]
        /\ walk' = IF walk.user = u
                   THEN [walk EXCEPT !.user = Tomb, !.doomed = TRUE] ELSE walk
        /\ uncached' = AtHead(n, uncached)

Abort(u) ==
    /\ MayCall /\ Held(u)
    /\ IF Alone(u) THEN AbortAlone(u, ObjectOf(u)) ELSE AbortApart(u, ObjectOf(u))
    /\ users' = [users EXCEPT ![u].asked = FALSE]
    /\ UNCHANGED <<cached, pending, cut>>

(* llcache_handle_force_stream, which hlcache_migrate_ctx calls when it    *)
(* finds out that the object is a download.  The walk goes on from the     *)
(* object's new place.                                                     *)
ForceStream(u) ==
    /\ walk.kind = "notify" /\ walk.user = u /\ Held(u) /\ Alone(u)
    /\ objs' = [objs EXCEPT ![walk.obj].stream = TRUE]
    /\ IF walk.obj \in Range(cached)
       THEN /\ cached' = Without(cached, walk.obj)
            /\ uncached' = AtHead(walk.obj, uncached)
            /\ cut' = (cut \/ After(cached, walk.obj) # None)
       ELSE UNCHANGED <<cached, uncached, cut>>
    /\ UNCHANGED <<users, pending, walk>>

(* llcache_handle_clone, for a content that is being shared *)
Clone(u, v) ==
    /\ MayCall /\ Held(u) /\ ~Listed(v)
    /\ users[u].state >= DATA /\ ~objs[ObjectOf(u)].stream
    /\ objs' = AddUser(objs, ObjectOf(u), v)
    /\ users' = [users EXCEPT ![v] = [NoUser EXCEPT !.state = users[u].state]]
    /\ UNCHANGED <<cached, uncached, pending, walk, cut>>

(* llcache_handle_invalidate_cache_data *)
InvalidateCache(u) ==
    /\ MayCall /\ Held(u)
    /\ ~objs[ObjectOf(u)].fetch /\ objs[ObjectOf(u)].cache = "live"
    /\ objs' = [objs EXCEPT ![ObjectOf(u)].cache = "stale"]
    /\ UNCHANGED <<cached, uncached, users, pending, walk, cut>>

-----------------------------------------------------------------------------
(* llcache_catch_up_all_users and llcache_object_notify_users.  A pass     *)
(* visits the users of the cached objects, then those of the uncached      *)
(* ones, and calls a client back for each event its user lacks.            *)

\* The next event for user r of object b, whose state is seen
EventFor(r, b, seen) ==
    IF r.state < DATA THEN IF seen > HEADERS THEN "headers" ELSE "none"
    ELSE IF r.state = DATA /\ seen >= DATA /\ b.len > r.bytes THEN "data"
    ELSE IF r.state = DATA /\ seen = COMPLETE THEN "done" ELSE "none"

Visits == {v \in Alive \X Users : HasUser(v[1], v[2])}

Place(o) == IF o \in Range(cached) THEN IndexOf(cached, o)
                                   ELSE Len(cached) + IndexOf(uncached, o)

Before(v, w) == \/ Place(v[1]) < Place(w[1])
                \/ /\ v[1] = w[1]
                   /\ IndexOf(objs[v[1]].users, v[2]) < IndexOf(objs[v[1]].users, w[2])

Earliest(S) == CHOOSE v \in S : \A w \in S \ {v} : Before(v, w)

\* The visits in which there is something to tell, the users being us
Due(us) == {v \in Visits : EventFor(us[v[2]], objs[v[1]], objs[v[1]].state) # "none"}

\* A stream keeps no data, and cannot play them again.
Call(list, v, seen, us, h) ==
    LET b == h[v[1]]
        r == us[v[2]]
        event == EventFor(r, b, seen)
        kept == IF b.stream THEN 0 ELSE b.len
    IN  /\ walk' = [Idle EXCEPT !.kind = "notify", !.list = list, !.obj = v[1],
                        !.user = v[2], !.event = event, !.seen = seen,
                        !.orig = IF event = "data" /\ ~b.stream THEN r.bytes ELSE 0]
        /\ users' = [us EXCEPT ![v[2]] =
                        CASE event = "headers" -> [r EXCEPT !.state = DATA]
                          [] event = "data" -> [r EXCEPT !.bytes = kept]
                          [] event = "done" -> [r EXCEPT !.state = COMPLETE]]
        /\ objs' = IF event = "data" THEN [h EXCEPT ![v[1]].len = kept] ELSE h

(* On to the visits ahead.  When the object was moved to the uncached list *)
(* meanwhile, the first of the two loops ends there, and the second visits *)
(* that list again.                                                        *)
Moved == walk.list = "cached" /\ walk.obj \in Range(uncached)

Proceed(ahead, us, h) ==
    LET again == {v \in Due(us) : /\ Moved /\ v[1] \in Range(uncached)
                                   /\ v[2] \in Range(h[v[1]].users)}
    IN  IF ahead \cap Due(us) # {}
        THEN LET v == Earliest(ahead \cap Due(us))
             IN  Call(IF Moved \/ v[1] \in Range(cached) THEN "cached" ELSE "uncached",
                      v, objs[v[1]].state, us, h)
        ELSE IF again # {}
        THEN Call("uncached", Earliest(again), objs[Earliest(again)[1]].state, us, h)
        ELSE walk' = Idle /\ users' = us /\ objs' = h

CatchUp == /\ walk.kind = "none" /\ pending
           /\ pending' = FALSE /\ cut' = FALSE
           /\ Proceed(Visits, users, objs)
           /\ UNCHANGED <<cached, uncached>>

(* The callback returns.  A user released in it, or the record it left     *)
(* behind, is taken away now.                                              *)
Here == <<walk.obj, walk.user>>
It == objs[walk.obj]

Dropped == IF walk.user \in Users THEN [users EXCEPT ![walk.user] = NoUser]
                                  ELSE users

\* "User requested replay"
Replayed(r) == CASE walk.event = "headers" -> [r EXCEPT !.state = INIT]
                 [] walk.event = "data" -> [r EXCEPT !.bytes = walk.orig]
                 [] walk.event = "done" -> [r EXCEPT !.state = DATA]

\* llcache_object_notify_users returns, and so misses the other users.
Leaves(answer) == \/ answer = "error"
                  \/ walk.doomed /\ answer = "need"

Ahead(answer) == {v \in Visits : Before(Here, v) /\ (Leaves(answer) => v[1] # walk.obj)}

Returned(answer) ==
    /\ walk.kind = "notify"
    /\ LET us == IF walk.doomed THEN Dropped
                 ELSE IF answer = "need" THEN [users EXCEPT ![walk.user] = Replayed(@)]
                 ELSE users
           h == IF walk.doomed THEN RemoveUser(objs, walk.obj, walk.user) ELSE objs
       IN  IF /\ ~walk.doomed /\ answer = "ok"
              /\ EventFor(us[walk.user], It, walk.seen) # "none"
           THEN Call(walk.list, Here, walk.seen, us, h)
           ELSE Proceed(Ahead(answer), us, h)
    /\ pending' = (pending \/ (~walk.doomed /\ answer = "need"))
    /\ cut' = (cut \/ Leaves(answer))
    /\ UNCHANGED <<cached, uncached>>

-----------------------------------------------------------------------------
(* llcache_send_event_to_users, and what follows it.  The clients answer   *)
(* these events with NSERROR_OK.                                           *)
SendAt(event, o, u, to) ==
    /\ walk' = IF u # None
               THEN [Idle EXCEPT !.kind = "send", !.obj = o, !.user = u,
                                 !.event = event, !.to = to]
               ELSE IF event = "redirect"
               THEN [Idle EXCEPT !.kind = "follow", !.obj = o, !.to = to]
               ELSE Idle
    /\ pending' = (pending \/ walk' = Idle)

Send(event, o, to) == SendAt(event, o, First(objs[o].users), to)

SendNext ==
    /\ walk.kind = "send"
    /\ IF walk.doomed
       THEN /\ objs' = RemoveUser(objs, walk.obj, walk.user)
            /\ users' = Dropped
       ELSE UNCHANGED <<objs, users>>
    /\ SendAt(walk.event, walk.obj, After(It.users, walk.user), walk.to)
    /\ UNCHANGED <<cached, uncached, cut>>

-----------------------------------------------------------------------------
(* llcache_fetch_callback, called by the fetchers between two walks *)
FromFetcher(o) == walk.kind = "none" /\ o \in Alive /\ objs[o].fetch

Became(o, r) == objs' = [objs EXCEPT ![o] = r]

\* MUTANT: llcache_users_not_caught_up is not called.
Unscheduled == UNCHANGED <<pending, users, walk>>

\* A message that the users are told of later
Quietly == pending' = TRUE /\ UNCHANGED <<users, walk>>

Lists == UNCHANGED <<cached, uncached, cut>>

FetchHeader(o) ==
    /\ FromFetcher(o) /\ objs[o].state <= HEADERS
    /\ \E cache \in {objs[o].cache, "live", "always"} :
          Became(o, [objs[o] EXCEPT !.state = HEADERS, !.cache = cache])
    /\ Quietly /\ Lists

(* llcache_fetch_process_data.  With the first data, the data of a         *)
(* response not to be kept are invalidated.                                *)
FetchData(o) ==
    /\ FromFetcher(o) /\ objs[o].len < MaxLen
    /\ LET h == IF objs[o].state = DATA THEN objs ELSE WithoutCandidate(objs, o)
       IN  \E r \in IF objs[o].state = DATA THEN {h[o]}
                                            ELSE {h[o], Invalidated(h[o])} :
             objs' = [h EXCEPT ![o] = [r EXCEPT !.state = DATA, !.len = @ + 1]]
    /\ Quietly /\ Lists

FetchFinished(o) ==
    /\ FromFetcher(o)
    /\ Became(o, Ended(objs[o]))
    /\ Quietly /\ Lists

Fails(o) == /\ objs' = [WithoutCandidate(objs, o) EXCEPT ![o] = Stopped(@)]
            /\ Send("message", o, None)
            /\ UNCHANGED users /\ Lists

(* FETCH_ERROR, and FETCH_CERT_ERR: llcache_fetch_cert_error *)
FetchError(o) == FromFetcher(o) /\ Fails(o)

\* MUTANT: the first attempt is not counted.
MayRetryOnceMore(o) == objs[o].retries >= 1

MayRetry(o) == objs[o].retries > 1

(* llcache_fetch_timeout *)
FetchTimedOut(o) ==
    /\ FromFetcher(o)
    /\ IF MayRetry(o)
       THEN /\ Became(o, [Refetched(objs[o]) EXCEPT !.retries = @ - 1])
            /\ Quietly /\ Lists
       ELSE Fails(o)

(* llcache_fetch_auth and llcache_fetch_ssl_error give up, or try again    *)
(* with what they have not tried yet, credentials or no TLS; which of them *)
(* have been tried is left out.  There is no candidate, so no validators.  *)
FetchRefused(o) ==
    /\ FromFetcher(o) /\ objs[o].state <= HEADERS
    /\ \/ Fails(o)
       \/ /\ objs' = [WithoutCandidate(objs, o) EXCEPT ![o] = Refetched(@)]
          /\ Quietly /\ Lists

\* MUTANT: the users stay in their old list, too.
CopiedUsers(h, o, n) ==
    [h EXCEPT ![n].users = [i \in 1..Len(h[o].users) |->
                               h[o].users[Len(h[o].users) + 1 - i]] \o @]

\* The users of o, one after the other, to the head of the users of n
MovedUsers(h, o, n) ==
    [h EXCEPT ![n].users = [i \in 1..Len(h[o].users) |->
                               h[o].users[Len(h[o].users) + 1 - i]] \o @,
              ![o].users = <<>>]

(* llcache_fetch_notmodified.  A server says so only when it was asked, or *)
(* erroneously when there is no candidate.                                 *)
FetchNotModified(o) ==
    /\ FromFetcher(o) /\ objs[o].state <= HEADERS
    /\ LET c == objs[o].candidate
       IN  IF c = None
           THEN Became(o, Stopped(objs[o]))
           ELSE /\ objs[o].cond
                /\ \E cache \in {objs[c].cache} \cup
                        (IF objs[c].cache = "always" THEN {} ELSE {"live"}) :
                     objs' = [WithoutCandidate(MovedUsers(objs, o, c), o) EXCEPT
                                ![o] = Stopped(@), ![c].cache = cache,
                                ![c].lent = TRUE]
    /\ Quietly /\ Lists

(* llcache_fetch_redirect: the users are told, and then follow, unless the *)
(* target cannot be fetched.                                               *)
FetchRedirect(o, url) ==
    /\ FromFetcher(o) /\ objs[o].state <= HEADERS
    /\ IF objs[o].redirects > RedirectLimit
       THEN Fails(o)
       ELSE /\ objs' = [WithoutCandidate(objs, o) EXCEPT ![o] = [Stopped(@) EXCEPT
                                                   !.redirects = objs[o].redirects]]
            /\ Send("redirect", o, url)
            /\ UNCHANGED users /\ Lists

Follow ==
    /\ walk.kind = "follow"
    /\ \E r \in Retrievals(walk.to, It.forced, It.stream, It.redirects + 1) :
          /\ cached' = r.cached /\ uncached' = r.uncached
          /\ objs' = MovedUsers(r.objs, walk.obj, r.found)
    /\ walk' = Idle /\ pending' = TRUE
    /\ UNCHANGED <<users, cut>>

DoNotFollow == /\ walk.kind = "follow"
               /\ walk' = Idle /\ pending' = TRUE
               /\ UNCHANGED <<cached, uncached, objs, users, cut>>

-----------------------------------------------------------------------------
(* llcache_clean *)
Unused(o) == /\ objs[o].users = <<>> /\ objs[o].count = 0
             /\ ~objs[o].fetch

\* A walk of the list s that unlinks the objects in S
Purged(s, S) ==
    LET left[n \in 0..Len(s)] == IF n = 0 THEN <<>>
                                 ELSE IF s[n] \in S THEN left[n - 1]
                                 ELSE Append(left[n - 1], s[n])
    IN  left[Len(s)]

\* Of the fresh objects, those go that the walk meets before it has enough.
Clean ==
    /\ walk.kind = "none"
    /\ LET stale == {o \in Alive : Unused(o) /\ (o \in Range(cached)
                                                  => ~HasLifetime(objs[o]))}
       IN  \E n \in 0..Len(cached) :
             LET gone == stale \cup {o \in {cached[i] : i \in 1..n} : Unused(o)}
             IN  /\ cached' = Purged(cached, gone)
                 /\ uncached' = Purged(uncached, gone)
                 /\ objs' = [o \in Objects |-> IF o \in gone THEN NoObject
                                               ELSE objs[o]]
    /\ UNCHANGED <<users, pending, walk, cut>>

\* Time passes.
Expire(o) == /\ walk.kind = "none" /\ o \in Alive /\ ~objs[o].fetch
             /\ HasLifetime(objs[o])
             /\ Became(o, [objs[o] EXCEPT !.cache = "stale"])
             /\ UNCHANGED <<users, pending, walk>> /\ Lists

-----------------------------------------------------------------------------
Client ==
    /\ calls < MaxCalls /\ calls' = calls + 1
    /\ \E u \in Users :
          \/ \E url \in Urls, forced, stream \in BOOLEAN : Retrieve(u, url, forced, stream)
          \/ Release(u) \/ Abort(u) \/ ForceStream(u) \/ InvalidateCache(u)
          \/ \E v \in Users : Clone(u, v)

Fetcher(o) ==
    \/ FetchHeader(o) \/ FetchData(o) \/ FetchFinished(o) \/ FetchError(o)
    \/ FetchTimedOut(o) \/ FetchRefused(o) \/ FetchNotModified(o)
    \/ \E url \in Urls : FetchRedirect(o, url)

Cache == CatchUp \/ SendNext \/ Follow \/ DoNotFollow \/ Clean
         \/ \E answer \in Answers : Returned(answer)

System == /\ Cache \/ \E o \in Objects : Fetcher(o) \/ Expire(o)
          /\ UNCHANGED calls

Next == Client \/ System

Spec == Init /\ [][Next]_vars

-----------------------------------------------------------------------------
ObjectType(r) ==
    /\ r.url \in Urls /\ r.state \in INIT..COMPLETE /\ r.fetch \in BOOLEAN
    /\ r.len \in 0..MaxLen /\ r.candidate \in Objects \cup {None} /\ r.count \in Nat
    /\ r.cache \in {"void", "live", "stale", "always"}
    /\ r.cond \in BOOLEAN /\ r.forced \in BOOLEAN /\ r.stream \in BOOLEAN
    /\ r.short \in BOOLEAN /\ r.lent \in BOOLEAN
    /\ r.redirects \in 0..RedirectLimit + 1 /\ r.retries \in 0..FetchAttempts

(* The object that a fetch may turn out to validate is kept until then: it *)
(* is alive and counts at least the objects that rely on it.               *)
CandidatesLive ==
    \A c \in Objects :
        LET relying == {o \in Alive : objs[o].candidate = c}
        IN  relying # {} => c \in Alive /\ objs[c].count >= Cardinality(relying)

(* "Cannot stream if there are multiple users" (llcache.c:4158): data that *)
(* are thrown away once told are told to a single client, as long as the   *)
(* object was no candidate.                                                *)
StreamAlone == \A o \in Alive :
    objs[o].stream /\ ~objs[o].lent => Len(objs[o].users) <= 1

(* Objects are in one list, once; a handle is at one object, once; an      *)
(* object is complete exactly when no fetch is filling it; candidates are  *)
(* kept and streams have one user.                                         *)
LlCacheInv ==
    /\ Len(cached) + Len(uncached) = Cardinality(Alive)
    /\ \A o \in Objects : IF o \in Alive THEN ObjectType(objs[o])
                                         ELSE objs[o] = NoObject
    /\ \A o \in Alive : objs[o].fetch <=> objs[o].state # COMPLETE
    /\ \A u \in Users : /\ users[u].state \in INIT..COMPLETE
                        /\ users[u].bytes \in 0..MaxLen
                        /\ Cardinality({v \in Visits : v[2] = u}) <= 1
    /\ walk.user # None => walk.obj \in Alive /\ HasUser(walk.obj, walk.user)
    /\ CandidatesLive
    /\ StreamAlone

(* A client waiting for an object has been told all there is to tell, or a *)
(* pass is coming that will, whatever clients did in their callbacks,      *)
(* unless one of them cut the pass short.                                  *)
Lacks(u) == /\ Listed(u) /\ users[u].asked
            /\ EventFor(users[u], objs[ObjectOf(u)], objs[ObjectOf(u)].state) # "none"

NobodyForgotten == walk.kind = "none" /\ ~pending /\ ~cut => \A u \in Users : ~Lacks(u)

(* A client that asked for an object and is told that it is done has all   *)
(* of it.  The object's fetch was not cut short by another client's abort, *)
(* unless the object was a candidate.                                      *)
Whole(u, b) == b.state = COMPLETE /\ (b.stream \/ users[u].bytes = b.len)

Done(u) == Listed(u) /\ users[u].asked /\ users[u].state = COMPLETE

WholeBody == \A u \in Users : Done(u) =>
    /\ Whole(u, objs[ObjectOf(u)])
    /\ objs[ObjectOf(u)].short => objs[ObjectOf(u)].lent

(* Nobody is ahead of its object: a client that was told the headers is    *)
(* never handed to, or left with, a response whose headers are to come; or *)
(* with less data than it was given, unless they are a stream, which keeps *)
(* none, or may have been one when it was a candidate.                     *)
NobodyAhead == \A v \in Visits : users[v[2]].state >= DATA =>
    /\ objs[v[1]].state >= DATA
    /\ objs[v[1]].stream \/ objs[v[1]].lent \/ users[v[2]].bytes <= objs[v[1]].len
=============================================================================
